----------------------------- MODULE MCApplication -----------------------------
(* Processes, ids and events for TLC's run of Application.                 *)
EXTENDS Application

CONSTANTS a, b, c, id1, id2, h1

ThreeProcs == {a, b, c}
TwoPids    == {id1, id2}
TwoNamed   == {a, b}
OneHandler == {h1}
===============================================================================
