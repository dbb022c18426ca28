----------------------------- MODULE MCTargetStream -----------------------------
(* Processes, ids and keys for TLC's run of TargetStream.                  *)
EXTENDS TargetStream

CONSTANTS a, b, c, d, id1, id2, id3, k1

FourProcs == {a, b, c, d}
ThreePids == {id1, id2, id3}
OneTarget == {a}
OnePid    == [p \in OneTarget |-> id1]
OneKey    == {k1}
===============================================================================
