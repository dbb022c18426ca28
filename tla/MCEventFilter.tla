----------------------------- MODULE MCEventFilter -----------------------------
(* A machine of three processes and two threads for TLC's runs of          *)
(* EventFilter; pa is being profiled.                                      *)
EXTENDS EventFilter, TLC

CONSTANTS pa, pb, pc, ta, tb

AllPids   == {pa, pb, pc}
AllTids   == {ta, tb}
OneTarget == {pa}
Symmetry  == Permutations({pb, pc}) \cup Permutations(AllTids)
===============================================================================
