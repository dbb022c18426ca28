------------------------ MODULE MCWaitableProcessGroup ------------------------
(* Model values and symmetry for TLC's runs of WaitableProcessGroup.       *)
EXTENDS WaitableProcessGroup, TLC

CONSTANTS p1, p2, p3, c1, c2

TwoPids    == {p1, p2}
ThreePids  == {p1, p2, p3}
TwoClients == {c1, c2}
Symmetry   == Permutations(ThreePids) \cup Permutations(TwoClients)

(* Stands for the 2^32 of a DWORD; any number above the pids will do.      *)
SmallSize == 16
===============================================================================
