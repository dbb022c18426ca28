----------------------------- MODULE MCETWProfiler -----------------------------
(* Threads and environments for TLC's runs of ETWProfiler.                 *)
EXTENDS ETWProfiler, TLC

CONSTANTS h1, h2

OneHandler  == {h1}
TwoHandlers == {h1, h2}
Symmetry    == Permutations(TwoHandlers)

CtrlC       == {"Stopped"}
CtrlCOrExit == {"Stopped", "Aborted"}

NoFailures == {}
MergeFails == {"merge"}
AllButStop == AllFailures \ {"stop"}
===============================================================================
