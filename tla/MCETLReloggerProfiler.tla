------------------------- MODULE MCETLReloggerProfiler -------------------------
(* Threads and failures for TLC's run of ETLReloggerProfiler.              *)
EXTENDS ETLReloggerProfiler

CONSTANTS h1, h2, h3

ThreeHandlers == {h1, h2, h3}
CtrlCOrExit == {"Stopped", "Aborted"}
===============================================================================
