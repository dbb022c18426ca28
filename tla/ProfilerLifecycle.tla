--------------------------- MODULE ProfilerLifecycle ---------------------------
(***************************************************************************)
(* What IProfiler (Profiler/IProfiler.hpp) promises to Application: work   *)
(* is begun once and ends in one way; Stop and Abort ask for its end; and  *)
(* IsFinished gives one answer, after the end and true to it.  ETWProfiler *)
(* and ETLReloggerProfiler are shown to implement this module, DoProfile   *)
(* is checked against it.                                                  *)
(***************************************************************************)
VARIABLES
    work,       \* "none", "running", or how it ended: "done" with a trace,
                \* "failed" with an error, "dropped" with neither
    asked,      \* what the callers have asked for: Stop, Abort
    answer      \* what IsFinished said when it said true

lifecycle == <<work, asked, answer>>

Answers == {"Finished", "Stopped", "Aborted", "Error"}
Ends    == {"done", "failed", "dropped"}

Init == work = "none" /\ asked = {} /\ answer = "none"

Begin == work = "none" /\ work' = "running" /\ UNCHANGED <<asked, answer>>

Ask(k) == k \in {"Stopped", "Aborted"} /\ asked' = asked \cup {k} /\ UNCHANGED <<work, answer>>

End(e) == work = "running" /\ e \in Ends /\ work' = e /\ UNCHANGED <<asked, answer>>

(* An error is not hidden but by Abort; success has its trace; only who    *)
(* asked for it is told that the profile was stopped.                      *)
Truthful(r) ==
    /\ r = "Finished" => work = "done"
    /\ r = "Stopped"  => work = "done" /\ "Stopped" \in asked
    /\ r = "Error"    => work = "failed"
    /\ r = "Aborted"  => work # "failed" \/ "Aborted" \in asked

Answer(r) ==
    /\ answer = "none"
    /\ work \in Ends
    /\ Truthful(r)
    /\ answer' = r
    /\ UNCHANGED <<work, asked>>

Next ==
    \/ Begin
    \/ \E k \in {"Stopped", "Aborted"} : Ask(k)
    \/ \E e \in Ends : End(e)
    \/ \E r \in Answers : Answer(r)

Spec == Init /\ [][Next]_lifecycle
===============================================================================
