----------------------------- MODULE ProcessGroup -----------------------------
(***************************************************************************)
(* What WaitableProcessGroup promises to the profiler: a set of processes  *)
(* in which each one finishes at most once, and a signal that is on        *)
(* exactly while there is nothing left to wait for.  No mutex, no wait     *)
(* handle and no callback: Add, Delete and the exit of a process are       *)
(* atomic.                                                                 *)
(***************************************************************************)
EXTENDS FiniteSets

CONSTANT Pids

VARIABLES
    members,    \* the processes of the group
    done,       \* those that are known to have exited
    signaled    \* is there nothing left to wait for?

vars == <<members, done, signaled>>

Init == members = {} /\ done = {} /\ signaled = FALSE

Add(S) ==
    /\ S # {}
    /\ S \cap members = {}
    /\ members' = members \cup S
    /\ done' = done
    /\ signaled' = FALSE

Finish(p) ==
    /\ p \in members \ done
    /\ members' = members
    /\ done' = done \cup {p}
    /\ signaled' = (done' = members')

Delete(p) ==
    /\ p \in members
    /\ members' = members \ {p}
    /\ done' = done \ {p}
    /\ signaled' = (done' = members')

(* The end of the group; its event is not looked at any more.              *)
Destroy ==
    /\ members' = {}
    /\ done' = {}
    /\ signaled' = signaled

Next ==
    \/ \E S \in SUBSET Pids : Add(S)
    \/ \E p \in Pids : Finish(p) \/ Delete(p)
    \/ Destroy

Spec == Init /\ [][Next]_vars
===============================================================================
