------------------------- MODULE WaitableProcessGroup -------------------------
(***************************************************************************)
(* WaitableProcessGroup (OS/Process/WaitableProcessGroup.cpp): a set of    *)
(* process handles that client threads edit and query under one recursive  *)
(* timed mutex, m_lock, while the Windows thread pool runs one wait        *)
(* callback per member when that process exits.                            *)
(*                                                                         *)
(* An operation that never blocks after it has m_lock is one step, enabled *)
(* while m_lock is free.  Delete and the destructor block for a running    *)
(* callback while they own m_lock, an iteration owns m_lock for a whole    *)
(* loop of its caller, and GetFinishedSize takes m_lock twice: those are   *)
(* split at exactly those points.                                          *)
(*                                                                         *)
(* Calls that change nothing are stuttering steps and have no action:      *)
(* Delete of a pid that is not a member, WaitForAll on an empty group.     *)
(***************************************************************************)
EXTENDS Integers, FiniteSets

CONSTANTS
    Pids,           \* process ids that may enter the group
    Clients,        \* threads that use the group
    NoOne,          \* owner of a free m_lock
    NoPid,          \* a client that deletes nothing
    SizeModulus,    \* Size is a DWORD: 2^32 in the code
    AddDuringCalls  \* may Add come between the halves of another operation?

ASSUME PidsAssumption    == IsFiniteSet(Pids) /\ NoPid \notin Pids
ASSUME ClientsAssumption == NoOne \notin Clients
ASSUME SizeAssumption    == SizeModulus \in Nat /\ SizeModulus > Cardinality(Pids)
ASSUME ModeAssumption    == AddDuringCalls \in BOOLEAN

VARIABLES
    members,        \* keys of m_processes, and of m_waitContexts
    exited,         \* is the process handle of a member signalled?
    finished,       \* ProcessWaitContext::finished
    registered,     \* ProcessWaitContext::hWaitHandle # nullptr
    canceled,       \* WaitCallbackContext::canceledEvent is set
    callback,       \* progress of the thread pool on the registered wait
    allFinished,    \* m_allFinishedEvent is set (manual reset)
    lock,           \* owner of m_lock
    pc,             \* the operation a client is in the middle of
    victim,         \* the pid a client's Delete removes
    size,           \* GetFinishedSize: first GetSize, then the result
    alive           \* the destructor has not finished

process == <<members, exited>>
wait    == <<finished, registered, canceled, callback>>
vars    == <<members, exited, finished, registered, canceled, callback,
             allFinished, lock, pc, victim, size, alive>>

CallbackStates == {"none", "armed", "check", "try"}
ClientStates   == {"idle", "iterating", "deleting", "destroying",
                   "waiting", "timedWaiting", "sizing", "sized"}

(* In the middle of an operation, without m_lock: WaitForAll after it has  *)
(* given m_lock back, GetFinishedSize between its two critical sections.   *)
Unlocked == {"waiting", "timedWaiting", "sizing"}

(* A callback that the thread pool has started and that has not returned.  *)
Running(p) == callback[p] \in {"check", "try"}

LockFree == lock = NoOne

(* A client between two calls, on a group that still exists.               *)
Ready(t) == alive /\ pc[t] = "idle"

-------------------------------------------------------------------------------
(* Helpers that run under m_lock *)

(* EnsureWaitingForAll: the waits it has to register.                      *)
Unwaited(M, F, R) == {p \in M : ~F[p] /\ ~R[p]}

(* The answer of IsAllFinished, once it has registered the missing waits.  *)
AllDone(M, F) == \A p \in M : F[p]

(* Every wait of S gets a new callback context, and the pool watches it.   *)
Armed(cb, S)   == [p \in Pids |-> IF p \in S THEN "armed" ELSE cb[p]]
With(f, S)     == [p \in Pids |-> p \in S \/ f[p]]
Without(f, S)  == [p \in Pids |-> p \notin S /\ f[p]]

-------------------------------------------------------------------------------
Init ==
    /\ members = {}
    /\ exited = [p \in Pids |-> FALSE]
    /\ finished = [p \in Pids |-> FALSE]
    /\ registered = [p \in Pids |-> FALSE]
    /\ canceled = [p \in Pids |-> FALSE]
    /\ callback = [p \in Pids |-> "none"]
    /\ allFinished = FALSE
    /\ lock = NoOne
    /\ pc = [t \in Clients |-> "idle"]
    /\ victim = [t \in Clients |-> NoPid]
    /\ size = [t \in Clients |-> 0]
    /\ alive = TRUE

(* The operating system: a process of the group exits.                     *)
Exit(p) ==
    /\ p \in members
    /\ ~exited[p]
    /\ exited' = [exited EXCEPT ![p] = TRUE]
    /\ UNCHANGED <<members, wait, allFinished, lock, pc, victim, size, alive>>

(* The thread pool starts the callback of a signalled handle, once.        *)
Fire(p) ==
    /\ callback[p] = "armed"
    /\ exited[p]
    /\ callback' = [callback EXCEPT ![p] = "check"]
    /\ UNCHANGED <<process, finished, registered, canceled, allFinished, lock,
                   pc, victim, size, alive>>

(* Mutation: the callback does not look at the cancellation event.         *)
CallbackNotCancelable(p) ==
    /\ callback[p] = "check"
    /\ callback' = [callback EXCEPT ![p] = "try"]
    /\ UNCHANGED <<process, finished, registered, canceled, allFinished, lock,
                   pc, victim, size, alive>>

(* ProcessWaitCallback looks at the cancellation event, then goes for the  *)
(* lock or returns.                                                        *)
CallbackCheck(p) ==
    /\ callback[p] = "check"
    /\ callback' = [callback EXCEPT ![p] = IF canceled[p] THEN "none" ELSE "try"]
    /\ UNCHANGED <<process, finished, registered, canceled, allFinished, lock,
                   pc, victim, size, alive>>

(* Mutation: one attempt at the lock, not a loop.                          *)
CallbackGivesUp(p) ==
    /\ callback[p] = "try"
    /\ ~LockFree
    /\ callback' = [callback EXCEPT ![p] = "none"]
    /\ UNCHANGED <<process, finished, registered, canceled, allFinished, lock,
                   pc, victim, size, alive>>

(* try_lock_for (100ms) gives up.                                          *)
CallbackTimeout(p) ==
    /\ callback[p] = "try"
    /\ ~LockFree
    /\ callback' = [callback EXCEPT ![p] = "check"]
    /\ UNCHANGED <<process, finished, registered, canceled, allFinished, lock,
                   pc, victim, size, alive>>

(* try_lock_for succeeds: the callback records the exit, registers the     *)
(* waits that are missing, signals the end of the last process and drops   *)
(* its own wait without blocking.                                          *)
CallbackFinish(p) ==
    /\ callback[p] = "try"
    /\ LockFree
    /\ finished' = With(finished, {p})
    /\ LET starts == Unwaited(members, finished', registered) IN
        /\ registered' = Without(With(registered, starts), {p})
        /\ canceled' = With(Without(canceled, starts), {p})
        /\ callback' = Armed([callback EXCEPT ![p] = "none"], starts)
    /\ allFinished' = (allFinished \/ AllDone(members, finished'))
    /\ UNCHANGED <<process, lock, pc, victim, size, alive>>

-------------------------------------------------------------------------------
(* Operations of the clients *)

(* Mutation: AddImpl does not reset the event.                             *)
AddWithoutReset(t) ==
    /\ Ready(t)
    /\ LockFree
    /\ \E S \in SUBSET (Pids \ members) : members' = members \cup S
    /\ exited' = exited
    /\ UNCHANGED <<wait, allFinished, lock, pc, victim, size, alive>>

(* Add, of one process or of several; AddImpl asserts that none of them is *)
(* a member.  X are those that have exited before their handle was opened. *)
Add(t) ==
    /\ Ready(t)
    /\ LockFree
    /\ AddDuringCalls \/ \A u \in Clients : pc[u] \notin Unlocked
    /\ \E S \in SUBSET (Pids \ members) :
        /\ S # {}
        /\ members' = members \cup S
        /\ \E X \in SUBSET S : exited' = With(exited, X)
    /\ allFinished' = FALSE
    /\ UNCHANGED <<wait, lock, pc, victim, size, alive>>

(* Mutation: the wait context outlives its process.                        *)
EraseProcessOnly(p, cb) ==
    /\ members' = members \ {p}
    /\ exited' = Without(exited, {p})
    /\ callback' = cb
    /\ allFinished' = (allFinished \/ AllDone(members', finished))
    /\ UNCHANGED <<finished, registered, canceled>>

(* The end of Delete: both maps lose p, then IsAllFinished.  cb is what the *)
(* thread pool makes of the waits until then.                              *)
Erase(p, cb) ==
    /\ members' = members \ {p}
    /\ exited' = Without(exited, {p})
    /\ finished' = Without(finished, {p})
    /\ LET starts == Unwaited(members', finished', registered) IN
        /\ registered' = Without(With(registered, starts), {p})
        /\ canceled' = Without(canceled, starts \cup {p})
        /\ callback' = Armed(cb, starts)
    /\ allFinished' = (allFinished \/ AllDone(members', finished'))

(* Mutation: Delete does not care for a wait in progress.                  *)
DeleteInAnyCase(t, p) ==
    /\ Ready(t)
    /\ LockFree
    /\ p \in members
    /\ Erase(p, callback)
    /\ UNCHANGED <<lock, pc, victim, size, alive>>

(* Delete of a member that is not being waited for.                        *)
Delete(t, p) ==
    /\ Ready(t)
    /\ LockFree
    /\ p \in members
    /\ finished[p] \/ ~registered[p]
    /\ Erase(p, callback)
    /\ UNCHANGED <<lock, pc, victim, size, alive>>

(* Delete of a member with a wait in progress cancels the callback and     *)
(* keeps m_lock while it waits for the callback to be over ...             *)
DeleteCancel(t, p) ==
    /\ Ready(t)
    /\ LockFree
    /\ p \in members
    /\ ~finished[p] /\ registered[p]
    /\ canceled' = With(canceled, {p})
    /\ lock' = t
    /\ pc' = [pc EXCEPT ![t] = "deleting"]
    /\ victim' = [victim EXCEPT ![t] = p]
    /\ UNCHANGED <<process, finished, registered, callback, allFinished, size, alive>>

(* Mutation: Delete gives up on a member whose callback is running.        *)
DeleteOrGiveUp(t) ==
    /\ pc[t] = "deleting"
    /\ IF Running(victim[t])
          THEN UNCHANGED <<process, wait, allFinished>>
          ELSE Erase(victim[t], [callback EXCEPT ![victim[t]] = "none"])
    /\ lock' = NoOne
    /\ pc' = [pc EXCEPT ![t] = "idle"]
    /\ victim' = [victim EXCEPT ![t] = NoPid]
    /\ UNCHANGED <<size, alive>>

(* ... UnregisterWaitEx returns when it is, and an armed wait fires no more. *)
DeleteEnd(t) ==
    /\ pc[t] = "deleting"
    /\ ~Running(victim[t])
    /\ Erase(victim[t], [callback EXCEPT ![victim[t]] = "none"])
    /\ lock' = NoOne
    /\ pc' = [pc EXCEPT ![t] = "idle"]
    /\ victim' = [victim EXCEPT ![t] = NoPid]
    /\ UNCHANGED <<size, alive>>

(* EnsureWaitingForAll, as WaitForAll and IsAllFinished call it.           *)
EnsureWaitingForAll ==
    LET starts == Unwaited(members, finished, registered) IN
        /\ registered' = With(registered, starts)
        /\ canceled' = Without(canceled, starts)
        /\ callback' = Armed(callback, starts)
        /\ UNCHANGED finished

IsAllFinished(t) ==
    /\ Ready(t)
    /\ LockFree
    /\ EnsureWaitingForAll
    /\ UNCHANGED <<process, allFinished, lock, pc, victim, size, alive>>

(* Mutation: WaitForAll relies on waits that somebody else registered.     *)
WaitForAllUnprepared(t) ==
    /\ Ready(t)
    /\ LockFree
    /\ members # {}
    /\ pc' = [pc EXCEPT ![t] = "waiting"]
    /\ UNCHANGED <<process, wait, allFinished, lock, victim, size, alive>>

(* WaitForAll on a group that is not empty gives m_lock back and waits for *)
(* the event, with the default Infinite timeout or a finite one.  From     *)
(* here on it may still be on its way to the kernel's wait: an event that  *)
(* is set and reset again before it gets there does not wake it.           *)
WaitForAllBegin(t) ==
    /\ Ready(t)
    /\ LockFree
    /\ members # {}
    /\ EnsureWaitingForAll
    /\ \E waiting \in {"waiting", "timedWaiting"} : pc' = [pc EXCEPT ![t] = waiting]
    /\ UNCHANGED <<process, allFinished, lock, victim, size, alive>>

WaitForAllReturn(t) ==
    /\ pc[t] \in {"waiting", "timedWaiting"}
    /\ allFinished \/ pc[t] = "timedWaiting"
    /\ pc' = [pc EXCEPT ![t] = "idle"]
    /\ UNCHANGED <<process, wait, allFinished, lock, victim, size, alive>>

(* GetFinishedSize is GetSize () - GetWaitingSize (), of type Size.        *)
GetWaitingSize == Cardinality({p \in members : ~finished[p]})

FinishedSizeBegin(t) ==
    /\ Ready(t)
    /\ LockFree
    /\ pc' = [pc EXCEPT ![t] = "sizing"]
    /\ size' = [size EXCEPT ![t] = Cardinality(members)]
    /\ UNCHANGED <<process, wait, allFinished, lock, victim, alive>>

(* Mutation: the operands the wrong way round.                             *)
FinishedSizeSwapped(t) ==
    /\ pc[t] = "sizing"
    /\ LockFree
    /\ pc' = [pc EXCEPT ![t] = "sized"]
    /\ size' = [size EXCEPT ![t] = (GetWaitingSize - size[t]) % SizeModulus]
    /\ UNCHANGED <<process, wait, allFinished, lock, victim, alive>>

FinishedSizeEnd(t) ==
    /\ pc[t] = "sizing"
    /\ LockFree
    /\ pc' = [pc EXCEPT ![t] = "sized"]
    /\ size' = [size EXCEPT ![t] = (size[t] - GetWaitingSize) % SizeModulus]
    /\ UNCHANGED <<process, wait, allFinished, lock, victim, alive>>

FinishedSizeReturn(t) ==
    /\ pc[t] = "sized"
    /\ pc' = [pc EXCEPT ![t] = "idle"]
    /\ size' = [size EXCEPT ![t] = 0]
    /\ UNCHANGED <<process, wait, allFinished, lock, victim, alive>>

(* A range-based for loop: begin () and end () each lock m_lock, and the   *)
(* iterators' destructors unlock it after the last turn of the loop.       *)
IterateBegin(t) ==
    /\ Ready(t)
    /\ LockFree
    /\ lock' = t
    /\ pc' = [pc EXCEPT ![t] = "iterating"]
    /\ UNCHANGED <<process, wait, allFinished, victim, size, alive>>

IterateEnd(t) ==
    /\ pc[t] = "iterating"
    /\ lock' = NoOne
    /\ pc' = [pc EXCEPT ![t] = "idle"]
    /\ UNCHANGED <<process, wait, allFinished, victim, size, alive>>

(* The destructor runs when no other client uses the group.  It cancels    *)
(* one wait after the other, in the map's order, and blocks on each.       *)
DestroyBegin(t) ==
    /\ alive
    /\ \A u \in Clients : pc[u] = "idle"
    /\ LockFree
    /\ lock' = t
    /\ pc' = [pc EXCEPT ![t] = "destroying"]
    /\ UNCHANGED <<process, wait, allFinished, victim, size, alive>>

DestroyCancel(t, p) ==
    /\ pc[t] = "destroying"
    /\ registered[p]
    /\ \A q \in Pids : registered[q] => ~canceled[q]
    /\ canceled' = With(canceled, {p})
    /\ UNCHANGED <<process, finished, registered, callback, allFinished, lock,
                   pc, victim, size, alive>>

DestroyUnregister(t, p) ==
    /\ pc[t] = "destroying"
    /\ registered[p] /\ canceled[p]
    /\ ~Running(p)
    /\ registered' = Without(registered, {p})
    /\ callback' = [callback EXCEPT ![p] = "none"]
    /\ UNCHANGED <<process, finished, canceled, allFinished, lock, pc, victim,
                   size, alive>>

DestroyEnd(t) ==
    /\ pc[t] = "destroying"
    /\ \A p \in Pids : ~registered[p]
    /\ members' = {}
    /\ exited' = [p \in Pids |-> FALSE]
    /\ finished' = [p \in Pids |-> FALSE]
    /\ canceled' = [p \in Pids |-> FALSE]
    /\ lock' = NoOne
    /\ pc' = [pc EXCEPT ![t] = "idle"]
    /\ alive' = FALSE
    /\ UNCHANGED <<registered, callback, allFinished, victim, size>>

(* The group is gone and nothing is left to do.                            *)
Gone == ~alive /\ UNCHANGED vars

-------------------------------------------------------------------------------
Callback(p) == CallbackCheck(p) \/ CallbackTimeout(p) \/ CallbackFinish(p)

Client(t) ==
    \/ Add(t)
    \/ IsAllFinished(t)
    \/ WaitForAllBegin(t) \/ WaitForAllReturn(t)
    \/ FinishedSizeBegin(t) \/ FinishedSizeEnd(t) \/ FinishedSizeReturn(t)
    \/ IterateBegin(t) \/ IterateEnd(t)
    \/ DeleteEnd(t)
    \/ DestroyBegin(t) \/ DestroyEnd(t)
    \/ \E p \in Pids :
        \/ Delete(t, p) \/ DeleteCancel(t, p)
        \/ DestroyCancel(t, p) \/ DestroyUnregister(t, p)

Next ==
    \/ \E p \in Pids : Exit(p) \/ Fire(p) \/ Callback(p)
    \/ \E t \in Clients : Client(t)
    \/ Gone

Spec == Init /\ [][Next]_vars

(* try_lock_for is not starved: a callback that tries for ever while       *)
(* m_lock is free again and again gets it in the end.                      *)
NotStarved(p) == []<>(Running(p) /\ LockFree) => []<>~Running(p)

(* What the scheduler owes: the pool runs callbacks, and a thread inside   *)
(* an operation goes on.                                                   *)
Fairness ==
    /\ \A p \in Pids :
        /\ WF_vars(Fire(p))
        /\ WF_vars(CallbackCheck(p))
        /\ WF_vars(CallbackTimeout(p))
        /\ WF_vars(CallbackFinish(p))
        /\ NotStarved(p)
    /\ \A t \in Clients :
        /\ WF_vars(DeleteEnd(t))
        /\ WF_vars(IterateEnd(t))
        /\ WF_vars(WaitForAllReturn(t))
        /\ WF_vars(DestroyEnd(t))
        /\ \A p \in Pids : WF_vars(DestroyCancel(t, p)) /\ WF_vars(DestroyUnregister(t, p))
        /\ SF_vars(FinishedSizeEnd(t)) /\ WF_vars(FinishedSizeReturn(t))

FairSpec == Spec /\ Fairness

-------------------------------------------------------------------------------
(* Properties *)

(* Every variable keeps the shape its C++ counterpart has.                 *)
TypeOK ==
    /\ members \in SUBSET Pids
    /\ exited \in [Pids -> BOOLEAN]
    /\ finished \in [Pids -> BOOLEAN]
    /\ registered \in [Pids -> BOOLEAN]
    /\ canceled \in [Pids -> BOOLEAN]
    /\ callback \in [Pids -> CallbackStates]
    /\ allFinished \in BOOLEAN
    /\ lock \in Clients \cup {NoOne}
    /\ pc \in [Clients -> ClientStates]
    /\ victim \in [Clients -> Pids \cup {NoPid}]
    /\ size \in [Clients -> Nat]
    /\ alive \in BOOLEAN

(* A callback that can still run has its context, its entry in             *)
(* m_waitContexts and its ProcessRef: neither Delete nor the destructor    *)
(* frees what ProcessWaitCallback dereferences.                            *)
CallbackContextAlive ==
    \A p \in Pids : callback[p] # "none" => alive /\ p \in members /\ registered[p]

(* Only a process that has exited is ever counted as finished, although    *)
(* pids are reused and callbacks outlive the handle they were started for. *)
FinishedOnlyIfExited == \A p \in Pids : finished[p] => p \in members /\ exited[p]

(* m_allFinishedEvent is set exactly when WaitForAll may return: never     *)
(* while a member runs, and always once the last one is finished or        *)
(* deleted.  The group that never had a member is the exception, for which *)
(* WaitForAll does not look at the event.                                  *)
EventSound    == allFinished => AllDone(members, finished)
EventComplete == members # {} /\ AllDone(members, finished) => allFinished

(* A wait that nobody is taking down and that has not run stays armed: no  *)
(* cancellation reaches a process that remains in the group, which would   *)
(* never be seen to exit.                                                  *)
CanceledIsLeaving ==
    \A p \in Pids : registered[p] /\ canceled[p] =>
        \E t \in Clients : pc[t] = "destroying" \/ (pc[t] = "deleting" /\ victim[t] = p)

(* A thread blocked in WaitForAll will be woken: as long as the event is   *)
(* not set, every member that is not finished is being waited for.         *)
WaiterWillBeWoken ==
    \A t \in Clients : pc[t] = "waiting" /\ ~allFinished =>
        /\ ~AllDone(members, finished)
        /\ \A p \in members : finished[p] \/ registered[p]

(* GetFinishedSize never says that more processes are finished than the    *)
(* group can hold: its two halves are never so far apart that the unsigned *)
(* difference wraps around.                                                *)
FinishedSizeInRange == \A t \in Clients : size[t] <= Cardinality(Pids)

(* While a client iterates, m_processes and the wait state of every member *)
(* stay as they are: ConstIterator's promise of atomic iteration.          *)
IterationIsAtomic ==
    [][\A t \in Clients : pc[t] = "iterating" =>
        UNCHANGED <<members, finished, registered>>]_vars

(* Every call that blocks comes back.  Delete and the destructor do even   *)
(* if the callback they wait for is itself waiting for the m_lock they     *)
(* own; WaitForAll without timeout does unless some member keeps running.  *)
CallsReturn ==
    \A t \in Clients :
        /\ (pc[t] = "deleting") ~> (pc[t] = "idle")
        /\ (pc[t] = "destroying") ~> ~alive
        /\ (pc[t] = "waiting") ~> (pc[t] = "idle" \/ \E p \in members : ~exited[p])

(* The exit of a process that is being waited for is noticed, unless it is *)
(* deleted or the whole group goes first.                                  *)
ExitIsNoticed ==
    \A p \in Pids : registered[p] /\ exited[p] ~> finished[p] \/ p \notin members

(* Behind its mutex, wait handles and callbacks the group is the simple    *)
(* one of module ProcessGroup, with the event as its signal.               *)
Abstract == INSTANCE ProcessGroup
                WITH done <- {p \in Pids : finished[p]}, signaled <- allFinished

ImplementsProcessGroup == Abstract!Spec
===============================================================================
