---------------------- MODULE WaitableProcessGroup_proofs ----------------------
(***************************************************************************)
(* Proofs about WaitableProcessGroup, for every set of pids and clients.   *)
(***************************************************************************)
EXTENDS WaitableProcessGroup, FiniteSetTheorems, TLAPS

(* The size of a part of the group is a number that a Size can hold.       *)
LEMMA SizesAreNat ==
    ASSUME NEW S \in SUBSET Pids
    PROVE  IsFiniteSet(S) /\ Cardinality(S) \in Nat /\ Cardinality(S) <= Cardinality(Pids)
BY FS_Subset, FS_CardinalityType, PidsAssumption

(* A remainder of the Size type.                                           *)
LEMMA RemainderIsNat ==
    ASSUME NEW n \in Int
    PROVE  n % SizeModulus \in Nat
<1>1. SizeModulus \in Nat \ {0}
    BY SizesAreNat, SizeAssumption
<1> QED
    BY <1>1

(* What Delete does to the members and their waits keeps their types.      *)
LEMMA EraseTypes ==
    ASSUME TypeOK, NEW p,
           NEW cb \in [Pids -> CallbackStates],
           Erase(p, cb)
    PROVE  /\ members' \in SUBSET Pids
           /\ exited' \in [Pids -> BOOLEAN]
           /\ finished' \in [Pids -> BOOLEAN]
           /\ registered' \in [Pids -> BOOLEAN]
           /\ canceled' \in [Pids -> BOOLEAN]
           /\ callback' \in [Pids -> CallbackStates]
           /\ allFinished' \in BOOLEAN
<1>1. /\ members' \in SUBSET Pids
      /\ exited' \in [Pids -> BOOLEAN]
      /\ finished' \in [Pids -> BOOLEAN]
      /\ registered' \in [Pids -> BOOLEAN]
      /\ canceled' \in [Pids -> BOOLEAN]
    BY Zenon DEF TypeOK, Erase, With, Without
<1>2. callback' \in [Pids -> CallbackStates]
    BY DEF Erase, Armed, CallbackStates
<1>3. allFinished' \in BOOLEAN
    BY DEF TypeOK, Erase, AllDone
<1> QED
    BY <1>1, <1>2, <1>3

(* Type correctness is inductive by itself.                                *)
LEMMA TypeStep == TypeOK /\ [Next]_vars => TypeOK'
<1> SUFFICES ASSUME TypeOK, [Next]_vars PROVE TypeOK'
    OBVIOUS
<1> USE DEF TypeOK, CallbackStates, ClientStates
<1>1. ASSUME NEW p \in Pids, Exit(p) PROVE TypeOK'
    BY <1>1 DEF Exit, wait
<1>2. ASSUME NEW p \in Pids, Fire(p) PROVE TypeOK'
    BY <1>2 DEF Fire, process
<1>3. ASSUME NEW p \in Pids, CallbackCheck(p) PROVE TypeOK'
    BY <1>3 DEF CallbackCheck, process
<1>4. ASSUME NEW p \in Pids, CallbackTimeout(p) PROVE TypeOK'
    BY <1>4 DEF CallbackTimeout, process
<1>5. ASSUME NEW p \in Pids, CallbackFinish(p) PROVE TypeOK'
    <2>1. /\ finished' \in [Pids -> BOOLEAN]
          /\ registered' \in [Pids -> BOOLEAN]
          /\ canceled' \in [Pids -> BOOLEAN]
        BY <1>5, Zenon DEF CallbackFinish, With, Without
    <2>2. callback' \in [Pids -> CallbackStates]
        BY <1>5 DEF CallbackFinish, Armed
    <2>3. allFinished' \in BOOLEAN
        BY <1>5 DEF CallbackFinish, AllDone
    <2> QED
        BY <1>5, <2>1, <2>2, <2>3 DEF CallbackFinish, process
<1>6. ASSUME NEW t \in Clients, Add(t) PROVE TypeOK'
    <2>1. members' \in SUBSET Pids /\ exited' \in [Pids -> BOOLEAN]
        BY <1>6, Zenon DEF Add, With
    <2> QED
        BY <1>6, <2>1 DEF Add, wait
<1>7. ASSUME NEW t \in Clients, NEW p \in Pids, Delete(t, p) PROVE TypeOK'
    BY <1>7, EraseTypes DEF Delete
<1>8. ASSUME NEW t \in Clients, NEW p \in Pids, DeleteCancel(t, p) PROVE TypeOK'
    <2>1. canceled' \in [Pids -> BOOLEAN]
        BY <1>8, Zenon DEF DeleteCancel, With
    <2> QED
        BY <1>8, <2>1 DEF DeleteCancel, process
<1>9. ASSUME NEW t \in Clients, DeleteEnd(t) PROVE TypeOK'
    BY <1>9, EraseTypes DEF DeleteEnd
<1>10. ASSUME EnsureWaitingForAll
       PROVE  /\ finished' \in [Pids -> BOOLEAN]
              /\ registered' \in [Pids -> BOOLEAN]
              /\ canceled' \in [Pids -> BOOLEAN]
              /\ callback' \in [Pids -> CallbackStates]
    <2>1. registered' \in [Pids -> BOOLEAN] /\ canceled' \in [Pids -> BOOLEAN]
        BY <1>10, Zenon DEF EnsureWaitingForAll, With, Without
    <2>2. callback' \in [Pids -> CallbackStates]
        BY <1>10 DEF EnsureWaitingForAll, Armed
    <2> QED
        BY <1>10, <2>1, <2>2 DEF EnsureWaitingForAll
<1>11. ASSUME NEW t \in Clients, IsAllFinished(t) PROVE TypeOK'
    BY <1>11, <1>10 DEF IsAllFinished, process
<1>12. ASSUME NEW t \in Clients, WaitForAllBegin(t) PROVE TypeOK'
    BY <1>12, <1>10 DEF WaitForAllBegin, process
<1>13. ASSUME NEW t \in Clients, WaitForAllReturn(t) PROVE TypeOK'
    BY <1>13 DEF WaitForAllReturn, process, wait
<1>14. ASSUME NEW t \in Clients, FinishedSizeBegin(t) PROVE TypeOK'
    BY <1>14, SizesAreNat DEF FinishedSizeBegin, process, wait
<1>15. ASSUME NEW t \in Clients, FinishedSizeEnd(t) PROVE TypeOK'
    <2>1. GetWaitingSize \in Nat
        BY SizesAreNat DEF GetWaitingSize
    <2>2. size[t] - GetWaitingSize \in Int
        BY <2>1
    <2>3. (size[t] - GetWaitingSize) % SizeModulus \in Nat
        BY <2>2, RemainderIsNat
    <2> QED
        BY <1>15, <2>3 DEF FinishedSizeEnd, process, wait
<1>16. ASSUME NEW t \in Clients, FinishedSizeReturn(t) PROVE TypeOK'
    BY <1>16 DEF FinishedSizeReturn, process, wait
<1>17. ASSUME NEW t \in Clients, IterateBegin(t) PROVE TypeOK'
    BY <1>17 DEF IterateBegin, process, wait
<1>18. ASSUME NEW t \in Clients, IterateEnd(t) PROVE TypeOK'
    BY <1>18 DEF IterateEnd, process, wait
<1>19. ASSUME NEW t \in Clients, DestroyBegin(t) PROVE TypeOK'
    BY <1>19 DEF DestroyBegin, process, wait
<1>20. ASSUME NEW t \in Clients, NEW p \in Pids, DestroyCancel(t, p) PROVE TypeOK'
    <2>1. canceled' \in [Pids -> BOOLEAN]
        BY <1>20, Zenon DEF DestroyCancel, With
    <2> QED
        BY <1>20, <2>1 DEF DestroyCancel, process
<1>21. ASSUME NEW t \in Clients, NEW p \in Pids, DestroyUnregister(t, p) PROVE TypeOK'
    <2>1. registered' \in [Pids -> BOOLEAN]
        BY <1>21, Zenon DEF DestroyUnregister, Without
    <2> QED
        BY <1>21, <2>1 DEF DestroyUnregister, process
<1>22. ASSUME NEW t \in Clients, DestroyEnd(t) PROVE TypeOK'
    BY <1>22 DEF DestroyEnd
<1>23. CASE UNCHANGED vars
    BY <1>23 DEF vars
<1> QED
    BY <1>1, <1>2, <1>3, <1>4, <1>5, <1>6, <1>7, <1>8, <1>9, <1>11, <1>12, <1>13, <1>14,
       <1>15, <1>16, <1>17, <1>18, <1>19, <1>20, <1>21, <1>22, <1>23
    DEF Next, Callback, Client, Gone

(* At the start every variable has its type.                               *)
LEMMA TypeInit == Init => TypeOK
<1>1. ASSUME Init PROVE TypeOK
    <2>1. /\ exited \in [Pids -> BOOLEAN]
          /\ finished \in [Pids -> BOOLEAN]
          /\ registered \in [Pids -> BOOLEAN]
          /\ canceled \in [Pids -> BOOLEAN]
        BY <1>1, Zenon DEF Init
    <2>2. /\ callback \in [Pids -> CallbackStates]
          /\ pc \in [Clients -> ClientStates]
          /\ victim \in [Clients -> Pids \cup {NoPid}]
          /\ size \in [Clients -> Nat]
        BY <1>1 DEF Init, CallbackStates, ClientStates
    <2> QED
        BY <1>1, <2>1, <2>2 DEF Init, TypeOK
<1> QED
    BY <1>1

(* Every variable keeps the shape its C++ counterpart has, whatever the    *)
(* pids and the clients.                                                   *)
THEOREM TypeCorrect == Spec => []TypeOK
BY TypeInit, TypeStep, PTL DEF Spec

-------------------------------------------------------------------------------
(* The inductive invariant: who owns m_lock, and what a wait in progress   *)
(* and a Delete in progress know about the member they belong to.          *)
OwnerInv ==
    \A t \in Clients : pc[t] \in {"iterating", "deleting", "destroying"} <=> lock = t

DeleteInv ==
    \A t \in Clients : pc[t] = "deleting" => victim[t] \in members /\ registered[victim[t]]

WaitInv ==
    \A p \in Pids :
        /\ registered[p] => p \in members /\ ~finished[p]
        /\ Running(p) => exited[p]

(* The destructor has the group for itself, and nothing is left after it.  *)
AloneInv ==
    /\ \A t, u \in Clients : pc[t] = "destroying" /\ u # t => pc[u] = "idle"
    /\ ~alive => members = {}

(* The property of WaitForAll needs its callers' discipline.               *)
WaiterInv == ~AddDuringCalls => WaiterWillBeWoken

IndInv ==
    /\ TypeOK
    /\ OwnerInv
    /\ DeleteInv
    /\ WaitInv
    /\ AloneInv
    /\ CallbackContextAlive
    /\ FinishedOnlyIfExited
    /\ EventSound
    /\ EventComplete
    /\ CanceledIsLeaving
    /\ WaiterInv

(* At the start there are no members and no waits.                         *)
LEMMA IndInit == Init => IndInv
<1> SUFFICES ASSUME Init PROVE IndInv
    OBVIOUS
<1>1. TypeOK
    BY TypeInit
<1>2. OwnerInv /\ DeleteInv /\ AloneInv /\ WaiterInv
    BY ClientsAssumption DEF Init, OwnerInv, DeleteInv, AloneInv, WaiterInv, WaiterWillBeWoken
<1>3. WaitInv /\ CallbackContextAlive /\ FinishedOnlyIfExited /\ CanceledIsLeaving
    BY DEF Init, WaitInv, Running, CallbackContextAlive, FinishedOnlyIfExited, CanceledIsLeaving
<1>4. EventSound /\ EventComplete
    BY DEF Init, EventSound, EventComplete
<1> QED
    BY <1>1, <1>2, <1>3, <1>4 DEF IndInv

(* No step of a client, of the thread pool or of a process breaks it.      *)
LEMMA IndStep == IndInv /\ [Next]_vars => IndInv'
<1> SUFFICES ASSUME IndInv, [Next]_vars PROVE IndInv'
    OBVIOUS
<1>0. TypeOK /\ TypeOK'
    BY TypeStep DEF IndInv
<1> USE <1>0, PidsAssumption, ClientsAssumption
    DEF IndInv, TypeOK, OwnerInv, DeleteInv, WaitInv, AloneInv, CallbackContextAlive,
        FinishedOnlyIfExited, EventSound, EventComplete, CanceledIsLeaving,
        WaiterInv, WaiterWillBeWoken, CallbackStates, ClientStates, Running, AllDone
<1>1. ASSUME NEW p \in Pids, Exit(p) PROVE IndInv'
    BY <1>1 DEF Exit, wait
<1>2. ASSUME NEW p \in Pids, Fire(p) PROVE IndInv'
    BY <1>2 DEF Fire, process
<1>3. ASSUME NEW p \in Pids, CallbackCheck(p) PROVE IndInv'
    BY <1>3 DEF CallbackCheck, process
<1>4. ASSUME NEW p \in Pids, CallbackTimeout(p) PROVE IndInv'
    BY <1>4 DEF CallbackTimeout, LockFree, process
<1>5. ASSUME NEW p \in Pids, CallbackFinish(p) PROVE IndInv'
    <2>1. OwnerInv' /\ DeleteInv' /\ AloneInv'
        BY <1>5 DEF CallbackFinish, LockFree, Unwaited, With, Without, Armed, process
    <2>2. WaitInv' /\ CallbackContextAlive'
        BY <1>5 DEF CallbackFinish, LockFree, Unwaited, With, Without, Armed, process
    <2>3. FinishedOnlyIfExited' /\ EventSound'
        <3>1. \A q \in Pids : finished'[q] <=> q = p \/ finished[q]
            BY <1>5 DEF CallbackFinish, With
        <3>2. p \in members /\ exited[p] /\ UNCHANGED process
            BY <1>5 DEF CallbackFinish
        <3>3. allFinished' <=> allFinished \/ AllDone(members, finished')
            BY <1>5 DEF CallbackFinish
        <3> QED
            BY <3>1, <3>2, <3>3 DEF process
    <2>4. EventComplete'
        BY <1>5 DEF CallbackFinish, LockFree, Unwaited, With, Without, Armed, process
    <2>5. CanceledIsLeaving'
        BY <1>5 DEF CallbackFinish, LockFree, Unwaited, With, Without, Armed, process
    <2>6. WaiterInv'
        BY <1>5 DEF CallbackFinish, LockFree, Unwaited, With, Without, Armed, process
    <2> QED
        BY <2>1, <2>2, <2>3, <2>4, <2>5, <2>6
<1>6. ASSUME NEW t \in Clients, Add(t) PROVE IndInv'
    <2>1. OwnerInv' /\ DeleteInv' /\ AloneInv'
        BY <1>6 DEF Add, Ready, LockFree, With, wait
    <2>2. WaitInv' /\ CallbackContextAlive'
        BY <1>6 DEF Add, Ready, LockFree, With, wait
    <2>3. FinishedOnlyIfExited' /\ EventSound'
        BY <1>6 DEF Add, Ready, LockFree, With, wait
    <2>4. EventComplete'
        <3>1. PICK S \in SUBSET (Pids \ members) : S # {} /\ members' = members \cup S
            BY <1>6 DEF Add
        <3>2. PICK q \in S : q \in members'
            BY <3>1
        <3>3. ~finished[q] /\ finished' = finished
            BY <1>6, <3>1, <3>2 DEF Add, wait
        <3> QED
            BY <3>1, <3>2, <3>3
    <2>5. CanceledIsLeaving'
        BY <1>6 DEF Add, Ready, LockFree, With, wait
    <2>6. WaiterInv'
        BY <1>6 DEF Add, Ready, LockFree, With, Unlocked, wait
    <2> QED
        BY <2>1, <2>2, <2>3, <2>4, <2>5, <2>6
<1>7. ASSUME NEW t \in Clients, NEW p \in Pids, Delete(t, p) PROVE IndInv'
    <2>1. OwnerInv' /\ DeleteInv' /\ AloneInv'
        BY <1>7 DEF Delete, Erase, Ready, LockFree, Unwaited, With, Without, Armed
    <2>2. WaitInv' /\ CallbackContextAlive'
        BY <1>7 DEF Delete, Erase, Ready, LockFree, Unwaited, With, Without, Armed
    <2>3. FinishedOnlyIfExited' /\ EventSound'
        BY <1>7 DEF Delete, Erase, Ready, LockFree, Unwaited, With, Without, Armed
    <2>4. EventComplete'
        BY <1>7 DEF Delete, Erase, Ready, LockFree, Unwaited, With, Without, Armed
    <2>5. CanceledIsLeaving'
        BY <1>7 DEF Delete, Erase, Ready, LockFree, Unwaited, With, Without, Armed
    <2>6. WaiterInv'
        BY <1>7 DEF Delete, Erase, Ready, LockFree, Unwaited, With, Without, Armed
    <2> QED
        BY <2>1, <2>2, <2>3, <2>4, <2>5, <2>6
<1>8. ASSUME NEW t \in Clients, NEW p \in Pids, DeleteCancel(t, p) PROVE IndInv'
    BY <1>8 DEF DeleteCancel, Ready, LockFree, With, process
<1>9. ASSUME NEW t \in Clients, DeleteEnd(t) PROVE IndInv'
    <2>1. OwnerInv' /\ DeleteInv' /\ AloneInv'
        BY <1>9 DEF DeleteEnd, Erase, Unwaited, With, Without, Armed
    <2>2. WaitInv' /\ CallbackContextAlive'
        BY <1>9 DEF DeleteEnd, Erase, Unwaited, With, Without, Armed
    <2>3. FinishedOnlyIfExited' /\ EventSound'
        BY <1>9 DEF DeleteEnd, Erase, Unwaited, With, Without, Armed
    <2>4. EventComplete'
        BY <1>9 DEF DeleteEnd, Erase, Unwaited, With, Without, Armed
    <2>5. CanceledIsLeaving'
        BY <1>9 DEF DeleteEnd, Erase, Unwaited, With, Without, Armed
    <2>6. WaiterInv'
        BY <1>9 DEF DeleteEnd, Erase, Unwaited, With, Without, Armed
    <2> QED
        BY <2>1, <2>2, <2>3, <2>4, <2>5, <2>6
<1>10. ASSUME NEW t \in Clients, IsAllFinished(t) PROVE IndInv'
    <2>1. OwnerInv' /\ DeleteInv' /\ AloneInv'
        BY <1>10 DEF IsAllFinished, EnsureWaitingForAll, Ready, LockFree, Unwaited, With, Without, Armed, process
    <2>2. WaitInv' /\ CallbackContextAlive'
        BY <1>10 DEF IsAllFinished, EnsureWaitingForAll, Ready, LockFree, Unwaited, With, Without, Armed, process
    <2>3. FinishedOnlyIfExited' /\ EventSound'
        BY <1>10 DEF IsAllFinished, EnsureWaitingForAll, Ready, LockFree, Unwaited, With, Without, Armed, process
    <2>4. EventComplete'
        BY <1>10 DEF IsAllFinished, EnsureWaitingForAll, Ready, LockFree, Unwaited, With, Without, Armed, process
    <2>5. CanceledIsLeaving'
        BY <1>10 DEF IsAllFinished, EnsureWaitingForAll, Ready, LockFree, Unwaited, With, Without, Armed, process
    <2>6. WaiterInv'
        BY <1>10 DEF IsAllFinished, EnsureWaitingForAll, Ready, LockFree, Unwaited, With, Without, Armed, process
    <2> QED
        BY <2>1, <2>2, <2>3, <2>4, <2>5, <2>6
<1>11. ASSUME NEW t \in Clients, WaitForAllBegin(t) PROVE IndInv'
    <2>1. OwnerInv' /\ DeleteInv' /\ AloneInv'
        BY <1>11 DEF WaitForAllBegin, EnsureWaitingForAll, Ready, LockFree, Unwaited, With, Without, Armed, process
    <2>2. WaitInv' /\ CallbackContextAlive'
        BY <1>11 DEF WaitForAllBegin, EnsureWaitingForAll, Ready, LockFree, Unwaited, With, Without, Armed, process
    <2>3. FinishedOnlyIfExited' /\ EventSound'
        BY <1>11 DEF WaitForAllBegin, EnsureWaitingForAll, Ready, LockFree, Unwaited, With, Without, Armed, process
    <2>4. EventComplete'
        BY <1>11 DEF WaitForAllBegin, EnsureWaitingForAll, Ready, LockFree, Unwaited, With, Without, Armed, process
    <2>5. CanceledIsLeaving'
        BY <1>11 DEF WaitForAllBegin, EnsureWaitingForAll, Ready, LockFree, Unwaited, With, Without, Armed, process
    <2>6. WaiterInv'
        BY <1>11 DEF WaitForAllBegin, EnsureWaitingForAll, Ready, LockFree, Unwaited, With, Without, Armed, process
    <2> QED
        BY <2>1, <2>2, <2>3, <2>4, <2>5, <2>6
<1>12. ASSUME NEW t \in Clients, WaitForAllReturn(t) PROVE IndInv'
    BY <1>12 DEF WaitForAllReturn, process, wait
<1>13. ASSUME NEW t \in Clients, FinishedSizeBegin(t) PROVE IndInv'
    BY <1>13 DEF FinishedSizeBegin, Ready, LockFree, process, wait
<1>14. ASSUME NEW t \in Clients, FinishedSizeEnd(t) PROVE IndInv'
    BY <1>14 DEF FinishedSizeEnd, process, wait
<1>15. ASSUME NEW t \in Clients, FinishedSizeReturn(t) PROVE IndInv'
    BY <1>15 DEF FinishedSizeReturn, process, wait
<1>16. ASSUME NEW t \in Clients, IterateBegin(t) PROVE IndInv'
    BY <1>16 DEF IterateBegin, Ready, LockFree, process, wait
<1>17. ASSUME NEW t \in Clients, IterateEnd(t) PROVE IndInv'
    BY <1>17 DEF IterateEnd, process, wait
<1>18. ASSUME NEW t \in Clients, DestroyBegin(t) PROVE IndInv'
    BY <1>18 DEF DestroyBegin, LockFree, process, wait
<1>19. ASSUME NEW t \in Clients, NEW p \in Pids, DestroyCancel(t, p) PROVE IndInv'
    BY <1>19 DEF DestroyCancel, With, process
<1>20. ASSUME NEW t \in Clients, NEW p \in Pids, DestroyUnregister(t, p) PROVE IndInv'
    <2>1. OwnerInv' /\ DeleteInv' /\ AloneInv'
        BY <1>20 DEF DestroyUnregister, Without, process
    <2>2. WaitInv' /\ CallbackContextAlive'
        BY <1>20 DEF DestroyUnregister, Without, process
    <2>3. FinishedOnlyIfExited' /\ EventSound'
        BY <1>20 DEF DestroyUnregister, Without, process
    <2>4. EventComplete'
        BY <1>20 DEF DestroyUnregister, Without, process
    <2>5. CanceledIsLeaving'
        BY <1>20 DEF DestroyUnregister, Without, process
    <2>6. WaiterInv'
        BY <1>20 DEF DestroyUnregister, Without, process
    <2> QED
        BY <2>1, <2>2, <2>3, <2>4, <2>5, <2>6
<1>21. ASSUME NEW t \in Clients, DestroyEnd(t) PROVE IndInv'
    BY <1>21 DEF DestroyEnd
<1>22. CASE UNCHANGED vars
    BY <1>22 DEF vars
<1> QED
    BY <1>1, <1>2, <1>3, <1>4, <1>5, <1>6, <1>7, <1>8, <1>9, <1>10, <1>11, <1>12,
       <1>13, <1>14, <1>15, <1>16, <1>17, <1>18, <1>19, <1>20, <1>21, <1>22
    DEF Next, Callback, Client, Gone

(* Hence it always holds, whatever the pids and the clients.               *)
LEMMA Inductive == Spec => []IndInv
BY IndInit, IndStep, PTL DEF Spec

(* Neither Delete nor the destructor frees what a callback dereferences.   *)
THEOREM CallbacksAreSafe == Spec => []CallbackContextAlive
<1>1. IndInv => CallbackContextAlive
    BY DEF IndInv
<1> QED
    BY <1>1, Inductive, PTL

(* Only a process that has exited is counted as finished.                  *)
THEOREM FinishedIsTrue == Spec => []FinishedOnlyIfExited
<1>1. IndInv => FinishedOnlyIfExited
    BY DEF IndInv
<1> QED
    BY <1>1, Inductive, PTL

(* m_allFinishedEvent is set exactly while nothing is left to wait for.    *)
THEOREM EventIsExact == Spec => [](EventSound /\ EventComplete)
<1>1. IndInv => EventSound /\ EventComplete
    BY DEF IndInv
<1> QED
    BY <1>1, Inductive, PTL

(* A cancellation only reaches a wait that is being taken down.            *)
THEOREM CancellationIsTargeted == Spec => []CanceledIsLeaving
<1>1. IndInv => CanceledIsLeaving
    BY DEF IndInv
<1> QED
    BY <1>1, Inductive, PTL

(* If nobody calls Add while a thread is in WaitForAll, that thread will   *)
(* be woken: all the members it waits for are being watched.               *)
THEOREM WaitersAreServed == ~AddDuringCalls => (Spec => []WaiterWillBeWoken)
<1> SUFFICES ASSUME ~AddDuringCalls PROVE Spec => []WaiterWillBeWoken
    OBVIOUS
<1>1. IndInv => WaiterWillBeWoken
    BY DEF IndInv, WaiterInv
<1> QED
    BY <1>1, Inductive, PTL

-------------------------------------------------------------------------------
(* Steps that leave the members, what is finished and the event alone.     *)
Invisible == UNCHANGED <<members, finished, allFinished>>

(* What each step is to somebody who cannot see the mutex and the waits.   *)
LEMMA VisibleSteps ==
    ASSUME [Next]_vars
    PROVE  \/ Invisible
           \/ \E p \in Pids : CallbackFinish(p)
           \/ \E t \in Clients : Add(t) \/ DeleteEnd(t) \/ DestroyEnd(t)
           \/ \E t \in Clients, p \in Pids : Delete(t, p)
<1>1. CASE UNCHANGED vars
    BY <1>1 DEF vars, Invisible
<1>2. CASE \E p \in Pids : Exit(p) \/ Fire(p) \/ CallbackCheck(p) \/ CallbackTimeout(p)
    BY <1>2 DEF Exit, Fire, CallbackCheck, CallbackTimeout, process, wait, Invisible
<1>3. CASE \E t \in Clients : IsAllFinished(t) \/ WaitForAllBegin(t) \/ WaitForAllReturn(t)
    BY <1>3 DEF IsAllFinished, WaitForAllBegin, WaitForAllReturn, EnsureWaitingForAll,
                process, wait, Invisible
<1>4. CASE \E t \in Clients :
              FinishedSizeBegin(t) \/ FinishedSizeEnd(t) \/ FinishedSizeReturn(t)
    BY <1>4 DEF FinishedSizeBegin, FinishedSizeEnd, FinishedSizeReturn, process, wait, Invisible
<1>5. CASE \E t \in Clients : IterateBegin(t) \/ IterateEnd(t) \/ DestroyBegin(t)
    BY <1>5 DEF IterateBegin, IterateEnd, DestroyBegin, process, wait, Invisible
<1>6. CASE \E t \in Clients, p \in Pids :
              DeleteCancel(t, p) \/ DestroyCancel(t, p) \/ DestroyUnregister(t, p)
    BY <1>6 DEF DeleteCancel, DestroyCancel, DestroyUnregister, process, Invisible
<1> QED
    BY <1>1, <1>2, <1>3, <1>4, <1>5, <1>6 DEF Next, Callback, Client, Gone

(* ConstIterator's promise: nothing moves under a client that iterates.    *)
THEOREM IterationIsSafe == Spec => IterationIsAtomic
<1>1. ASSUME IndInv, [Next]_vars, NEW t \in Clients, pc[t] = "iterating"
      PROVE  UNCHANGED <<members, finished, registered>>
    <2>1. lock = t /\ ~LockFree
        BY <1>1, ClientsAssumption DEF IndInv, OwnerInv, LockFree
    <2>2. \A u \in Clients : pc[u] \notin {"deleting", "destroying"}
        BY <1>1, <2>1 DEF IndInv, OwnerInv
    <2>3. UNCHANGED <<members, finished, registered>>
        BY <1>1, <2>1, <2>2
        DEF Next, Callback, Client, Gone, vars, process, wait, Exit, Fire, CallbackCheck,
            CallbackTimeout, CallbackFinish, Add, Delete, DeleteCancel, DeleteEnd,
            IsAllFinished, WaitForAllBegin, WaitForAllReturn, FinishedSizeBegin,
            FinishedSizeEnd, FinishedSizeReturn, IterateBegin, IterateEnd,
            DestroyBegin, DestroyCancel, DestroyUnregister, DestroyEnd
    <2> QED
        BY <2>3
<1>2. IndInv /\ [Next]_vars =>
        [\A t \in Clients : pc[t] = "iterating" =>
            UNCHANGED <<members, finished, registered>>]_vars
    BY <1>1
<1> QED
    BY <1>2, Inductive, PTL DEF Spec, IterationIsAtomic

(* The set that the abstract group sees as done.                           *)
Done == {p \in Pids : finished[p]}

(* Every step of the group is a step of the abstract one, or invisible.    *)
LEMMA AbstractStep ==
    ASSUME IndInv, IndInv', [Next]_vars
    PROVE  [Abstract!Next]_(Abstract!vars)
<1>0. /\ members \in SUBSET Pids /\ members' \in SUBSET Pids
      /\ finished \in [Pids -> BOOLEAN] /\ finished' \in [Pids -> BOOLEAN]
      /\ allFinished \in BOOLEAN /\ allFinished' \in BOOLEAN
      /\ Done \subseteq members /\ Done' \subseteq members'
    BY DEF IndInv, TypeOK, FinishedOnlyIfExited, Done
<1>1. members' # {} => (allFinished' <=> Done' = members')
    BY <1>0 DEF IndInv, EventSound, EventComplete, AllDone, Done
<1>2. CASE Invisible
    BY <1>2 DEF Invisible, Abstract!vars
<1>3. ASSUME NEW p \in Pids, CallbackFinish(p) PROVE Abstract!Finish(p)
    <2>1. p \in members \ Done /\ members' = members
        BY <1>3 DEF CallbackFinish, process, IndInv, CallbackContextAlive, WaitInv, Done
    <2>2. Done' = Done \cup {p}
        BY <1>3, <1>0 DEF CallbackFinish, With, Done
    <2> QED
        BY <2>1, <2>2, <1>1, <1>0 DEF Abstract!Finish, Done
<1>4. ASSUME NEW t \in Clients, Add(t) PROVE \E S \in SUBSET Pids : Abstract!Add(S)
    <2>1. PICK S \in SUBSET (Pids \ members) : S # {} /\ members' = members \cup S
        BY <1>4 DEF Add
    <2>2. Done' = Done /\ allFinished' = FALSE
        BY <1>4 DEF Add, wait, Done
    <2> QED
        BY <2>1, <2>2 DEF Abstract!Add, Done
<1>5. ASSUME NEW p \in members, NEW cb, Erase(p, cb) PROVE Abstract!Delete(p)
    <2>1. members' = members \ {p} /\ Done' = Done \ {p}
        BY <1>5, <1>0 DEF Erase, Without, Done
    <2>2. allFinished' <=> Done' = members'
        BY <1>5, <1>0, <1>1, <2>1 DEF Erase, AllDone, Done
    <2> QED
        BY <2>1, <2>2, <1>0 DEF Abstract!Delete, Done
<1>6. ASSUME NEW t \in Clients, DestroyEnd(t) PROVE Abstract!Destroy
    <2>1. members' = {} /\ Done' = {} /\ allFinished' = allFinished
        BY <1>6, <1>0 DEF DestroyEnd
    <2> QED
        BY <2>1 DEF Abstract!Destroy, Done
<1>7. ASSUME NEW t \in Clients, DeleteEnd(t) PROVE \E p \in Pids : Abstract!Delete(p)
    <2>1. victim[t] \in members
        BY <1>7 DEF DeleteEnd, IndInv, DeleteInv
    <2> QED
        BY <1>7, <1>5, <1>0, <2>1 DEF DeleteEnd
<1>8. ASSUME NEW t \in Clients, NEW p \in Pids, Delete(t, p) PROVE Abstract!Delete(p)
    BY <1>8, <1>5 DEF Delete
<1> QED
    BY VisibleSteps, <1>2, <1>3, <1>4, <1>6, <1>7, <1>8 DEF Abstract!Next

(* The group, with its mutex, wait handles and callbacks, implements the   *)
(* atomic group of module ProcessGroup.                                    *)
THEOREM Implements == Spec => ImplementsProcessGroup
<1>1. Init => Abstract!Init
    BY DEF Init, Abstract!Init
<1>2. IndInv /\ IndInv' /\ [Next]_vars => [Abstract!Next]_(Abstract!vars)
    BY AbstractStep
<1> QED
    BY <1>1, <1>2, Inductive, PTL DEF Spec, ImplementsProcessGroup, Abstract!Spec
-------------------------------------------------------------------------------
(* What GetFinishedSize has read covers the group until it reads again.    *)
SizeInv ==
    \A t \in Clients :
        /\ size[t] <= Cardinality(Pids)
        /\ pc[t] = "sizing" => Cardinality(members) <= size[t]

(* Without Add the group only gets smaller under a thread in               *)
(* GetFinishedSize.                                                        *)
LEMMA NobodyJoins ==
    ASSUME ~AddDuringCalls, TypeOK, [Next]_vars, NEW t \in Clients, pc[t] = "sizing"
    PROVE  /\ members' \subseteq members
           /\ Cardinality(members') <= Cardinality(members)
<1>1. \A u \in Clients : ~Add(u)
    BY DEF Add, Unlocked
<1>2. members' \subseteq members
    BY <1>1, VisibleSteps DEF Invisible, CallbackFinish, Delete, DeleteEnd, DestroyEnd,
                              Erase, process
<1>3. IsFiniteSet(members)
    BY SizesAreNat DEF TypeOK
<1> QED
    BY <1>2, <1>3, FS_Subset

(* Only the two halves of GetFinishedSize, and its return, write a size.   *)
LEMMA SizesWritten ==
    ASSUME TypeOK, [Next]_vars, NEW t \in Clients
    PROVE  \/ size'[t] = size[t] /\ (pc'[t] = "sizing" => pc[t] = "sizing")
           \/ FinishedSizeBegin(t) \/ FinishedSizeEnd(t) \/ FinishedSizeReturn(t)
<1> USE DEF TypeOK
<1>1. CASE \E u \in Clients :
              FinishedSizeBegin(u) \/ FinishedSizeEnd(u) \/ FinishedSizeReturn(u)
    BY <1>1 DEF FinishedSizeBegin, FinishedSizeEnd, FinishedSizeReturn
<1>2. CASE UNCHANGED vars
    BY <1>2 DEF vars
<1>3. CASE \E p \in Pids : Exit(p) \/ Fire(p) \/ Callback(p)
    BY <1>3 DEF Exit, Fire, Callback, CallbackCheck, CallbackTimeout, CallbackFinish
<1>4. CASE \E u \in Clients : Add(u) \/ IsAllFinished(u) \/ WaitForAllBegin(u)
                              \/ WaitForAllReturn(u) \/ IterateBegin(u) \/ IterateEnd(u)
    BY <1>4 DEF Add, IsAllFinished, WaitForAllBegin, WaitForAllReturn, IterateBegin, IterateEnd
<1>5. CASE \E u \in Clients : DeleteEnd(u) \/ DestroyBegin(u) \/ DestroyEnd(u)
    BY <1>5 DEF DeleteEnd, DestroyBegin, DestroyEnd
<1>6. CASE \E u \in Clients, p \in Pids : Delete(u, p) \/ DeleteCancel(u, p)
                              \/ DestroyCancel(u, p) \/ DestroyUnregister(u, p)
    BY <1>6 DEF Delete, DeleteCancel, DestroyCancel, DestroyUnregister
<1> QED
    BY <1>1, <1>2, <1>3, <1>4, <1>5, <1>6 DEF Next, Client, Gone

LEMMA SizeStep == ~AddDuringCalls /\ TypeOK /\ TypeOK' /\ SizeInv /\ [Next]_vars => SizeInv'
<1> SUFFICES ASSUME ~AddDuringCalls, TypeOK, TypeOK', SizeInv, [Next]_vars, NEW t \in Clients
             PROVE  /\ size'[t] <= Cardinality(Pids)
                    /\ pc'[t] = "sizing" => Cardinality(members') <= size'[t]
    BY DEF SizeInv
<1>1. /\ Cardinality(members) \in Nat /\ Cardinality(members') \in Nat
      /\ Cardinality(members) <= Cardinality(Pids) /\ Cardinality(Pids) \in Nat
      /\ size[t] \in Nat /\ size'[t] \in Nat
    BY SizesAreNat DEF TypeOK
<1>2. CASE size'[t] = size[t] /\ (pc'[t] = "sizing" => pc[t] = "sizing")
    <2>1. pc[t] = "sizing" => Cardinality(members') <= size[t]
        BY <1>1, NobodyJoins DEF SizeInv
    <2> QED
        BY <1>2, <2>1 DEF SizeInv
<1>3. CASE FinishedSizeBegin(t)
    BY <1>1, <1>3 DEF FinishedSizeBegin, process, TypeOK
<1>4. CASE FinishedSizeEnd(t)
    <2>1. GetWaitingSize \in Nat /\ GetWaitingSize <= Cardinality(members)
        <3>1. IsFiniteSet(members) /\ {p \in members : ~finished[p]} \subseteq members
            BY SizesAreNat DEF TypeOK
        <3> QED
            BY <3>1, FS_Subset, FS_CardinalityType DEF GetWaitingSize
    <2>2. Cardinality(members) <= size[t] /\ size[t] <= Cardinality(Pids)
        BY <1>4 DEF SizeInv, FinishedSizeEnd
    <2>3. size[t] - GetWaitingSize \in 0 .. SizeModulus - 1
        BY <1>1, <2>1, <2>2, SizeAssumption
    <2>4. (size[t] - GetWaitingSize) % SizeModulus = size[t] - GetWaitingSize
        BY <2>3, SizeAssumption
    <2>5. size'[t] = size[t] - GetWaitingSize /\ pc'[t] = "sized"
        BY <1>4, <2>4 DEF FinishedSizeEnd, TypeOK
    <2> QED
        BY <1>1, <2>1, <2>2, <2>5
<1>5. CASE FinishedSizeReturn(t)
    BY <1>1, <1>5 DEF FinishedSizeReturn, TypeOK
<1> QED
    BY <1>2, <1>3, <1>4, <1>5, SizesWritten

(* If nobody calls Add between the two halves of GetFinishedSize, their    *)
(* difference does not wrap around (Size is unsigned).                     *)
THEOREM FinishedSizesFit == ~AddDuringCalls => (Spec => []FinishedSizeInRange)
<1> SUFFICES ASSUME ~AddDuringCalls PROVE Spec => []FinishedSizeInRange
    OBVIOUS
<1>1. Init => SizeInv
    <2>1. Cardinality(Pids) \in Nat
        BY SizesAreNat
    <2> QED
        BY <2>1 DEF Init, SizeInv
<1>2. TypeOK /\ TypeOK' /\ SizeInv /\ [Next]_vars => SizeInv'
    BY SizeStep
<1>3. SizeInv => FinishedSizeInRange
    BY DEF SizeInv, FinishedSizeInRange
<1> QED
    BY <1>1, <1>2, <1>3, TypeCorrect, PTL DEF Spec
===============================================================================
