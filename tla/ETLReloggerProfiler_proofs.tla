---------------------- MODULE ETLReloggerProfiler_proofs ----------------------
(***************************************************************************)
(* Proofs about ETLReloggerProfiler, for any number of control events and  *)
(* every set of failures.                                                  *)
(***************************************************************************)
EXTENDS ETLReloggerProfiler, TLAPS

(* m_lock is held by the handler that waits for the worker, and by no one  *)
(* else from one step to the next.                                         *)
LockIsOwned ==
    /\ \A t \in Handlers : pc[t] = "joining" => lock = t
    /\ lock # NoOne => lock \in Handlers /\ pc[lock] = "joining" /\ profiling

(* How far the worker is, by where the main thread is and m_profiling.     *)
WorkerIsKnown ==
    /\ pc[Main] \in {"installing", "starting"} => worker = "off"
    /\ pc[Main] = "polling" => worker # "off"
    /\ worker = "off" => ~profiling
    /\ worker \notin {"off", "exited"} => profiling
    /\ pc[Main] \in {"destroying", "gone"} => ~profiling

(* Who has called has asked for something, all for the same.               *)
GoalsAgree ==
    /\ \A t \in Handlers : pc[t] = "idle" <=> goal[t] = "none"
    /\ \A t, u \in Handlers : goal[t] = "none" \/ goal[u] = "none" \/ goal[t] = goal[u]

(* What m_state says, of the worker's error and of the handlers.           *)
StateIsTrue ==
    /\ state = "Error" => errorSet
    /\ state = "Stopped" => \E t \in Handlers : goal[t] = "Stopped"
    /\ state = "Aborted" => \E t \in Handlers : goal[t] = "Aborted"
    /\ errorSet => worker = "exited" /\ state \in {"Error", "Aborted"}
    /\ pc[Main] = "polling" /\ ~profiling => state \in Final

(* A prompt worker has passed its only acquisition of m_lock.              *)
WorkerIsPast ==
    WorkerIsPrompt => \A t \in Handlers : pc[t] # "idle" => worker \notin {"off", "locking"}

(* DoProfile has an answer when it has left the loop.                      *)
AnswerIsLast == result # "none" => pc[Main] \in {"destroying", "gone"}

IInv ==
    /\ TypeOK
    /\ LockIsOwned
    /\ WorkerIsKnown
    /\ GoalsAgree
    /\ StateIsTrue
    /\ WorkerIsPast
    /\ AnswerIsLast
    /\ RawIsTemporary

(* The steps of the program, one by one.                                   *)
LEMMA Steps ==
    ASSUME [Next]_vars
    PROVE  \/ ProfileSetUp \/ ProfileRelog \/ ProfileMerge
           \/ MainInstalls \/ MainStart \/ MainPolls \/ MainDestroys
           \/ \E t \in Handlers : HandlerStarts(t) \/ Call(t) \/ CallReturns(t) \/ ProcessExits(t)
           \/ UNCHANGED vars
BY DEF Next, Profile, MainThread, Handler

(* The invariant holds at the start.                                       *)
LEMMA Initially == Init => IInv
<1> SUFFICES ASSUME Init PROVE IInv
    OBVIOUS
<1> USE RelogAssumption
<1>1. TypeOK
    BY DEF Init, TypeOK, Callers
<1>2. LockIsOwned /\ WorkerIsKnown
    BY DEF Init, LockIsOwned, WorkerIsKnown, Callers
<1>3. GoalsAgree /\ WorkerIsPast
    BY DEF Init, GoalsAgree, WorkerIsPast, Callers
<1>4. StateIsTrue /\ AnswerIsLast /\ RawIsTemporary
    BY DEF Init, StateIsTrue, AnswerIsLast, RawIsTemporary, Callers
<1> QED
    BY <1>1, <1>2, <1>3, <1>4 DEF IInv

(* Types; that IsFinished answers with a final state needs the invariant.  *)
LEMMA TypeStep == IInv /\ [Next]_vars => TypeOK'
<1> SUFFICES ASSUME IInv, [Next]_vars PROVE TypeOK'
    OBVIOUS
<1> USE RelogAssumption DEF IInv, TypeOK, Goes, Callers, Final
<1>1. CASE ProfileSetUp
    BY <1>1 DEF ProfileSetUp, WorkerOnly, Fails
<1>2. CASE ProfileRelog
    BY <1>2 DEF ProfileRelog, WorkerOnly, Fails
<1>3. CASE ProfileMerge
    BY <1>3 DEF ProfileMerge, WorkerOnly, Fails
<1>4. CASE MainInstalls
    BY <1>4 DEF MainInstalls, members
<1>5. CASE MainStart
    BY <1>5 DEF MainStart
<1>6. CASE MainPolls
    BY <1>6 DEF MainPolls, StateIsTrue, Final
<1>7. CASE MainDestroys
    BY <1>7 DEF MainDestroys, members
<1>8. ASSUME NEW t \in Handlers, HandlerStarts(t) PROVE TypeOK'
    BY <1>8 DEF HandlerStarts, members
<1>9. ASSUME NEW t \in Handlers, Call(t) PROVE TypeOK'
    BY <1>9 DEF Call, Outcome, GoalsAgree, Final
<1>10. ASSUME NEW t \in Handlers, CallReturns(t) PROVE TypeOK'
    BY <1>10 DEF CallReturns, Outcome, GoalsAgree, Final
<1>11. ASSUME NEW t \in Handlers, ProcessExits(t) PROVE TypeOK'
    BY <1>11 DEF ProcessExits, members
<1>12. CASE UNCHANGED vars
    BY <1>12 DEF vars, members
<1> QED
    BY <1>1, <1>2, <1>3, <1>4, <1>5, <1>6, <1>7, <1>8, <1>9, <1>10, <1>11, <1>12, Steps

(* Only Call takes m_lock, only when it is free, and keeps it to wait.     *)
LEMMA LockStep == IInv /\ [Next]_vars => LockIsOwned'
<1> SUFFICES ASSUME IInv, [Next]_vars PROVE LockIsOwned'
    OBVIOUS
<1> USE RelogAssumption DEF IInv, TypeOK, LockIsOwned, Goes, Callers, LockFree
<1>1. CASE Profile
    BY <1>1 DEF Profile, ProfileSetUp, ProfileRelog, ProfileMerge, WorkerOnly
<1>2. CASE MainInstalls \/ MainDestroys
    BY <1>2 DEF MainInstalls, MainDestroys, members
<1>3. CASE MainStart
    BY <1>3 DEF MainStart
<1>4. CASE MainPolls
    BY <1>4 DEF MainPolls
<1>5. ASSUME NEW t \in Handlers, HandlerStarts(t) PROVE LockIsOwned'
    BY <1>5 DEF HandlerStarts, members
<1>6. ASSUME NEW t \in Handlers, Call(t) PROVE LockIsOwned'
    BY <1>6 DEF Call
<1>7. ASSUME NEW t \in Handlers, CallReturns(t) PROVE LockIsOwned'
    BY <1>7 DEF CallReturns
<1>8. ASSUME NEW t \in Handlers, ProcessExits(t) PROVE LockIsOwned'
    BY <1>8 DEF ProcessExits, members
<1>9. CASE UNCHANGED vars
    BY <1>9 DEF vars, members
<1> QED
    BY <1>1, <1>2, <1>3, <1>4, <1>5, <1>6, <1>7, <1>8, <1>9, Steps DEF Profile

(* A worker that runs is being profiled with, until it has exited.         *)
LEMMA WorkerStep == IInv /\ [Next]_vars => WorkerIsKnown'
<1> SUFFICES ASSUME IInv, [Next]_vars PROVE WorkerIsKnown'
    OBVIOUS
<1> USE RelogAssumption DEF IInv, TypeOK, WorkerIsKnown, Goes, Callers
<1>1. CASE Profile
    BY <1>1 DEF Profile, ProfileSetUp, ProfileRelog, ProfileMerge, WorkerOnly
<1>2. CASE MainInstalls \/ MainDestroys
    BY <1>2 DEF MainInstalls, MainDestroys, members
<1>3. CASE MainStart
    BY <1>3 DEF MainStart
<1>4. CASE MainPolls
    BY <1>4 DEF MainPolls
<1>5. ASSUME NEW t \in Handlers, HandlerStarts(t) PROVE WorkerIsKnown'
    BY <1>5 DEF HandlerStarts, members
<1>6. ASSUME NEW t \in Handlers, Call(t) PROVE WorkerIsKnown'
    BY <1>6 DEF Call
<1>7. ASSUME NEW t \in Handlers, CallReturns(t) PROVE WorkerIsKnown'
    BY <1>7 DEF CallReturns
<1>8. ASSUME NEW t \in Handlers, ProcessExits(t) PROVE WorkerIsKnown'
    BY <1>8 DEF ProcessExits, members
<1>9. CASE UNCHANGED vars
    BY <1>9 DEF vars, members
<1> QED
    BY <1>1, <1>2, <1>3, <1>4, <1>5, <1>6, <1>7, <1>8, <1>9, Steps DEF Profile

(* Only an idle handler gets something to ask for.                         *)
LEMMA GoalStep == IInv /\ [Next]_vars => GoalsAgree'
<1> SUFFICES ASSUME IInv, [Next]_vars PROVE GoalsAgree'
    OBVIOUS
<1> USE RelogAssumption DEF IInv, TypeOK, GoalsAgree, Goes, Callers
<1>1. CASE Profile
    BY <1>1 DEF Profile, ProfileSetUp, ProfileRelog, ProfileMerge, WorkerOnly
<1>2. CASE MainInstalls \/ MainDestroys
    BY <1>2 DEF MainInstalls, MainDestroys, members
<1>3. CASE MainStart
    BY <1>3 DEF MainStart
<1>4. CASE MainPolls
    BY <1>4 DEF MainPolls
<1>5. ASSUME NEW t \in Handlers, HandlerStarts(t) PROVE GoalsAgree'
    <2>1. PICK k \in Kinds : /\ \A u \in Handlers : goal[u] \in {"none", k}
                             /\ goal' = [goal EXCEPT ![t] = k]
        BY <1>5 DEF HandlerStarts
    <2>2. k # "none" /\ pc' = [pc EXCEPT ![t] = "calling"]
        BY <1>5 DEF HandlerStarts
    <2> QED
        BY <2>1, <2>2
<1>6. ASSUME NEW t \in Handlers, Call(t) PROVE GoalsAgree'
    BY <1>6 DEF Call
<1>7. ASSUME NEW t \in Handlers, CallReturns(t) PROVE GoalsAgree'
    BY <1>7 DEF CallReturns
<1>8. ASSUME NEW t \in Handlers, ProcessExits(t) PROVE GoalsAgree'
    BY <1>8 DEF ProcessExits, members
<1>9. CASE UNCHANGED vars
    BY <1>9 DEF vars, members
<1> QED
    BY <1>1, <1>2, <1>3, <1>4, <1>5, <1>6, <1>7, <1>8, <1>9, Steps DEF Profile

(* What Stop and Abort leave in m_state hides an error only behind Abort,  *)
(* and an error is not made up.                                            *)
LEMMA OutcomeIsTrue ==
    ASSUME IInv, NEW t \in Handlers, pc[t] # "idle", Outcome(goal[t])
    PROVE  /\ state' = "Error" => state = "Error"
           /\ state' = "Stopped" => goal[t] = "Stopped"
           /\ state' = "Aborted" => goal[t] = "Aborted"
           /\ errorSet => state' \in {"Error", "Aborted"}
           /\ state' \in Final
<1> USE DEF IInv, TypeOK, GoalsAgree, StateIsTrue, Final
<1>1. goal[t] \in {"Stopped", "Aborted"}
    OBVIOUS
<1>2. goal[t] = "Stopped" => state # "Aborted"
    OBVIOUS
<1> QED
    BY <1>1, <1>2 DEF Outcome

LEMMA StateStep == IInv /\ [Next]_vars => StateIsTrue'
<1> SUFFICES ASSUME IInv, [Next]_vars PROVE StateIsTrue'
    OBVIOUS
<1> USE RelogAssumption DEF IInv, TypeOK, StateIsTrue, Goes, Callers, Final
<1>1. CASE Profile
    BY <1>1 DEF Profile, ProfileSetUp, ProfileRelog, ProfileMerge, WorkerOnly, Fails, WorkerIsKnown
<1>2. CASE MainInstalls \/ MainDestroys
    BY <1>2 DEF MainInstalls, MainDestroys, members
<1>3. CASE MainStart
    BY <1>3 DEF MainStart, WorkerIsKnown
<1>4. CASE MainPolls
    BY <1>4 DEF MainPolls
<1>5. ASSUME NEW t \in Handlers, HandlerStarts(t) PROVE StateIsTrue'
    <2>1. goal[t] = "none" /\ UNCHANGED members /\ UNCHANGED <<worker>> /\ pc'[Main] = pc[Main]
        BY <1>5 DEF HandlerStarts, GoalsAgree
    <2>2. \A u \in Handlers : goal[u] # "none" => goal'[u] = goal[u]
        BY <1>5, <2>1 DEF HandlerStarts
    <2> QED
        BY <2>1, <2>2 DEF members
<1>6. ASSUME NEW t \in Handlers, Call(t) PROVE StateIsTrue'
    <2>1. pc[t] # "idle" /\ UNCHANGED <<errorSet, profiling, worker, goal>> /\ pc'[Main] = pc[Main]
        BY <1>6 DEF Call
    <2>2. CASE profiling
        BY <1>6, <2>1, <2>2 DEF Call
    <2>3. CASE ~profiling
        BY <1>6, <2>1, <2>3, OutcomeIsTrue DEF Call
    <2> QED
        BY <2>2, <2>3
<1>7. ASSUME NEW t \in Handlers, CallReturns(t) PROVE StateIsTrue'
    <2>1. /\ pc[t] # "idle" /\ UNCHANGED <<errorSet, worker, goal>> /\ pc'[Main] = pc[Main]
          /\ Outcome(goal[t])
        BY <1>7 DEF CallReturns
    <2> QED
        BY <2>1, OutcomeIsTrue
<1>8. ASSUME NEW t \in Handlers, ProcessExits(t) PROVE StateIsTrue'
    BY <1>8 DEF ProcessExits, members
<1>9. CASE UNCHANGED vars
    BY <1>9 DEF vars, members
<1> QED
    BY <1>1, <1>2, <1>3, <1>4, <1>5, <1>6, <1>7, <1>8, <1>9, Steps DEF Profile

(* The smaller parts of the invariant.                                     *)
LEMMA RestStep == IInv /\ [Next]_vars => WorkerIsPast' /\ AnswerIsLast' /\ RawIsTemporary'
<1> DEFINE Rest == WorkerIsPast /\ AnswerIsLast /\ RawIsTemporary
<1> SUFFICES ASSUME IInv, [Next]_vars PROVE Rest'
    OBVIOUS
<1> USE RelogAssumption DEF IInv, TypeOK, WorkerIsPast, AnswerIsLast, RawIsTemporary, Goes, Callers
<1>1. CASE Profile
    BY <1>1 DEF Profile, ProfileSetUp, ProfileRelog, ProfileMerge, WorkerOnly, Fails
<1>2. CASE MainInstalls \/ MainDestroys
    BY <1>2 DEF MainInstalls, MainDestroys, members
<1>3. CASE MainStart
    BY <1>3 DEF MainStart, WorkerIsKnown
<1>4. CASE MainPolls
    BY <1>4 DEF MainPolls
<1>5. ASSUME NEW t \in Handlers, HandlerStarts(t) PROVE Rest'
    BY <1>5 DEF HandlerStarts, members
<1>6. ASSUME NEW t \in Handlers, Call(t) PROVE Rest'
    BY <1>6 DEF Call
<1>7. ASSUME NEW t \in Handlers, CallReturns(t) PROVE Rest'
    BY <1>7 DEF CallReturns
<1>8. ASSUME NEW t \in Handlers, ProcessExits(t) PROVE Rest'
    BY <1>8 DEF ProcessExits, members
<1>9. CASE UNCHANGED vars
    BY <1>9 DEF vars, members
<1> QED
    BY <1>1, <1>2, <1>3, <1>4, <1>5, <1>6, <1>7, <1>8, <1>9, Steps DEF Profile

(* The invariant is inductive.                                             *)
THEOREM Inductive == Spec => []IInv
<1>1. IInv /\ [Next]_vars => IInv'
    BY TypeStep, LockStep, WorkerStep, GoalStep, StateStep, RestStep DEF IInv
<1> QED
    BY <1>1, Initially, PTL DEF Spec

(* Every variable keeps its type, and IsFinished, when it says true, names *)
(* one of the four final states that DoProfile's switch knows.             *)
THEOREM TypeCorrect == Spec => []TypeOK
<1>1. IInv => TypeOK
    BY DEF IInv
<1> QED
    BY <1>1, Inductive, PTL

(* Stop and Abort wait under m_lock.  When events come only after the      *)
(* worker's first critical section, it never needs m_lock meanwhile.       *)
THEOREM NoDeadlock == ASSUME WorkerIsPrompt PROVE Spec => []WorkerCanFinish
<1>1. IInv => WorkerCanFinish
    BY DEF IInv, LockIsOwned, WorkerIsPast, WorkerCanFinish
<1> QED
    BY <1>1, Inductive, PTL

(* The worker's error survives Start, Stop and the poll in m_state, and    *)
(* gives way only to Abort.                                                *)
THEOREM ErrorsAreKept == Spec => []ErrorIsKept
<1>1. IInv => ErrorIsKept
    BY DEF IInv, StateIsTrue, ErrorIsKept
<1> QED
    BY <1>1, Inductive, PTL

(* The destructor finds the worker over, although it may wait for nobody.  *)
THEOREM NobodyIsOrphaned == Spec => []NoOrphan
<1>1. IInv => NoOrphan
    BY DEF IInv, TypeOK, WorkerIsKnown, NoOrphan
<1> QED
    BY <1>1, Inductive, PTL

(* rawETLDeleter leaves no raw trace without --debug or an error.          *)
THEOREM RawTraceIsTemporary == Spec => []RawIsTemporary
<1>1. IInv => RawIsTemporary
    BY DEF IInv
<1> QED
    BY <1>1, Inductive, PTL

-------------------------------------------------------------------------------
(* Refinement *)

(* The abstract state of the refinement mapping.                           *)
work  == CASE worker = "off" -> "none"
           [] worker = "exited" /\ errorSet -> "failed"
           [] worker = "exited" /\ ~errorSet -> "done"
           [] OTHER -> "running"
asked == {goal[t] : t \in Handlers} \ {"none"}

LifecycleStep == [Lifecycle!Next]_(Lifecycle!lifecycle)

(* The worker goes on or ends, and nothing else of the contract changes.   *)
LEMMA ProfileImplements == ASSUME IInv, Profile PROVE LifecycleStep
<1> USE DEF IInv, TypeOK, StateIsTrue, WorkerOnly, Fails
<1>1. UNCHANGED <<asked, result>> /\ work = "running"
    BY DEF Profile, ProfileSetUp, ProfileRelog, ProfileMerge, work, asked
<1>2. worker' \in {"relogging", "merging", "exited"} /\ errorSet' \in BOOLEAN
    BY DEF Profile, ProfileSetUp, ProfileRelog, ProfileMerge
<1>3. work' # "running" => \E e \in Lifecycle!Ends : Lifecycle!End(e)
    BY <1>1, <1>2 DEF work, asked, Lifecycle!End, Lifecycle!Ends
<1>4. work' = "running" => UNCHANGED Lifecycle!lifecycle
    BY <1>1 DEF work, asked, Lifecycle!lifecycle
<1> QED
    BY <1>3, <1>4 DEF Lifecycle!Next, LifecycleStep

(* Start begins the work, or does nothing.                                 *)
LEMMA StartImplements == ASSUME IInv, MainStart PROVE LifecycleStep
<1>1. work = "none" /\ UNCHANGED <<asked, result>> /\ work' \in {"none", "running"}
    BY DEF IInv, WorkerIsKnown, MainStart, work, asked
<1> QED
    BY <1>1 DEF work, asked, LifecycleStep, Lifecycle!Next, Lifecycle!Begin, Lifecycle!lifecycle

(* The poll answers after the end, and truthfully.                         *)
LEMMA PollImplements == ASSUME IInv, MainPolls PROVE LifecycleStep
<1> USE DEF IInv, TypeOK, Goes, Callers
<1>1. worker = "exited" /\ result = "none" /\ UNCHANGED <<work, asked>> /\ result' = state'
    BY DEF MainPolls, WorkerIsKnown, AnswerIsLast, work, asked
<1>2. work = IF errorSet THEN "failed" ELSE "done"
    BY <1>1 DEF work
<1>3. state' \in Final /\ (state' = state \/ (state' = "Finished" /\ state \notin Final))
    BY DEF MainPolls, StateIsTrue, Final
<1>4. /\ errorSet => state' \in {"Error", "Aborted"}
      /\ state' = "Error" => errorSet
      /\ state' \in {"Stopped", "Aborted"} => state' \in asked
    BY <1>3 DEF StateIsTrue, Final, asked
<1>5. Lifecycle!Truthful(state')
    BY <1>2, <1>3, <1>4 DEF Lifecycle!Truthful, work, asked, Final
<1>6. Lifecycle!Answer(state')
    BY <1>1, <1>2, <1>5 DEF Lifecycle!Answer, Lifecycle!Ends, work, asked
<1>7. state' \in Lifecycle!Answers
    BY <1>3 DEF Lifecycle!Answers, Final
<1> QED
    BY <1>6, <1>7 DEF LifecycleStep, Lifecycle!Next

(* An event asks for what its handler will ask for.                        *)
LEMMA EventImplements ==
    ASSUME IInv, NEW t \in Handlers, HandlerStarts(t)
    PROVE  LifecycleStep
<1>1. PICK k \in Kinds : goal' = [goal EXCEPT ![t] = k]
    BY DEF HandlerStarts
<1>2. k \in {"Stopped", "Aborted"} /\ goal[t] = "none"
    BY RelogAssumption DEF IInv, GoalsAgree, HandlerStarts
<1>3. asked' = asked \cup {k}
    <2>1. \A u \in Handlers : goal'[u] = IF u = t THEN k ELSE goal[u]
        BY <1>1 DEF IInv, TypeOK
    <2> QED
        BY <1>2, <2>1 DEF asked
<1>4. UNCHANGED <<work, result>>
    BY DEF HandlerStarts, members, work
<1>5. Lifecycle!Ask(k)
    BY <1>2, <1>3, <1>4 DEF Lifecycle!Ask, work, asked
<1> QED
    BY <1>2, <1>5 DEF LifecycleStep, Lifecycle!Next

(* Every step is a step of the contract, or none.                          *)
LEMMA StepImplements == IInv /\ [Next]_vars => LifecycleStep
<1> SUFFICES ASSUME IInv, [Next]_vars PROVE LifecycleStep
    OBVIOUS
<1>1. CASE UNCHANGED <<worker, errorSet, goal, result>>
    BY <1>1 DEF LifecycleStep, Lifecycle!lifecycle
<1>2. CASE Profile
    BY <1>2, ProfileImplements
<1>3. CASE MainStart
    BY <1>3, StartImplements
<1>4. CASE MainPolls
    BY <1>4, PollImplements
<1>5. ASSUME NEW t \in Handlers, HandlerStarts(t) PROVE LifecycleStep
    BY <1>5, EventImplements
<1>6. CASE MainInstalls \/ MainDestroys \/ UNCHANGED vars
    BY <1>1, <1>6 DEF MainInstalls, MainDestroys, vars, members
<1>7. ASSUME NEW t \in Handlers, Call(t) \/ CallReturns(t) \/ ProcessExits(t) PROVE LifecycleStep
    BY <1>1, <1>7 DEF Call, CallReturns, ProcessExits, members
<1> QED
    BY <1>2, <1>3, <1>4, <1>5, <1>6, <1>7, Steps DEF Profile

(* The profiler of --emulate keeps the contract of IProfiler: the answer   *)
(* comes once, after the end of the work, and is true to it.               *)
THEOREM Implements == Spec => ImplementsLifecycle
<1>1. Init => Lifecycle!Init
    BY DEF Init, Lifecycle!Init
<1>2. IInv /\ [Next]_vars => [Lifecycle!Next]_(Lifecycle!lifecycle)
    BY StepImplements DEF LifecycleStep
<1> QED
    BY <1>1, <1>2, Inductive, PTL DEF Spec, ImplementsLifecycle, Lifecycle!Spec
===============================================================================
