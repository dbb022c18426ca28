-------------------------- MODULE ETWProfiler_proofs --------------------------
(***************************************************************************)
(* For any number of control handlers and whatever fails: the worker ends  *)
(* with a final state, and DoProfile is told a final state.  If the worker *)
(* is past the part of Profile that runs under m_lock before anybody calls *)
(* the profiler again, nobody deadlocks with it, and the session is        *)
(* stopped before anybody waits for the worker, and in the end.  And if    *)
(* there is at most one console control event, DoProfile hears the truth   *)
(* about the trace and the error: the contract of IProfiler.               *)
(***************************************************************************)
EXTENDS ETWProfiler, TLAPS

(* Once it has announced itself, the worker finds a state that says so.    *)
Announced == {"relogging", "cleaning", "checking", "demoting", "deciding",
              "merging", "exited"}
Decided   == {"cleaning", "deciding", "merging", "exited"}

DecidedInv ==
    /\ worker \in Announced => state # "Unstarted"
    /\ worker \in Decided => state \in Final

(* Only before Start, and in the destructor, can there be no thread.       *)
ThreadInv ==
    /\ thread = "none" => closing \/ pc[Main] \in {"installing", "starting"}
    /\ pc[Main] \in {"installing", "starting"} => worker = "off"

(* A raw trace is on its way to the merge, or is left on purpose.          *)
RawInv == raw => \/ worker \in {"checking", "demoting", "deciding", "merging"}
                 \/ DebugOption \/ errorSet

IndInv == TypeOK /\ DecidedInv /\ ThreadInv /\ RawInv

-------------------------------------------------------------------------------

(* Nothing has begun, and nobody knows of a result.                        *)
LEMMA InitInv == Init => IndInv
  BY DEF Init, IndInv, TypeOK, DecidedInv, ThreadInv, RawInv, Announced, Decided, Callers,
         States, Final, CallerStates, WorkerStates

(* Whether or not ControlTrace succeeds.                                   *)
LEMMA StoppingKeepsTypes ==
  ASSUME TypeOK, SessionStop
  PROVE  started' \in BOOLEAN /\ session' \in {"none", "running", "stopped"}
<1>1. CASE UNCHANGED <<started, session>>
  <2>1. started' = started /\ session' = session
    BY <1>1
  <2> QED BY <2>1 DEF TypeOK
<1>2. CASE started' = FALSE /\ session' = "stopped"
  BY <1>2
<1> QED BY <1>1, <1>2 DEF SessionStop

(* One step per action: who writes m_state, and how far the worker then is. *)
LEMMA StepInv == IndInv /\ [Next]_vars => IndInv'
<1> SUFFICES ASSUME IndInv, [Next]_vars PROVE IndInv'
  OBVIOUS
<1> USE ThreadsAssumption, OptionsAssumption
        DEF IndInv, TypeOK, DecidedInv, ThreadInv, RawInv, Announced, Decided, Callers,
            States, Final, CallerStates, WorkerStates
<1>1. CASE TargetsExit
  BY <1>1 DEF TargetsExit, env
<1>2. CASE StoppedExternally
  BY <1>2 DEF StoppedExternally, env
<1>3. CASE ProfileSetUp
  BY <1>3 DEF ProfileSetUp, SessionStart, env
<1>4. CASE ProfileSetUpFails
  <2>1. started' \in BOOLEAN /\ session' \in {"none", "running", "stopped"}
    BY <1>4 DEF ProfileSetUpFails, SessionStart
  <2> QED
    BY <1>4, <2>1 DEF ProfileSetUpFails, SessionStart, SetErrorFromWorkerThread
<1>5. CASE ProfileAnnounce
  BY <1>5 DEF ProfileAnnounce, env
<1>6. CASE ProfileRelog
  BY <1>6 DEF ProfileRelog, env
<1>7. CASE ProfileRelogFails
  BY <1>7 DEF ProfileRelogFails, SetErrorFromWorkerThread, env
<1>8. CASE ProfileCleanUp
  BY <1>8, StoppingKeepsTypes DEF ProfileCleanUp, env
<1>9. CASE ProfileCheck
  BY <1>9 DEF ProfileCheck, env
<1>10. CASE ProfileDemote
  BY <1>10 DEF ProfileDemote, env
<1>11. CASE ProfileDecide
  BY <1>11 DEF ProfileDecide, DeleteRaw, env
<1>12. CASE ProfileMerge
  BY <1>12 DEF ProfileMerge, DeleteRaw, env
<1>13. CASE ProfileMergeFails
  BY <1>13 DEF ProfileMergeFails, SetErrorFromWorkerThread, DeleteRaw, env
<1>14. CASE MainInstall
  BY <1>14 DEF MainInstall, Goes, env
<1>15. CASE MainStart
  BY <1>15 DEF MainStart, Goes, env
<1>16. CASE MainStartFails
  BY <1>16 DEF MainStartFails, Goes, env
<1>17. CASE MainResume
  BY <1>17 DEF MainResume, Goes, Prompt, env
<1>18. CASE IsFinishedAsks(Main)
  BY <1>18 DEF IsFinishedAsks, Goes, env
<1>19. CASE IsFinishedRechecks(Main)
  BY <1>19 DEF IsFinishedRechecks, Goes, env
<1>20. CASE MainJoined
  <2>1. CASE closing
    <3>1. SessionStop /\ UNCHANGED <<closing, result>> /\ thread' = "none"
      BY <1>20, <2>1 DEF MainJoined
    <3> QED
      BY <1>20, <2>1, <3>1, StoppingKeepsTypes DEF MainJoined, Goes
  <2>2. CASE ~closing
    <3>1. /\ UNCHANGED <<thread, started, session>>
          /\ closing' = TRUE
          /\ result' = IF goal[Main] = "Aborted" THEN result ELSE state
      BY <1>20, <2>2 DEF MainJoined
    <3>2. worker = "exited"
      BY <1>20, <2>2 DEF MainJoined, Joined
    <3> QED
      BY <1>20, <2>2, <3>1, <3>2 DEF MainJoined, Goes
  <2> QED
    BY <2>1, <2>2
<1>21. ASSUME NEW t \in Callers, Call(t) PROVE IndInv'
  BY <1>21 DEF Call, Goes, env
<1>22. ASSUME NEW t \in Callers, StopSession(t) PROVE IndInv'
  BY <1>22, StoppingKeepsTypes DEF StopSession, Goes, env
<1>23. ASSUME NEW t \in Handlers, HandlerStarts(t) PROVE IndInv'
  BY <1>23 DEF HandlerStarts, Goes, Prompt, env
<1>24. ASSUME NEW t \in Handlers, HandlerReturns(t) PROVE IndInv'
  BY <1>24 DEF HandlerReturns, Goes, Joined, env
<1>25. ASSUME NEW t \in Handlers, ProcessExits(t) PROVE IndInv'
  BY <1>25 DEF ProcessExits, Goes, env
<1>26. CASE UNCHANGED vars
  BY <1>26 DEF vars
<1> QED
  BY <1>1, <1>2, <1>3, <1>4, <1>5, <1>6, <1>7, <1>8, <1>9, <1>10,
       <1>11, <1>12, <1>13, <1>14, <1>15, <1>16, <1>17, <1>18,
       <1>19, <1>20, <1>21, <1>22, <1>23, <1>24, <1>25, <1>26
  DEF Next, Environment, Profile, MainThread, Handler, Callers

(* IndInv is an invariant.                                                 *)
LEMMA Invariant == Spec => []IndInv
  BY InitInv, StepInv, PTL DEF Spec

(* Types; the result that DoProfile switches on is a final state           *)
(* (IsFinished's assertion).                                               *)
THEOREM TypeCorrect == Spec => []TypeOK
<1>1. IndInv => TypeOK
  BY DEF IndInv
<1> QED BY <1>1, Invariant, PTL

(* Profile never ends undecided, which its stateChecker asserts.           *)
THEOREM WorkerIsDecided == Spec => []WorkerEndsDecided
<1>1. IndInv => WorkerEndsDecided
  BY DEF IndInv, DecidedInv, Decided, WorkerEndsDecided
<1> QED BY <1>1, Invariant, PTL

(* The raw trace is deleted on every way out of Profile, but for --debug   *)
(* and after an error.                                                     *)
THEOREM RawTraceIsTemporary == Spec => []RawIsTemporary
<1>1. IndInv => RawIsTemporary
  BY DEF IndInv, RawInv, RawIsTemporary
<1> QED BY <1>1, Invariant, PTL

-------------------------------------------------------------------------------

(* Those who are past the start, and therefore find the worker past its    *)
(* own: or there is no worker, because it could not be created.            *)
Early == {"off", "locking", "announcing"}
Past  == {"polling", "rechecking", "finishing", "calling", "stopping", "joining",
          "destroying"}

PromptInv ==
    /\ pc[Main] \in {"installing", "starting"} => worker = "off" /\ thread = "none"
    /\ closing => pc[Main] \notin {"installing", "starting", "resuming"}
    /\ \A t \in Callers : pc[t] \in Past =>
          worker \notin Early \/ (closing /\ thread = "none")

(* The worker is off, and nobody is past the start.                        *)
LEMMA InitPrompt == Init => PromptInv
  BY ThreadsAssumption DEF Init, PromptInv, Past, Callers

(* The worker never goes back, so that each step need only look at those   *)
(* who start, resume or call.                                              *)
LEMMA StepPrompt ==
  ASSUME WorkerIsPrompt
  PROVE  IndInv /\ PromptInv /\ [Next]_vars => PromptInv'
<1> SUFFICES ASSUME IndInv, PromptInv, [Next]_vars PROVE PromptInv'
  OBVIOUS
<1> USE ThreadsAssumption
        DEF IndInv, TypeOK, ThreadInv, PromptInv, Callers, Early, Past
<1>1. CASE TargetsExit
  BY <1>1 DEF TargetsExit, env
<1>2. CASE StoppedExternally
  BY <1>2 DEF StoppedExternally, env
<1>3. CASE ProfileSetUp
  BY <1>3 DEF ProfileSetUp, SessionStart, env
<1>4. CASE ProfileSetUpFails
  BY <1>4 DEF ProfileSetUpFails, SessionStart, SetErrorFromWorkerThread, env
<1>5. CASE ProfileAnnounce
  BY <1>5 DEF ProfileAnnounce, env
<1>6. CASE ProfileRelog
  BY <1>6 DEF ProfileRelog, env
<1>7. CASE ProfileRelogFails
  BY <1>7 DEF ProfileRelogFails, SetErrorFromWorkerThread, env
<1>8. CASE ProfileCleanUp
  BY <1>8 DEF ProfileCleanUp, env
<1>9. CASE ProfileCheck
  BY <1>9 DEF ProfileCheck, env
<1>10. CASE ProfileDemote
  BY <1>10 DEF ProfileDemote, env
<1>11. CASE ProfileDecide
  BY <1>11 DEF ProfileDecide, DeleteRaw, env
<1>12. CASE ProfileMerge
  BY <1>12 DEF ProfileMerge, DeleteRaw, env
<1>13. CASE ProfileMergeFails
  BY <1>13 DEF ProfileMergeFails, SetErrorFromWorkerThread, DeleteRaw, env
<1>14. CASE MainInstall
  BY <1>14 DEF MainInstall, Goes, env
<1>15. CASE MainStart
  BY <1>15 DEF MainStart, Goes, env
<1>16. CASE MainStartFails
  BY <1>16 DEF MainStartFails, Goes, env
<1>17. CASE MainResume
  BY <1>17 DEF MainResume, Goes, Prompt, env
<1>18. CASE IsFinishedAsks(Main)
  BY <1>18 DEF IsFinishedAsks, Goes, env
<1>19. CASE IsFinishedRechecks(Main)
  BY <1>19 DEF IsFinishedRechecks, Goes, env
<1>20. CASE MainJoined
  BY <1>20 DEF MainJoined, Goes, Joined, env
<1>21. ASSUME NEW t \in Callers, Call(t) PROVE PromptInv'
  BY <1>21 DEF Call, Goes, env
<1>22. ASSUME NEW t \in Callers, StopSession(t) PROVE PromptInv'
  BY <1>22 DEF StopSession, Goes, env
<1>23. ASSUME NEW t \in Handlers, HandlerStarts(t) PROVE PromptInv'
  BY <1>23 DEF HandlerStarts, Goes, Prompt, env
<1>24. ASSUME NEW t \in Handlers, HandlerReturns(t) PROVE PromptInv'
  BY <1>24 DEF HandlerReturns, Goes, Joined, env
<1>25. ASSUME NEW t \in Handlers, ProcessExits(t) PROVE PromptInv'
  BY <1>25 DEF ProcessExits, Goes, env
<1>26. CASE UNCHANGED vars
  BY <1>26 DEF vars
<1> QED
  BY <1>1, <1>2, <1>3, <1>4, <1>5, <1>6, <1>7, <1>8, <1>9, <1>10,
       <1>11, <1>12, <1>13, <1>14, <1>15, <1>16, <1>17, <1>18,
       <1>19, <1>20, <1>21, <1>22, <1>23, <1>24, <1>25, <1>26
  DEF Next, Environment, Profile, MainThread, Handler, Callers

(* etwSessionDestroyer only runs when relogging fails.                     *)
LEMMA NothingToCleanUp ==
  ASSUME "relog" \notin Failures
  PROVE  Spec => [](worker # "cleaning")
<1>1. Init => worker # "cleaning"
  BY DEF Init
<1>2. worker # "cleaning" /\ [Next]_vars => (worker # "cleaning")'
  BY DEF Next, Environment, Profile, MainThread, Handler, vars, TargetsExit,
         StoppedExternally, ProfileSetUp, ProfileSetUpFails, ProfileAnnounce,
         ProfileRelog, ProfileRelogFails, ProfileCleanUp, ProfileCheck,
         ProfileDemote, ProfileDecide, ProfileMerge, ProfileMergeFails,
         MainInstall, MainStart, MainStartFails, MainResume, IsFinishedAsks,
         IsFinishedRechecks, MainJoined, Call, StopSession, HandlerStarts,
         HandlerReturns, ProcessExits
<1> QED BY <1>1, <1>2, PTL DEF Spec

(* Nobody waits, with m_lock, for a worker that needs m_lock: ETWProfiler  *)
(* does not deadlock if relogging does not fail and if the worker gets to  *)
(* relogging before anybody calls.                                         *)
THEOREM NoDeadlock ==
  WorkerIsPrompt /\ "relog" \notin Failures => (Spec => []WorkerCanFinish)
<1> SUFFICES ASSUME WorkerIsPrompt, "relog" \notin Failures
             PROVE  Spec => []WorkerCanFinish
  OBVIOUS
<1>1. PromptInv /\ worker # "cleaning" => WorkerCanFinish
  BY DEF PromptInv, WorkerCanFinish, Early, Past
<1> QED BY <1>1, Invariant, InitPrompt, StepPrompt, NothingToCleanUp, PTL DEF Spec

-------------------------------------------------------------------------------

(* Those who own m_lock in the middle of a call.                           *)
Inside == {"rechecking", "finishing", "stopping", "joining"}

LockInv == \A t \in Callers : pc[t] \in Inside => lock = t

(* Whoever writes a final state while the worker relogs goes on to stop    *)
(* the session; those who find such a state need only wait.                *)
StoppedInv ==
    /\ pc[Main] = "rechecking" => state # "Running"
    /\ worker = "relogging" /\ state # "Running" =>
          session # "running" \/ \E t \in Callers : pc[t] = "stopping"
    /\ SessionStopsFirst

(* When the destructor has returned the worker is over, and no handler owns *)
(* m_lock or waits for the worker.  One may still wait for m_lock, though: *)
(* "calling" is not excluded.                                              *)
GoneInv ==
    pc[Main] = "gone" =>
        /\ worker \in {"off", "exited"}
        /\ \A t \in Handlers : pc[t] \notin {"stopping", "joining"}

SessionInv ==
    /\ session = "running" => started /\ worker \in {"announcing", "relogging", "cleaning"}
    /\ thread = "none" => worker \in {"off", "exited"}
    /\ \A t \in Handlers : pc[t] \in {"returned", "exiting"} =>
          worker = "exited" \/ (closing /\ thread = "none")
    /\ GoneInv

StopInv == LockInv /\ StoppedInv /\ SessionInv

LEMMA InitStop == Init => StopInv
  BY ThreadsAssumption
  DEF Init, StopInv, LockInv, StoppedInv, SessionInv, SessionStopsFirst, GoneInv,
      Inside, Callers

(* The owner of m_lock is alone inside, so that a state that it finds      *)
(* final has its session stopped, and a worker that it has seen the end of *)
(* stays ended.                                                            *)
LEMMA StepStop ==
  ASSUME WorkerIsPrompt, "stop" \notin Failures
  PROVE  IndInv /\ PromptInv /\ StopInv /\ [Next]_vars => StopInv'
<1> SUFFICES ASSUME IndInv, PromptInv, StopInv, [Next]_vars PROVE StopInv'
  OBVIOUS
<1> USE ThreadsAssumption
        DEF IndInv, TypeOK, ThreadInv, DecidedInv, Announced, PromptInv, Callers, Early, Past,
            StopInv, LockInv, StoppedInv, SessionInv, SessionStopsFirst, GoneInv, Inside, Final
<1>1. CASE TargetsExit
  BY <1>1 DEF TargetsExit, env
<1>2. CASE StoppedExternally
  BY <1>2 DEF StoppedExternally, env
<1>3. CASE ProfileSetUp
  BY <1>3 DEF ProfileSetUp, SessionStart, env
<1>4. CASE ProfileSetUpFails
  BY <1>4 DEF ProfileSetUpFails, SessionStart, SetErrorFromWorkerThread, env
<1>5. CASE ProfileAnnounce
  BY <1>5 DEF ProfileAnnounce, env
<1>6. CASE ProfileRelog
  BY <1>6 DEF ProfileRelog, env
<1>7. CASE ProfileRelogFails
  BY <1>7 DEF ProfileRelogFails, SetErrorFromWorkerThread, env
<1>8. CASE ProfileCleanUp
  BY <1>8 DEF ProfileCleanUp, SessionStop, LockFree, env
<1>9. CASE ProfileCheck
  BY <1>9 DEF ProfileCheck, env
<1>10. CASE ProfileDemote
  BY <1>10 DEF ProfileDemote, env
<1>11. CASE ProfileDecide
  BY <1>11 DEF ProfileDecide, DeleteRaw, env
<1>12. CASE ProfileMerge
  BY <1>12 DEF ProfileMerge, DeleteRaw, env
<1>13. CASE ProfileMergeFails
  BY <1>13 DEF ProfileMergeFails, SetErrorFromWorkerThread, DeleteRaw, env
<1>14. CASE MainInstall
  BY <1>14 DEF MainInstall, Goes, env
<1>15. CASE MainStart
  BY <1>15 DEF MainStart, Goes, LockFree, env
<1>16. CASE MainStartFails
  BY <1>16 DEF MainStartFails, Goes, env
<1>17. CASE MainResume
  BY <1>17 DEF MainResume, Goes, Prompt, env
<1>18. CASE IsFinishedAsks(Main)
  BY <1>18 DEF IsFinishedAsks, Goes, LockFree, env
<1>19. CASE IsFinishedRechecks(Main)
  BY <1>19 DEF IsFinishedRechecks, Goes, env
<1>20. CASE MainJoined
  BY <1>20 DEF MainJoined, SessionStop, Goes, Joined, env
<1>21. ASSUME NEW t \in Callers, ~Over, Call(t) PROVE StopInv'
  <2>1. /\ pc[Main] # "gone" /\ lock \in {NoOne, t}
        /\ lock' = t /\ pc' = [pc EXCEPT ![t] = "stopping"]
        /\ UNCHANGED <<worker, thread, started, session, closing>>
    BY <1>21 DEF Call, MayLock, Goes, Over, env
  <2>2. \A u \in Callers : pc[u] \in Inside => u = t
    BY <2>1
  <2>3. LockInv'
    BY <2>1, <2>2
  <2>4. StoppedInv'
    <3>1. pc'[Main] # "rechecking"
      BY <2>1, <2>2
    <3>2. SessionStopsFirst'
      BY <2>1
    <3> QED BY <2>1, <3>1, <3>2
  <2>5. SessionInv'
    BY <2>1
  <2> QED BY <2>3, <2>4, <2>5
<1>22. ASSUME NEW t \in Callers, StopSession(t) PROVE StopInv'
  BY <1>22 DEF StopSession, SessionStop, Goes, env
<1>23. ASSUME NEW t \in Handlers, HandlerStarts(t) PROVE StopInv'
  BY <1>23 DEF HandlerStarts, Goes, Prompt, env
<1>24. ASSUME NEW t \in Handlers, HandlerReturns(t) PROVE StopInv'
  BY <1>24 DEF HandlerReturns, Goes, Joined, env
<1>25. ASSUME NEW t \in Handlers, ProcessExits(t) PROVE StopInv'
  BY <1>25 DEF ProcessExits, Goes, env
<1>26. CASE UNCHANGED vars
  BY <1>26 DEF vars, env
<1> QED
  BY <1>1, <1>2, <1>3, <1>4, <1>5, <1>6, <1>7, <1>8, <1>9, <1>10,
       <1>11, <1>12, <1>13, <1>14, <1>15, <1>16, <1>17, <1>18,
       <1>19, <1>20, <1>21, <1>22, <1>23, <1>24, <1>25, <1>26
  DEF Next, Environment, Profile, MainThread, Handler, Callers

(* The session and the state that belongs to it, as a whole.               *)
LEMMA StopInvariant ==
  ASSUME WorkerIsPrompt, "stop" \notin Failures
  PROVE  Spec => []StopInv
BY Invariant, InitPrompt, StepPrompt, InitStop, StepStop, PTL DEF Spec

(* Whoever joins the worker has stopped its session: StartRelogging will   *)
(* return, if the worker is prompt and ControlTrace does not fail.         *)
THEOREM RelogsNoLonger ==
  WorkerIsPrompt /\ "stop" \notin Failures => (Spec => []SessionStopsFirst)
<1> SUFFICES ASSUME WorkerIsPrompt, "stop" \notin Failures
             PROVE  Spec => []SessionStopsFirst
  OBVIOUS
<1>1. StopInv => SessionStopsFirst
  BY DEF StopInv, StoppedInv
<1> QED BY <1>1, StopInvariant, PTL

(* No kernel session is left behind by the worker, the profiler or an      *)
(* aborted process, under the same assumptions.                            *)
THEOREM SessionsAreStopped ==
  WorkerIsPrompt /\ "stop" \notin Failures => (Spec => []SessionIsStopped)
<1> SUFFICES ASSUME WorkerIsPrompt, "stop" \notin Failures
             PROVE  Spec => []SessionIsStopped
  OBVIOUS
<1>1. StopInv => SessionIsStopped
  <2> SUFFICES ASSUME StopInv, worker = "exited" \/ Over PROVE worker \in {"off", "exited"}
    BY DEF StopInv, SessionInv, SessionIsStopped
  <2>1. CASE pc[Main] = "gone"
    BY <2>1 DEF StopInv, SessionInv, GoneInv
  <2>2. CASE Killed
    BY <2>2 DEF Killed, StopInv, SessionInv
  <2> QED BY <2>1, <2>2 DEF Over
<1> QED BY <1>1, StopInvariant, PTL

-------------------------------------------------------------------------------

(* The contract of IProfiler, for a profile with at most one console       *)
(* control event.                                                          *)
OneEvent == \A s, t \in Handlers : s = t

(* goal is what the caller is about to write to m_state, or has written:   *)
(* an Abort after a failed resume, and the destructor, come to no answer.  *)
GoalInv ==
    /\ LockInv
    /\ \A t \in Handlers : goal[t] \in {"Stopped", "Aborted"}
    /\ goal[Main] = "Aborted" => closing \/ pc[Main] \in {"calling", "stopping", "joining"}
    /\ pc[Main] \in {"finishing", "stopping"} => closing \/ goal[Main] \in {"Finished", "Aborted"}
    /\ pc[Main] = "calling" => closing \/ goal[Main] = "Aborted"

NoAnswer == closing \/ goal[Main] = "Aborted"

(* Nobody will write m_state any more: Main has, and keeps m_lock until it *)
(* has the answer, or the handler of the one event has, and then Main does *)
(* not find the state that it would replace.                               *)
LastCall ==
    \/ pc[Main] \in {"stopping", "joining"} /\ goal[Main] = "Finished"
    \/ /\ pc[Main] # "finishing"
       /\ \E t \in Handlers : \/ pc[t] \in {"stopping", "joining"}
                              \/ pc[t] \in {"returned", "exiting"} /\ worker = "exited"

(* The worker is on its way to the merge, or has failed there.             *)
Merges ==
    \/ errorSet
    \/ worker \in {"relogging", "checking"} /\ state # "Running"
    \/ worker = "deciding" /\ state # "Aborted"
    \/ worker = "merging"

ErrorInv ==
    /\ GoalInv
    /\ result # "none" => closing /\ worker = "exited" /\ (errorSet => result = "Error")
    /\ NoAnswer \/ /\ Merges => LastCall
                   /\ state = "Error" <=> errorSet
                   /\ errorSet => worker = "exited"
                   /\ worker = "merging" => state # "Aborted"

(* Moreover, when the session only ends because it was asked for.          *)
EndIsAsked == Failures \cap {"setup", "relog", "external"} = {}

EndInv ==
    NoAnswer \/ /\ worker \in {"announcing", "relogging"} => session = "running" \/ LastCall
                /\ worker \in {"checking", "demoting", "deciding", "merging", "exited"} => LastCall
                /\ worker # "cleaning"
                /\ worker = "exited" => errorSet \/ output \/ state = "Aborted"
                /\ state = "Stopped" => \E t \in Handlers : goal[t] = "Stopped"
                                             /\ pc[t] \notin {"idle", "calling"}

(* A worker that is prompt finds what Stop, Abort or IsFinished has        *)
(* written, and drops the trace only after an Abort.                       *)
AbortIsAsked == \E t \in Handlers : goal[t] = "Aborted" /\ pc[t] \notin {"idle", "calling"}

TraceInv ==
    /\ goal[Main] # "Aborted"
    /\ thread = "none" => worker \in {"off", "exited"}
    /\ worker = "cleaning" => errorSet
    /\ worker = "announcing" => session = "running"
    /\ worker = "relogging" /\ session # "running" => state # "Running"
    /\ worker = "checking" => state # "Running"
    /\ worker # "demoting"
    /\ \A t \in Callers : pc[t] = "stopping" => state # "Running"
    /\ state = "Aborted" => AbortIsAsked
    /\ worker = "exited" => output \/ errorSet \/ AbortIsAsked

(* Nobody is inside, nothing is asked.                                     *)
LEMMA InitError == Init => ErrorInv
  BY ThreadsAssumption
  DEF Init, ErrorInv, GoalInv, LockInv, Inside, NoAnswer, Merges, LastCall, Callers

(* What is written next, and by whom, is a matter of pc, goal and m_lock.  *)
LEMMA StepGoal == IndInv /\ GoalInv /\ [Next]_vars => GoalInv'
<1> SUFFICES ASSUME IndInv, GoalInv, [Next]_vars PROVE GoalInv'
  OBVIOUS
<1> USE ThreadsAssumption, OptionsAssumption
        DEF IndInv, TypeOK, ThreadInv, Callers, GoalInv, LockInv, Inside
<1>1. CASE TargetsExit
  BY <1>1 DEF TargetsExit, env
<1>2. CASE StoppedExternally
  BY <1>2 DEF StoppedExternally, env
<1>3. CASE ProfileSetUp
  BY <1>3 DEF ProfileSetUp, SessionStart, env
<1>4. CASE ProfileSetUpFails
  BY <1>4 DEF ProfileSetUpFails, SessionStart, SetErrorFromWorkerThread, env
<1>5. CASE ProfileAnnounce
  BY <1>5 DEF ProfileAnnounce, env
<1>6. CASE ProfileRelog
  BY <1>6 DEF ProfileRelog, env
<1>7. CASE ProfileRelogFails
  BY <1>7 DEF ProfileRelogFails, SetErrorFromWorkerThread, env
<1>8. CASE ProfileCleanUp
  BY <1>8 DEF ProfileCleanUp, SessionStop, LockFree, env
<1>9. CASE ProfileCheck
  BY <1>9 DEF ProfileCheck, env
<1>10. CASE ProfileDemote
  BY <1>10 DEF ProfileDemote, env
<1>11. CASE ProfileDecide
  BY <1>11 DEF ProfileDecide, DeleteRaw, env
<1>12. CASE ProfileMerge
  BY <1>12 DEF ProfileMerge, DeleteRaw, env
<1>13. CASE ProfileMergeFails
  BY <1>13 DEF ProfileMergeFails, SetErrorFromWorkerThread, DeleteRaw, env
<1>14. CASE MainInstall
  BY <1>14 DEF MainInstall, Goes, env
<1>15. CASE MainStart
  BY <1>15 DEF MainStart, Goes, LockFree, env
<1>16. CASE MainStartFails
  BY <1>16 DEF MainStartFails, Goes, LockFree, env
<1>17. CASE MainResume
  BY <1>17 DEF MainResume, Goes, Prompt, env
<1>18. CASE IsFinishedAsks(Main)
  BY <1>18 DEF IsFinishedAsks, Goes, LockFree, env
<1>19. CASE IsFinishedRechecks(Main)
  BY <1>19 DEF IsFinishedRechecks, Goes, env
<1>20. CASE MainJoined
  BY <1>20 DEF MainJoined, Goes, Joined, SessionStop, env
<1>21. ASSUME NEW t \in Callers, Call(t) PROVE GoalInv'
  BY <1>21 DEF Call, MayLock, Goes, env
<1>22. ASSUME NEW t \in Callers, StopSession(t) PROVE GoalInv'
  BY <1>22 DEF StopSession, SessionStop, Goes, env
<1>23. ASSUME NEW t \in Handlers, HandlerStarts(t) PROVE GoalInv'
  BY <1>23 DEF HandlerStarts, Goes, Prompt, env
<1>24. ASSUME NEW t \in Handlers, HandlerReturns(t) PROVE GoalInv'
  BY <1>24 DEF HandlerReturns, Goes, Joined, env
<1>25. ASSUME NEW t \in Handlers, ProcessExits(t) PROVE GoalInv'
  BY <1>25 DEF ProcessExits, Goes, env
<1>26. CASE UNCHANGED vars
  BY <1>26 DEF vars, env
<1> QED
  BY <1>1, <1>2, <1>3, <1>4, <1>5, <1>6, <1>7, <1>8, <1>9, <1>10,
       <1>11, <1>12, <1>13, <1>14, <1>15, <1>16, <1>17, <1>18,
       <1>19, <1>20, <1>21, <1>22, <1>23, <1>24, <1>25, <1>26
  DEF Next, Environment, Profile, MainThread, Handler, Callers

(* The state that leads to the merge is the last that is written: m_lock   *)
(* keeps the one handler and Main apart.                                   *)
LEMMA StepError ==
  ASSUME OneEvent, "setup" \notin Failures, "relog" \notin Failures
  PROVE  IndInv /\ ErrorInv /\ [Next]_vars => ErrorInv'
<1> SUFFICES ASSUME IndInv, ErrorInv, [Next]_vars PROVE ErrorInv'
  OBVIOUS
<1>0. GoalInv'
  BY StepGoal DEF ErrorInv
<1> USE <1>0, ThreadsAssumption
        DEF IndInv, TypeOK, DecidedInv, ThreadInv, Announced, Decided, Final, Callers, ErrorInv,
            GoalInv, LockInv, Inside, OneEvent, NoAnswer, LastCall, Merges
<1>1. CASE TargetsExit
  BY <1>1 DEF TargetsExit, env
<1>2. CASE StoppedExternally
  BY <1>2 DEF StoppedExternally, env
<1>3. CASE ProfileSetUp
  BY <1>3 DEF ProfileSetUp, SessionStart, env
<1>4. CASE ProfileSetUpFails
  BY <1>4 DEF ProfileSetUpFails, SessionStart, SetErrorFromWorkerThread, env
<1>5. CASE ProfileAnnounce
  BY <1>5 DEF ProfileAnnounce, env
<1>6. CASE ProfileRelog
  BY <1>6 DEF ProfileRelog, env
<1>7. CASE ProfileRelogFails
  BY <1>7 DEF ProfileRelogFails, SetErrorFromWorkerThread, env
<1>8. CASE ProfileCleanUp
  BY <1>8 DEF ProfileCleanUp, SessionStop, LockFree, env
<1>9. CASE ProfileCheck
  BY <1>9 DEF ProfileCheck, env
<1>10. CASE ProfileDemote
  BY <1>10 DEF ProfileDemote, env
<1>11. CASE ProfileDecide
  BY <1>11 DEF ProfileDecide, DeleteRaw, env
<1>12. CASE ProfileMerge
  BY <1>12 DEF ProfileMerge, DeleteRaw, env
<1>13. CASE ProfileMergeFails
  BY <1>13 DEF ProfileMergeFails, SetErrorFromWorkerThread, DeleteRaw, env
<1>14. CASE MainInstall
  BY <1>14 DEF MainInstall, Goes, env
<1>15. CASE MainStart
  BY <1>15 DEF MainStart, Goes, LockFree, env
<1>16. CASE MainStartFails
  BY <1>16 DEF MainStartFails, Goes, LockFree, env
<1>17. CASE MainResume
  BY <1>17 DEF MainResume, Goes, Prompt, env
<1>18. CASE IsFinishedAsks(Main)
  BY <1>18 DEF IsFinishedAsks, Goes, LockFree, env
<1>19. CASE IsFinishedRechecks(Main)
  BY <1>19 DEF IsFinishedRechecks, Goes, env
<1>20. CASE MainJoined
  BY <1>20 DEF MainJoined, Goes, Joined, SessionStop, env
<1>21. ASSUME NEW t \in Callers, Call(t) PROVE ErrorInv'
  BY <1>21 DEF Call, MayLock, Goes, env
<1>22. ASSUME NEW t \in Callers, StopSession(t) PROVE ErrorInv'
  BY <1>22 DEF StopSession, SessionStop, Goes, env
<1>23. ASSUME NEW t \in Handlers, HandlerStarts(t) PROVE ErrorInv'
  BY <1>23 DEF HandlerStarts, Goes, Prompt, env
<1>24. ASSUME NEW t \in Handlers, HandlerReturns(t) PROVE ErrorInv'
  BY <1>24 DEF HandlerReturns, Goes, Joined, env
<1>25. ASSUME NEW t \in Handlers, ProcessExits(t) PROVE ErrorInv'
  BY <1>25 DEF ProcessExits, Goes, env
<1>26. CASE UNCHANGED vars
  BY <1>26 DEF vars, env
<1> QED
  BY <1>1, <1>2, <1>3, <1>4, <1>5, <1>6, <1>7, <1>8, <1>9, <1>10,
       <1>11, <1>12, <1>13, <1>14, <1>15, <1>16, <1>17, <1>18,
       <1>19, <1>20, <1>21, <1>22, <1>23, <1>24, <1>25, <1>26
  DEF Next, Environment, Profile, MainThread, Handler, Callers

(* Nothing is asked and nothing runs.                                      *)
LEMMA InitEnd == Init => EndInv
  BY ThreadsAssumption DEF Init, EndInv, NoAnswer, Callers

(* The session ends by the last call, and the worker with what that asks   *)
(* for.                                                                    *)
LEMMA StepEnd ==
  ASSUME OneEvent, EndIsAsked
  PROVE  IndInv /\ ErrorInv /\ EndInv /\ [Next]_vars => EndInv'
<1> SUFFICES ASSUME IndInv, ErrorInv, EndInv, [Next]_vars PROVE EndInv'
  OBVIOUS
<1> USE ThreadsAssumption
        DEF IndInv, TypeOK, DecidedInv, ThreadInv, Announced, Decided, Final, Callers, ErrorInv,
            GoalInv, LockInv, Inside, OneEvent, NoAnswer, LastCall, Merges, EndIsAsked, EndInv
<1>1. CASE TargetsExit
  BY <1>1 DEF TargetsExit, env
<1>2. CASE StoppedExternally
  BY <1>2 DEF StoppedExternally, env
<1>3. CASE ProfileSetUp
  BY <1>3 DEF ProfileSetUp, SessionStart, env
<1>4. CASE ProfileSetUpFails
  BY <1>4 DEF ProfileSetUpFails, SessionStart, SetErrorFromWorkerThread, env
<1>5. CASE ProfileAnnounce
  BY <1>5 DEF ProfileAnnounce, env
<1>6. CASE ProfileRelog
  BY <1>6 DEF ProfileRelog, env
<1>7. CASE ProfileRelogFails
  BY <1>7 DEF ProfileRelogFails, SetErrorFromWorkerThread, env
<1>8. CASE ProfileCleanUp
  BY <1>8 DEF ProfileCleanUp, SessionStop, LockFree, env
<1>9. CASE ProfileCheck
  BY <1>9 DEF ProfileCheck, env
<1>10. CASE ProfileDemote
  BY <1>10 DEF ProfileDemote, env
<1>11. CASE ProfileDecide
  BY <1>11 DEF ProfileDecide, DeleteRaw, env
<1>12. CASE ProfileMerge
  BY <1>12 DEF ProfileMerge, DeleteRaw, env
<1>13. CASE ProfileMergeFails
  BY <1>13 DEF ProfileMergeFails, SetErrorFromWorkerThread, DeleteRaw, env
<1>14. CASE MainInstall
  BY <1>14 DEF MainInstall, Goes, env
<1>15. CASE MainStart
  BY <1>15 DEF MainStart, Goes, LockFree, env
<1>16. CASE MainStartFails
  BY <1>16 DEF MainStartFails, Goes, LockFree, env
<1>17. CASE MainResume
  BY <1>17 DEF MainResume, Goes, Prompt, env
<1>18. CASE IsFinishedAsks(Main)
  BY <1>18 DEF IsFinishedAsks, Goes, LockFree, env
<1>19. CASE IsFinishedRechecks(Main)
  BY <1>19 DEF IsFinishedRechecks, Goes, env
<1>20. CASE MainJoined
  BY <1>20 DEF MainJoined, Goes, Joined, SessionStop, env
<1>21. ASSUME NEW t \in Callers, Call(t) PROVE EndInv'
  BY <1>21 DEF Call, MayLock, Goes, env
<1>22. ASSUME NEW t \in Callers, StopSession(t) PROVE EndInv'
  BY <1>22 DEF StopSession, SessionStop, Goes, env
<1>23. ASSUME NEW t \in Handlers, HandlerStarts(t) PROVE EndInv'
  BY <1>23 DEF HandlerStarts, Goes, Prompt, env
<1>24. ASSUME NEW t \in Handlers, HandlerReturns(t) PROVE EndInv'
  BY <1>24 DEF HandlerReturns, Goes, Joined, env
<1>25. ASSUME NEW t \in Handlers, ProcessExits(t) PROVE EndInv'
  BY <1>25 DEF ProcessExits, Goes, env
<1>26. CASE UNCHANGED vars
  BY <1>26 DEF vars, env
<1> QED
  BY <1>1, <1>2, <1>3, <1>4, <1>5, <1>6, <1>7, <1>8, <1>9, <1>10,
       <1>11, <1>12, <1>13, <1>14, <1>15, <1>16, <1>17, <1>18,
       <1>19, <1>20, <1>21, <1>22, <1>23, <1>24, <1>25, <1>26
  DEF Next, Environment, Profile, MainThread, Handler, Callers

-------------------------------------------------------------------------------
(* Refinement *)

LifecycleStep == [Lifecycle!Next]_(Lifecycle!lifecycle)

(* asked is a matter of the handlers' progress and goals.                  *)
LEMMA AskedIsKept ==
  ASSUME \A t \in Handlers : (pc'[t] = "idle" <=> pc[t] = "idle") /\ goal'[t] = goal[t]
  PROVE  asked' = asked
BY DEF asked

(* The worker goes on or ends, and nothing else of the contract changes.   *)
LEMMA ProfileImplements == ASSUME Profile PROVE LifecycleStep
<1>1. /\ UNCHANGED <<pc, goal, result>>
      /\ worker \notin {"off", "exited"} /\ worker' # "off"
  BY DEF Profile, ProfileSetUp, ProfileSetUpFails, ProfileAnnounce, ProfileRelog,
         ProfileRelogFails, ProfileCleanUp, ProfileCheck, ProfileDemote, ProfileDecide,
         ProfileMerge, ProfileMergeFails
<1>2. UNCHANGED <<asked, result>> /\ work = "running"
  BY <1>1, AskedIsKept DEF work
<1>3. CASE worker' = "exited"
  <2>1. work' \in {"failed", "done", "dropped"}
    BY <1>3 DEF work
  <2> QED
    BY <1>2, <2>1 DEF LifecycleStep, Lifecycle!Next, Lifecycle!End, Lifecycle!Ends
<1>4. CASE worker' # "exited"
  <2>1. work' = "running"
    BY <1>1, <1>4 DEF work
  <2> QED
    BY <1>2, <2>1 DEF LifecycleStep, Lifecycle!lifecycle
<1> QED BY <1>3, <1>4

(* Start begins the work.                                                  *)
LEMMA StartImplements == ASSUME IndInv, MainStart PROVE LifecycleStep
<1>1. /\ worker = "off" /\ worker' = "locking" /\ UNCHANGED <<goal, result>>
      /\ \A t \in Handlers : pc'[t] = pc[t]
  BY ThreadsAssumption DEF IndInv, TypeOK, ThreadInv, Callers, MainStart, Goes
<1>2. work = "none" /\ work' = "running" /\ UNCHANGED <<asked, result>>
  BY <1>1, AskedIsKept DEF work
<1> QED
  BY <1>2 DEF LifecycleStep, Lifecycle!Next, Lifecycle!Begin

(* IsFinished answers after the end, and truthfully.                       *)
LEMMA AnswerImplements ==
  ASSUME IndInv, ErrorInv, EndInv, MainJoined
  PROVE  LifecycleStep
<1>1. /\ pc[Main] = "joining" /\ UNCHANGED <<worker, errorSet, output, goal>>
      /\ \A t \in Handlers : pc'[t] = pc[t]
  BY ThreadsAssumption DEF IndInv, TypeOK, Callers, MainJoined, Goes, Joined
<1>2. UNCHANGED <<work, asked>>
  BY <1>1, AskedIsKept DEF work
<1>3. CASE NoAnswer
  <2>1. result' = result
    BY <1>3 DEF MainJoined, NoAnswer
  <2> QED
    BY <1>2, <2>1 DEF LifecycleStep, Lifecycle!lifecycle
<1>4. CASE ~NoAnswer
  <2>1. worker = "exited" /\ result = "none" /\ result' = state /\ state \in Final
    BY <1>1, <1>4 DEF MainJoined, NoAnswer, Joined, IndInv, TypeOK, ThreadInv, DecidedInv,
                      Decided, ErrorInv, Final
  <2>2. /\ state = "Error" <=> errorSet
        /\ errorSet \/ output \/ state = "Aborted"
        /\ state = "Stopped" => "Stopped" \in asked
    BY <1>4, <2>1 DEF ErrorInv, EndInv, asked
  <2>3. work = IF errorSet THEN "failed" ELSE IF output THEN "done" ELSE "dropped"
    BY <2>1 DEF work
  <2>4. Lifecycle!Truthful(state)
    BY <2>1, <2>2, <2>3 DEF Lifecycle!Truthful, Final
  <2>5. Lifecycle!Answer(state)
    BY <1>2, <2>1, <2>3, <2>4 DEF Lifecycle!Answer, Lifecycle!Ends
  <2> QED
    BY <2>1, <2>5 DEF LifecycleStep, Lifecycle!Next, Lifecycle!Answers, Final
<1> QED BY <1>3, <1>4

(* An event asks for what its handler will ask for.                        *)
LEMMA EventImplements ==
  ASSUME IndInv, NEW t \in Handlers, HandlerStarts(t)
  PROVE  LifecycleStep
<1>1. PICK k \in Kinds : goal' = [goal EXCEPT ![t] = k]
  BY DEF HandlerStarts
<1>2. /\ \A u \in Handlers : goal'[u] = IF u = t THEN k ELSE goal[u]
      /\ \A u \in Handlers : pc'[u] = IF u = t THEN "calling" ELSE pc[u]
      /\ pc[t] = "idle"
  BY <1>1 DEF IndInv, TypeOK, Callers, HandlerStarts, Goes
<1>3. asked' = asked \cup {k}
  BY <1>2 DEF asked
<1>4. UNCHANGED <<work, result>>
  BY DEF HandlerStarts, work
<1>5. k \in {"Stopped", "Aborted"}
  BY OptionsAssumption
<1> QED
  BY <1>3, <1>4, <1>5 DEF LifecycleStep, Lifecycle!Next, Lifecycle!Ask

(* Whatever else happens is no business of the contract.                   *)
LEMMA RestIsHidden ==
  ASSUME IndInv, UNCHANGED <<worker, errorSet, output, result>>,
         \A t \in Handlers : (pc'[t] = "idle" <=> pc[t] = "idle") /\ goal'[t] = goal[t]
  PROVE  LifecycleStep
BY AskedIsKept DEF LifecycleStep, Lifecycle!lifecycle, work

(* Every step is a step of the contract, or none.                          *)
LEMMA StepImplements == IndInv /\ ErrorInv /\ EndInv /\ [Next]_vars => LifecycleStep
<1> SUFFICES ASSUME IndInv, ErrorInv, EndInv, [Next]_vars PROVE LifecycleStep
  OBVIOUS
<1> USE ThreadsAssumption DEF IndInv, TypeOK, Callers
<1>1. CASE Environment \/ UNCHANGED vars
  BY <1>1, RestIsHidden DEF Environment, TargetsExit, StoppedExternally, vars
<1>2. CASE Profile
  BY <1>2, ProfileImplements
<1>3. CASE MainStart
  BY <1>3, StartImplements
<1>4. CASE MainInstall \/ MainStartFails \/ MainResume
  BY <1>4, RestIsHidden DEF MainInstall, MainStartFails, MainResume, Goes
<1>5. CASE IsFinishedAsks(Main) \/ IsFinishedRechecks(Main)
  BY <1>5, RestIsHidden DEF IsFinishedAsks, IsFinishedRechecks, Goes
<1>6. CASE MainJoined
  BY <1>6, AnswerImplements
<1>7. ASSUME NEW t \in Callers, Call(t) \/ StopSession(t) PROVE LifecycleStep
  BY <1>7, RestIsHidden DEF Call, StopSession, Goes
<1>8. ASSUME NEW t \in Handlers, HandlerStarts(t) PROVE LifecycleStep
  BY <1>8, EventImplements
<1>9. ASSUME NEW t \in Handlers, HandlerReturns(t) \/ ProcessExits(t) PROVE LifecycleStep
  BY <1>9, RestIsHidden DEF HandlerReturns, ProcessExits, Joined, Goes
<1> QED
  BY <1>1, <1>2, <1>3, <1>4, <1>5, <1>6, <1>7, <1>8, <1>9 DEF Next, MainThread, Handler

LEMMA ErrorInvariant ==
  ASSUME OneEvent, "setup" \notin Failures, "relog" \notin Failures
  PROVE  Spec => [](IndInv /\ ErrorInv)
BY InitInv, StepInv, InitError, StepError, PTL DEF Spec

(* What the worker reported with SetErrorFromWorkerThread reaches          *)
(* DoProfile as an error, if there is at most one event and the error is   *)
(* the merge's: Stop overwrites the error of a worker that ended unasked.  *)
THEOREM ErrorsAreReported ==
  OneEvent /\ Failures \cap {"setup", "relog"} = {} => (Spec => []ErrorIsReported)
<1> SUFFICES ASSUME OneEvent, Failures \cap {"setup", "relog"} = {}
             PROVE  Spec => []ErrorIsReported
  OBVIOUS
<1>1. ErrorInv => ErrorIsReported
  BY DEF ErrorInv, ErrorIsReported, Final
<1>2. "setup" \notin Failures /\ "relog" \notin Failures
  OBVIOUS
<1>3. Spec => [](IndInv /\ ErrorInv)
  BY <1>2, ErrorInvariant
<1> QED BY <1>1, <1>3, PTL

(* ETWProfiler keeps the contract of IProfiler: DoProfile hears once, after *)
(* the worker's end, what is true of the trace and the error, if there is  *)
(* at most one event and the session does not end unasked.                 *)
THEOREM Implements == OneEvent /\ EndIsAsked => (Spec => ImplementsLifecycle)
<1> SUFFICES ASSUME OneEvent, EndIsAsked PROVE Spec => ImplementsLifecycle
  OBVIOUS
<1>1. Init => Lifecycle!Init
  BY ThreadsAssumption DEF Init, Lifecycle!Init, work, asked, Callers
<1>2. IndInv /\ ErrorInv /\ EndInv /\ [Next]_vars => [Lifecycle!Next]_(Lifecycle!lifecycle)
  BY StepImplements DEF LifecycleStep
<1>3. Spec => [](IndInv /\ ErrorInv)
  BY ErrorInvariant DEF EndIsAsked
<1> QED
  BY <1>1, <1>2, <1>3, InitEnd, StepEnd, PTL DEF Spec, ImplementsLifecycle, Lifecycle!Spec

-------------------------------------------------------------------------------

(* The worker is off.                                                      *)
LEMMA InitTrace == Init => TraceInv
  BY ThreadsAssumption DEF Init, TraceInv, Callers

(* Whoever calls a prompt worker calls it after it has said Running, which *)
(* nobody says again.                                                      *)
LEMMA StepTrace ==
  ASSUME WorkerIsPrompt, "resume" \notin Failures, "external" \notin Failures
  PROVE  IndInv /\ PromptInv /\ GoalInv /\ TraceInv /\ [Next]_vars => TraceInv'
<1> SUFFICES ASSUME IndInv, PromptInv, GoalInv, TraceInv, [Next]_vars PROVE TraceInv'
  OBVIOUS
<1> USE ThreadsAssumption
        DEF IndInv, TypeOK, DecidedInv, ThreadInv, PromptInv, Announced, Decided, Final, Callers,
            Early, Past, GoalInv, LockInv, Inside, TraceInv, AbortIsAsked
<1>1. CASE TargetsExit
  BY <1>1 DEF TargetsExit, env
<1>2. CASE StoppedExternally
  BY <1>2 DEF StoppedExternally, env
<1>3. CASE ProfileSetUp
  BY <1>3 DEF ProfileSetUp, SessionStart, env
<1>4. CASE ProfileSetUpFails
  BY <1>4 DEF ProfileSetUpFails, SessionStart, SetErrorFromWorkerThread, env
<1>5. CASE ProfileAnnounce
  BY <1>5 DEF ProfileAnnounce, env
<1>6. CASE ProfileRelog
  BY <1>6 DEF ProfileRelog, env
<1>7. CASE ProfileRelogFails
  BY <1>7 DEF ProfileRelogFails, SetErrorFromWorkerThread, env
<1>8. CASE ProfileCleanUp
  BY <1>8 DEF ProfileCleanUp, SessionStop, LockFree, env
<1>9. CASE ProfileCheck
  BY <1>9 DEF ProfileCheck, env
<1>10. CASE ProfileDemote
  BY <1>10 DEF ProfileDemote, env
<1>11. CASE ProfileDecide
  BY <1>11 DEF ProfileDecide, DeleteRaw, env
<1>12. CASE ProfileMerge
  BY <1>12 DEF ProfileMerge, DeleteRaw, env
<1>13. CASE ProfileMergeFails
  BY <1>13 DEF ProfileMergeFails, SetErrorFromWorkerThread, DeleteRaw, env
<1>14. CASE MainInstall
  BY <1>14 DEF MainInstall, Goes, env
<1>15. CASE MainStart
  BY <1>15 DEF MainStart, Goes, LockFree, env
<1>16. CASE MainStartFails
  BY <1>16 DEF MainStartFails, Goes, LockFree, env
<1>17. CASE MainResume
  BY <1>17 DEF MainResume, Goes, Prompt, env
<1>18. CASE IsFinishedAsks(Main)
  BY <1>18 DEF IsFinishedAsks, Goes, LockFree, env
<1>19. CASE IsFinishedRechecks(Main)
  BY <1>19 DEF IsFinishedRechecks, Goes, env
<1>20. CASE MainJoined
  BY <1>20 DEF MainJoined, Goes, Joined, SessionStop, env
<1>21. ASSUME NEW t \in Callers, Call(t) PROVE TraceInv'
  BY <1>21 DEF Call, MayLock, Goes, env
<1>22. ASSUME NEW t \in Callers, StopSession(t) PROVE TraceInv'
  BY <1>22 DEF StopSession, SessionStop, Goes, env
<1>23. ASSUME NEW t \in Handlers, HandlerStarts(t) PROVE TraceInv'
  BY <1>23 DEF HandlerStarts, Goes, Prompt, env
<1>24. ASSUME NEW t \in Handlers, HandlerReturns(t) PROVE TraceInv'
  BY <1>24 DEF HandlerReturns, Goes, Joined, env
<1>25. ASSUME NEW t \in Handlers, ProcessExits(t) PROVE TraceInv'
  BY <1>25 DEF ProcessExits, Goes, env
<1>26. CASE UNCHANGED vars
  BY <1>26 DEF vars, env
<1> QED
  BY <1>1, <1>2, <1>3, <1>4, <1>5, <1>6, <1>7, <1>8, <1>9, <1>10,
       <1>11, <1>12, <1>13, <1>14, <1>15, <1>16, <1>17, <1>18,
       <1>19, <1>20, <1>21, <1>22, <1>23, <1>24, <1>25, <1>26
  DEF Next, Environment, Profile, MainThread, Handler, Callers

(* After Ctrl+C the worker leaves a merged trace, or an error, if it is    *)
(* prompt, if there is at most one event, and if nobody else ends the      *)
(* profile: neither another tool, nor DoProfile because of a failed resume. *)
THEOREM StopsKeepTraces ==
  WorkerIsPrompt /\ OneEvent /\ Failures \cap {"resume", "external"} = {}
    => (Spec => []StopKeepsTrace)
<1> SUFFICES ASSUME WorkerIsPrompt, OneEvent, Failures \cap {"resume", "external"} = {}
             PROVE  Spec => []StopKeepsTrace
  OBVIOUS
<1>1. TraceInv => StopKeepsTrace
  BY DEF TraceInv, AbortIsAsked, StopKeepsTrace, OneEvent
<1>2. "resume" \notin Failures /\ "external" \notin Failures
  OBVIOUS
<1>3. IndInv /\ PromptInv /\ GoalInv /\ TraceInv /\ [Next]_vars => TraceInv'
  BY <1>2, StepTrace
<1>4. Init => GoalInv
  BY InitError DEF ErrorInv
<1> QED BY <1>1, <1>3, <1>4, Invariant, InitPrompt, StepPrompt, StepGoal, InitTrace, PTL DEF Spec
===============================================================================
