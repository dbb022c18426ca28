------------------------------ MODULE ETWProfiler ------------------------------
(***************************************************************************)
(* ETWProfiler (Profiler/ETWProfiler.cpp) as Application::DoProfile uses   *)
(* it: the main thread starts it and polls IsFinished, the threads that    *)
(* Windows makes for Ctrl+C and for closing the console call Stop and      *)
(* Abort, and the worker thread runs Profile.                              *)
(*                                                                         *)
(* m_lock is recursive and held across whole operations, waits included.   *)
(* m_resultLock is only held around one access of m_state at a time, so    *)
(* each such access is one atomic step and the lock is not modelled.       *)
(* Taking m_lock is part of the first access to m_state after it.          *)
(***************************************************************************)
EXTENDS Naturals

CONSTANTS
    Main,               \* the thread in DoProfile
    Handlers,           \* console control events, each with a thread of its own
    Worker,             \* the thread of Profile
    NoOne,              \* owner of a free m_lock
    Failures,           \* what may go wrong outside the profiler, see below
    Kinds,              \* "Stopped": Ctrl+C, "Aborted": the console is closed
    WorkerIsPrompt,     \* does the profiler run before anybody calls it again?
    DebugOption         \* IETWBasedProfiler::Debug keeps the raw trace

(* start: the sampling rate or the thread; resume: the suspended target;   *)
(* setup: a step of Profile before relogging; relog: ITraceRelogger;       *)
(* merge: MergeTrace; stop: ControlTrace refuses to stop the session;      *)
(* external: somebody else stops the session.                              *)
AllFailures == {"start", "resume", "setup", "relog", "merge", "stop", "external"}

Callers == Handlers \cup {Main}
Final   == {"Finished", "Stopped", "Aborted", "Error"}
States  == Final \cup {"Unstarted", "Running"}

ASSUME ThreadsAssumption ==
    /\ Main \notin Handlers
    /\ Worker \notin Callers
    /\ NoOne \notin Callers \cup {Worker}
ASSUME OptionsAssumption ==
    /\ Failures \subseteq AllFailures
    /\ Kinds \subseteq {"Stopped", "Aborted"}
    /\ WorkerIsPrompt \in BOOLEAN
    /\ DebugOption \in BOOLEAN

VARIABLES
    state,          \* m_state
    errorSet,       \* m_errorFromWorkerThread has a message
    lock,           \* owner of m_lock
    worker,         \* progress of Profile
    thread,         \* m_hWorkerThread: "none", or a handle of a thread
    started,        \* CombinedETWSession::m_started
    session,        \* the kernel's session
    raw,            \* the unmerged trace is on disk
    output,         \* the merged trace is on disk
    pc,             \* progress of each caller
    goal,           \* the state its operation sets
    closing,        \* Main is in the destructor
    result,         \* what IsFinished told DoProfile
    targets         \* "running", or "exited" when all that count have exited

env  == <<session, targets>>
vars == <<state, errorSet, lock, worker, thread, started, session, raw, output,
          pc, goal, closing, result, targets>>

CallerStates == {"installing", "starting", "resuming", "polling", "rechecking",
                 "finishing", "calling", "stopping", "joining", "destroying",
                 "gone", "idle", "returned", "exiting"}
WorkerStates == {"off", "locking", "announcing", "relogging", "cleaning",
                 "checking", "demoting", "deciding", "merging", "exited"}

LockFree == lock = NoOne

(* CRITICAL_SECTIONs are recursive.                                        *)
MayLock(t) == lock \in {NoOne, t}

(* Profile has got as far as relogging, or is over.                        *)
Prompt == WorkerIsPrompt => worker \notin {"off", "locking", "announcing"}

-------------------------------------------------------------------------------
Init ==
    /\ state = "Unstarted"
    /\ errorSet = FALSE
    /\ lock = NoOne
    /\ worker = "off"
    /\ thread = "none"
    /\ started = FALSE
    /\ session = "none"
    /\ raw = FALSE
    /\ output = FALSE
    /\ pc = [t \in Callers |-> IF t = Main THEN "installing" ELSE "idle"]
    /\ goal = [t \in Callers |-> "Stopped"]
    /\ closing = FALSE
    /\ result = "none"
    /\ targets = "running"

-------------------------------------------------------------------------------
(* The world outside *)

TargetsExit ==
    /\ targets = "running"
    /\ targets' = "exited"
    /\ UNCHANGED <<state, errorSet, lock, worker, thread, started, session, raw,
                   output, pc, goal, closing, result>>

(* Somebody else, xperf or logman, stops the session.                      *)
StoppedExternally ==
    /\ "external" \in Failures
    /\ session = "running"
    /\ session' = "stopped"
    /\ UNCHANGED <<state, errorSet, lock, worker, thread, started, raw, output,
                   pc, goal, closing, result, targets>>

(* CombinedETWSession::Start, when it works.                               *)
SessionStart == started' = TRUE /\ session' = "running"

(* CombinedETWSession::Stop: ControlTrace fails for a session that is gone *)
(* already, and m_started then stays as it was.                            *)
SessionStop ==
    \/ ~started /\ UNCHANGED <<started, session>>
    \/ started /\ session = "running" /\ started' = FALSE /\ session' = "stopped"
    \/ started /\ session # "running" /\ UNCHANGED <<started, session>>
    \/ started /\ "stop" \in Failures /\ UNCHANGED <<started, session>>

-------------------------------------------------------------------------------
(* The worker thread: Profile *)

SetErrorFromWorkerThread == state' = "Error" /\ errorSet' = TRUE

(* Everything up to the first Unlock, which no caller can interrupt.  The  *)
(* session exists from its Start on and is stopped again on the way out.   *)
ProfileSetUp ==
    /\ worker = "locking"
    /\ LockFree
    /\ SessionStart
    /\ worker' = "announcing"
    /\ UNCHANGED <<state, errorSet, lock, thread, raw, output, pc, goal, closing,
                   result, targets>>

(* Mutation: no guard destroys the session on an early return.             *)
ProfileSetUpLeaks ==
    /\ worker = "locking"
    /\ LockFree
    /\ "setup" \in Failures
    /\ SetErrorFromWorkerThread
    /\ SessionStart
    /\ worker' = "exited"
    /\ UNCHANGED <<lock, thread, raw, output, pc, goal, closing, result, targets>>

ProfileSetUpFails ==
    /\ worker = "locking"
    /\ LockFree
    /\ "setup" \in Failures
    /\ SetErrorFromWorkerThread
    /\ \/ UNCHANGED <<started, session>>
       \/ started' = FALSE /\ session' = "stopped"
       \/ SessionStart /\ "stop" \in Failures
    /\ worker' = "exited"
    /\ UNCHANGED <<lock, thread, raw, output, pc, goal, closing, result, targets>>

(* m_lock is free again: only now does the worker say that it is running.  *)
ProfileAnnounce ==
    /\ worker = "announcing"
    /\ state' = "Running"
    /\ worker' = "relogging"
    /\ UNCHANGED <<errorSet, lock, thread, started, env, raw, output, pc, goal,
                   closing, result>>

(* Mutation: etwSessionDestroyer is not deactivated.                       *)
ProfileRelogLocks ==
    /\ worker = "relogging"
    /\ session # "running"
    /\ raw' = TRUE
    /\ worker' = "cleaning"
    /\ UNCHANGED <<state, errorSet, lock, thread, started, env, output, pc, goal,
                   closing, result>>

(* StartRelogging returns when the session has stopped ...                 *)
ProfileRelog ==
    /\ worker = "relogging"
    /\ session # "running"
    /\ raw' = TRUE
    /\ worker' = "checking"
    /\ UNCHANGED <<state, errorSet, lock, thread, started, env, output, pc, goal,
                   closing, result>>

(* ... or fails at any time, with or without a file.                       *)
ProfileRelogFails ==
    /\ worker = "relogging"
    /\ "relog" \in Failures
    /\ SetErrorFromWorkerThread
    /\ raw' \in BOOLEAN
    /\ worker' = "cleaning"
    /\ UNCHANGED <<lock, thread, started, env, output, pc, goal, closing, result>>

(* The guard etwSessionDestroyer takes m_lock to stop the session.         *)
ProfileCleanUp ==
    /\ worker = "cleaning"
    /\ LockFree
    /\ SessionStop
    /\ worker' = "exited"
    /\ UNCHANGED <<state, errorSet, lock, thread, raw, output, pc, goal, closing,
                   result, targets>>

(* Mutations: case c is not looked for; it is taken for granted.           *)
ProfileCheckOmitted ==
    /\ worker = "checking"
    /\ worker' = "deciding"
    /\ UNCHANGED <<state, errorSet, lock, thread, started, env, raw, output, pc,
                   goal, closing, result>>

ProfileCheckBlind ==
    /\ worker = "checking"
    /\ worker' = "demoting"
    /\ UNCHANGED <<state, errorSet, lock, thread, started, env, raw, output, pc,
                   goal, closing, result>>

(* "Find out if we are up against case c": the session was not stopped by  *)
(* the profiler.  One access reads m_state, another one writes it.         *)
ProfileCheck ==
    /\ worker = "checking"
    /\ worker' = IF state = "Running" THEN "demoting" ELSE "deciding"
    /\ UNCHANGED <<state, errorSet, lock, thread, started, env, raw, output, pc,
                   goal, closing, result>>

ProfileDemote ==
    /\ worker = "demoting"
    /\ state' = "Aborted"
    /\ worker' = "deciding"
    /\ UNCHANGED <<errorSet, lock, thread, started, env, raw, output, pc, goal,
                   closing, result>>

(* What is left of the raw trace when Profile returns.                     *)
DeleteRaw == raw' = (raw /\ DebugOption)

(* Mutation: a manual stop is treated as an abort.                         *)
ProfileDecideFinished ==
    /\ worker = "deciding"
    /\ IF state # "Finished"
         THEN worker' = "exited" /\ DeleteRaw
         ELSE worker' = "merging" /\ UNCHANGED raw
    /\ UNCHANGED <<state, errorSet, lock, thread, started, env, output, pc, goal,
                   closing, result>>

ProfileDecide ==
    /\ worker = "deciding"
    /\ IF state = "Aborted"
         THEN worker' = "exited" /\ DeleteRaw
         ELSE worker' = "merging" /\ UNCHANGED raw
    /\ UNCHANGED <<state, errorSet, lock, thread, started, env, output, pc, goal,
                   closing, result>>

ProfileMerge ==
    /\ worker = "merging"
    /\ output' = TRUE
    /\ DeleteRaw
    /\ worker' = "exited"
    /\ UNCHANGED <<state, errorSet, lock, thread, started, env, pc, goal, closing,
                   result>>

ProfileMergeFails ==
    /\ worker = "merging"
    /\ "merge" \in Failures
    /\ SetErrorFromWorkerThread
    /\ DeleteRaw
    /\ worker' = "exited"
    /\ UNCHANGED <<lock, thread, started, env, output, pc, goal, closing, result>>

-------------------------------------------------------------------------------
(* Stop, Abort and the second half of IsFinished: set the state, stop the  *)
(* session, wait for the worker, all under m_lock.                         *)

Goes(t, where) == pc' = [pc EXCEPT ![t] = where]

(* Mutation: m_lock is given back between SetState and StopImpl.           *)
CallUnguarded(t) ==
    /\ pc[t] \in {"calling", "finishing"}
    /\ MayLock(t)
    /\ lock' = NoOne
    /\ state' = goal[t]
    /\ Goes(t, "stopping")
    /\ UNCHANGED <<errorSet, worker, thread, started, env, raw, output, goal,
                   closing, result>>

Call(t) ==
    /\ pc[t] \in {"calling", "finishing"}
    /\ MayLock(t)
    /\ lock' = t
    /\ state' = goal[t]
    /\ Goes(t, "stopping")
    /\ UNCHANGED <<errorSet, worker, thread, started, env, raw, output, goal,
                   closing, result>>

(* Mutation: Stop relies on the targets' exit.                             *)
StopNothing(t) ==
    /\ pc[t] = "stopping"
    /\ Goes(t, "joining")
    /\ UNCHANGED <<state, errorSet, lock, worker, thread, started, env, raw, output,
                   goal, closing, result>>

StopSession(t) ==
    /\ pc[t] = "stopping"
    /\ SessionStop
    /\ Goes(t, "joining")
    /\ UNCHANGED <<state, errorSet, lock, worker, thread, raw, output, goal,
                   closing, result, targets>>

(* WaitForProfilerThread; a wait for a null handle returns at once.        *)
Joined(t) == pc[t] = "joining" /\ (thread = "none" \/ worker = "exited")

(* A control handler's operation is over.                                  *)
HandlerReturns(t) ==
    /\ t # Main
    /\ Joined(t)
    /\ lock' = NoOne
    /\ Goes(t, "returned")
    /\ UNCHANGED <<state, errorSet, worker, thread, started, env, raw, output, goal,
                   closing, result>>

(* CtrlHandler returned FALSE for a closing console: the default handler   *)
(* ends the process.                                                       *)
ProcessExits(t) ==
    /\ pc[t] = "returned"
    /\ goal[t] = "Aborted"
    /\ Goes(t, "exiting")
    /\ UNCHANGED <<state, errorSet, lock, worker, thread, started, env, raw, output,
                   goal, closing, result>>

(* The system calls CtrlHandler while it is installed.                     *)
HandlerStarts(t) ==
    /\ t # Main
    /\ pc[t] = "idle"
    /\ pc[Main] \notin {"installing", "gone"}
    /\ ~closing
    /\ result = "none"
    /\ Prompt
    /\ \E k \in Kinds : goal' = [goal EXCEPT ![t] = k]
    /\ Goes(t, "calling")
    /\ UNCHANGED <<state, errorSet, lock, worker, thread, started, env, raw, output,
                   closing, result>>

-------------------------------------------------------------------------------
(* The main thread: DoProfile from SetConsoleCtrlHandler on *)

MainInstall ==
    /\ pc[Main] = "installing"
    /\ Goes(Main, "starting")
    /\ UNCHANGED <<state, errorSet, lock, worker, thread, started, env, raw, output,
                   goal, closing, result>>

(* Start creates the worker under m_lock.                                  *)
MainStart ==
    /\ pc[Main] = "starting"
    /\ LockFree
    /\ thread' = "handle"
    /\ worker' = "locking"
    /\ Goes(Main, "resuming")
    /\ UNCHANGED <<state, errorSet, lock, started, env, raw, output, goal, closing,
                   result>>

MainStartFails ==
    /\ pc[Main] = "starting"
    /\ LockFree
    /\ "start" \in Failures
    /\ closing' = TRUE
    /\ Goes(Main, "destroying")
    /\ UNCHANGED <<state, errorSet, lock, worker, thread, started, env, raw, output,
                   goal, result>>

(* Attached, or the started target resumes; otherwise Abort.               *)
MainResume ==
    /\ pc[Main] = "resuming"
    /\ Prompt
    /\ \/ /\ Goes(Main, "polling")
          /\ UNCHANGED goal
       \/ /\ "resume" \in Failures
          /\ goal' = [goal EXCEPT ![Main] = "Aborted"]
          /\ Goes(Main, "calling")
    /\ UNCHANGED <<state, errorSet, lock, worker, thread, started, env, raw, output,
                   closing, result>>

(* Mutation: IsFinished does not look at the targets.                      *)
IsFinishedIgnoresTargets(t) ==
    /\ pc[t] \in {"polling", "destroying"}
    /\ LockFree
    /\ state # "Running"
    /\ lock' = t
    /\ Goes(t, "rechecking")
    /\ UNCHANGED <<state, errorSet, worker, thread, started, env, raw, output, goal,
                   closing, result>>

(* IsFinished, first access of m_state: IsProfiling ().  The answer for a  *)
(* running profile with live targets is no: the poll changes nothing, the  *)
(* destructor goes on to Stop.                                             *)
IsFinishedAsks(t) ==
    /\ pc[t] \in {"polling", "destroying"}
    /\ LockFree
    /\ \/ /\ state # "Running"
          /\ lock' = t
          /\ Goes(t, "rechecking")
          /\ UNCHANGED goal
       \/ /\ state = "Running" /\ targets = "exited"
          /\ lock' = t
          /\ goal' = [goal EXCEPT ![t] = "Finished"]
          /\ Goes(t, "finishing")
       \/ /\ state = "Running" /\ targets = "running"
          /\ closing
          /\ lock' = t
          /\ goal' = [goal EXCEPT ![t] = "Stopped"]
          /\ Goes(t, "calling")
    /\ UNCHANGED <<state, errorSet, worker, thread, started, env, raw, output,
                   closing, result>>

(* IsFinished, second access: "we are not profiling yet", or wait for the  *)
(* worker.  The destructor calls Stop after the first answer.              *)
IsFinishedRechecks(t) ==
    /\ pc[t] = "rechecking"
    /\ IF state = "Unstarted"
         THEN /\ lock' = IF closing THEN t ELSE NoOne
              /\ goal' = [goal EXCEPT ![t] = "Stopped"]
              /\ Goes(t, IF closing THEN "calling" ELSE "polling")
         ELSE /\ Goes(t, "joining")
              /\ UNCHANGED <<lock, goal>>
    /\ UNCHANGED <<state, errorSet, worker, thread, started, env, raw, output,
                   closing, result>>

(* The worker is over.  IsFinished reports m_state, and DoProfile removes  *)
(* the handler; an Abort after a failed resume reports nothing; in the     *)
(* destructor this was the last operation, and ~CombinedETWSession tries   *)
(* to stop a session that is still started.                                *)
MainJoined ==
    /\ Joined(Main)
    /\ lock' = NoOne
    /\ IF closing
         THEN /\ Goes(Main, "gone")
              /\ thread' = "none"
              /\ SessionStop
              /\ UNCHANGED <<closing, result>>
         ELSE /\ Goes(Main, "destroying")
              /\ closing' = TRUE
              /\ result' = IF goal[Main] = "Aborted" THEN result ELSE state
              /\ UNCHANGED <<thread, started, session>>
    /\ UNCHANGED <<state, errorSet, worker, raw, output, goal, targets>>

-------------------------------------------------------------------------------
Killed == \E t \in Handlers : pc[t] = "exiting"
Over   == Killed \/ pc[Main] = "gone"

Environment == TargetsExit \/ StoppedExternally

Profile ==
    \/ ProfileSetUp \/ ProfileSetUpFails
    \/ ProfileAnnounce
    \/ ProfileRelog \/ ProfileRelogFails \/ ProfileCleanUp
    \/ ProfileCheck \/ ProfileDemote \/ ProfileDecide
    \/ ProfileMerge \/ ProfileMergeFails

MainThread ==
    \/ MainInstall
    \/ MainStart \/ MainStartFails
    \/ MainResume
    \/ IsFinishedAsks(Main) \/ IsFinishedRechecks(Main)
    \/ Call(Main) \/ StopSession(Main)
    \/ MainJoined

Handler(t) ==
    \/ Call(t) \/ StopSession(t)
    \/ HandlerReturns(t)
    \/ ProcessExits(t)

Next ==
    \/ /\ ~Over
       /\ \/ Environment
          \/ Profile
          \/ MainThread
          \/ \E t \in Handlers : HandlerStarts(t) \/ Handler(t)
    \/ Over /\ UNCHANGED vars

Spec == Init /\ [][Next]_vars

(* Every thread that can run does run; targets need not exit, events need  *)
(* not come.                                                               *)
Fairness ==
    /\ WF_vars(~Over /\ Profile)
    /\ WF_vars(~Over /\ MainThread)
    /\ \A t \in Handlers : WF_vars(~Over /\ Handler(t))

FairSpec == Spec /\ Fairness

-------------------------------------------------------------------------------
(* Properties *)

(* Types; above all, DoProfile is only ever told a final state, which its  *)
(* switch and the assertion of IsFinished rely on.                         *)
TypeOK ==
    /\ state \in States
    /\ errorSet \in BOOLEAN
    /\ lock \in Callers \cup {Worker, NoOne}
    /\ worker \in WorkerStates
    /\ thread \in {"none", "handle"}
    /\ started \in BOOLEAN
    /\ session \in {"none", "running", "stopped"}
    /\ raw \in BOOLEAN
    /\ output \in BOOLEAN
    /\ pc \in [Callers -> CallerStates]
    /\ goal \in [Callers -> Final]
    /\ closing \in BOOLEAN
    /\ result \in Final \cup {"none"}
    /\ targets \in {"running", "exited"}

(* Profile never ends with m_state at Running or Unstarted (the worker's   *)
(* stateChecker), whoever wrote m_state meanwhile.                         *)
WorkerEndsDecided == worker = "exited" => state \in Final

(* The kernel session does not outlive the worker, the profiler or the     *)
(* process, on any way out of Profile.                                     *)
SessionIsStopped ==
    worker = "exited" \/ Over => session # "running"

(* Whoever waits for the worker, and owns m_lock meanwhile, does not wait  *)
(* for a worker that needs m_lock: the deadlock that ETWProfiler.hpp has   *)
(* two locks for.                                                          *)
WorkerCanFinish ==
    \A t \in Callers : pc[t] = "joining" /\ lock = t =>
        thread = "none" \/ worker \notin {"locking", "cleaning"}

(* Whoever waits for the worker, with m_lock, has stopped the session or   *)
(* found it stopped by whoever wrote the final state, so that relogging    *)
(* ends: IsFinished joins without stopping anything, on the word of        *)
(* m_state alone.                                                          *)
SessionStopsFirst ==
    \A t \in Callers : pc[t] = "joining" =>
        session # "running" \/ worker \notin {"announcing", "relogging"}

(* What the worker reported as an error reaches the user as an error.      *)
ErrorIsReported == result \in Final /\ errorSet => result = "Error"

(* After Ctrl+C the trace is merged, unless there was an error.            *)
StopKeepsTrace ==
    \A t \in Handlers :
        pc[t] = "returned" /\ goal[t] = "Stopped" /\ worker = "exited" => output \/ errorSet

(* The temporary raw trace is gone when the worker is, unless --debug is   *)
(* given or there was an error.                                            *)
RawIsTemporary == worker = "exited" /\ raw => DebugOption \/ errorSet

(* The contract of IProfiler: what DoProfile hears from ETWProfiler is     *)
(* true of the trace and the error that the worker leaves.                 *)
work ==
    IF worker = "off" THEN "none"
    ELSE IF worker # "exited" THEN "running"
    ELSE IF errorSet THEN "failed"
    ELSE IF output THEN "done" ELSE "dropped"

asked == {goal[t] : t \in {h \in Handlers : pc[h] # "idle"}}

Lifecycle == INSTANCE ProfilerLifecycle WITH answer <- result

ImplementsLifecycle == Lifecycle!Spec

(* Stop and Abort come back: the control handler is not stuck.             *)
StopReturns == \A t \in Handlers : pc[t] = "calling" ~> pc[t] = "returned" \/ Over

(* When the targets have exited, DoProfile hears of it.                    *)
ExitEndsProfile == targets = "exited" ~> Over
===============================================================================
