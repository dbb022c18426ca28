-------------------------- MODULE ETLReloggerProfiler --------------------------
(***************************************************************************)
(* The profiler of --emulate (Profiler/ETLReloggerProfiler.cpp): one       *)
(* worker filters an existing trace.  The main thread starts the profiler, *)
(* polls it and destroys it; control handlers call Stop and Abort, which   *)
(* wait for the worker under m_lock.  Each access of m_state is atomic by  *)
(* m_resultLock; an operation that does not wait is atomic by m_lock.      *)
(***************************************************************************)
CONSTANTS
    Main,               \* the thread in DoProfile
    Handlers,           \* console control events, each with a thread of its own
    NoOne,              \* owner of a free m_lock
    Failures,           \* subset of AllFailures that may happen
    Kinds,              \* "Stopped": Ctrl+C, "Aborted": the console is closed
    WorkerIsPrompt,     \* has Profile taken m_lock before an event arrives?
    DebugOption         \* IETWBasedProfiler::Debug keeps the raw trace

(* start: no thread; setup: the relogger or the input; relog, merge.       *)
AllFailures == {"start", "setup", "relog", "merge"}
Callers     == Handlers \cup {Main}
Final       == {"Finished", "Stopped", "Aborted", "Error"}

ASSUME RelogAssumption ==
    /\ Main \notin Handlers
    /\ NoOne \notin Callers
    /\ Failures \subseteq AllFailures
    /\ Kinds \subseteq {"Stopped", "Aborted"}
    /\ WorkerIsPrompt \in BOOLEAN
    /\ DebugOption \in BOOLEAN

VARIABLES
    state,          \* m_state
    errorSet,       \* m_errorFromWorkerThread has a message
    profiling,      \* m_profiling
    handle,         \* m_hWorkerThread is not null
    lock,           \* owner of m_lock
    worker,         \* progress of Profile
    disk,           \* which of the traces "raw" and "output" exist
    pc,             \* progress of each caller
    goal,           \* what a handler asks for
    result          \* what IsFinished told DoProfile

members == <<state, errorSet, profiling, handle>>
vars    == <<members, lock, worker, disk, pc, goal, result>>

Goes(t, where) == pc' = [pc EXCEPT ![t] = where]
LockFree       == lock = NoOne

Init ==
    /\ state = "Unstarted" /\ errorSet = FALSE
    /\ profiling = FALSE /\ handle = FALSE
    /\ lock = NoOne
    /\ worker = "off"
    /\ disk = {}
    /\ pc = [t \in Callers |-> IF t = Main THEN "installing" ELSE "idle"]
    /\ goal = [t \in Handlers |-> "none"]
    /\ result = "none"

-------------------------------------------------------------------------------
(* The worker thread: Profile *)

WorkerOnly == UNCHANGED <<profiling, handle, lock, pc, goal, result>>
Fails(f)   == f \in Failures /\ state' = "Error" /\ errorSet' = TRUE

(* Under m_lock: copy the arguments, make the relogger, open the input.    *)
ProfileSetUp ==
    /\ worker = "locking"
    /\ LockFree
    /\ \/ worker' = "relogging" /\ UNCHANGED <<state, errorSet>>
       \/ worker' = "exited" /\ Fails("setup")
    /\ UNCHANGED disk
    /\ WorkerOnly

(* StartRelogging; its failure leaves what there is of the raw trace.      *)
ProfileRelog ==
    /\ worker = "relogging"
    /\ \/ worker' = "merging" /\ disk' = disk \cup {"raw"} /\ UNCHANGED <<state, errorSet>>
       \/ worker' = "exited" /\ disk' \in SUBSET {"raw"} /\ Fails("relog")
    /\ WorkerOnly

(* MergeTrace, and rawETLDeleter on either way out.                        *)
ProfileMerge ==
    LET kept == IF DebugOption THEN {"raw"} ELSE {} IN
    /\ worker = "merging"
    /\ \/ disk' = kept \cup {"output"} /\ UNCHANGED <<state, errorSet>>
       \/ disk' = kept /\ Fails("merge")
    /\ worker' = "exited"
    /\ WorkerOnly

Profile == ProfileSetUp \/ ProfileRelog \/ ProfileMerge

-------------------------------------------------------------------------------
(* Operations *)

(* Start: the worker is made, and state is set, in one critical section.   *)
MainStart ==
    /\ pc[Main] = "starting"
    /\ LockFree
    /\ \/ /\ ~profiling
          /\ handle' = TRUE /\ profiling' = TRUE /\ state' = "Running"
          /\ worker' = "locking"
          /\ Goes(Main, "polling")
       \/ /\ profiling \/ "start" \in Failures
          /\ Goes(Main, "destroying")
          /\ UNCHANGED <<handle, profiling, state, worker>>
    /\ UNCHANGED <<errorSet, lock, disk, goal, result>>

(* What Stop and Abort leave in m_state.                                   *)
Outcome(k) == state' = IF k = "Stopped" /\ state = "Error" THEN state ELSE k

(* Stop or Abort: StopImpl takes m_lock, and returns at once when nothing  *)
(* is being profiled.                                                      *)
Call(t) ==
    /\ pc[t] = "calling"
    /\ LockFree
    /\ IF profiling
         THEN lock' = t /\ Goes(t, "joining") /\ UNCHANGED state
         ELSE Outcome(goal[t]) /\ Goes(t, "returned") /\ UNCHANGED lock
    /\ UNCHANGED <<errorSet, profiling, handle, worker, disk, goal, result>>

(* Mutation: Stop does not wait for the worker.                            *)
CallReturnsEarly(t) ==
    /\ pc[t] = "joining"
    /\ lock' = NoOne /\ profiling' = FALSE
    /\ Outcome(goal[t])
    /\ Goes(t, "returned")
    /\ UNCHANGED <<errorSet, handle, worker, disk, goal, result>>

(* The worker is over.  The handle stays open.                             *)
CallReturns(t) ==
    /\ pc[t] = "joining"
    /\ worker = "exited"
    /\ lock' = NoOne /\ profiling' = FALSE
    /\ Outcome(goal[t])
    /\ Goes(t, "returned")
    /\ UNCHANGED <<errorSet, handle, worker, disk, goal, result>>

(* Mutation: the poll only asks the thread.                                *)
MainPollsThread ==
    /\ pc[Main] = "polling"
    /\ LockFree
    /\ profiling /\ worker = "exited"
    /\ profiling' = FALSE /\ handle' = FALSE
    /\ state' = IF state \in {"Running", "Unstarted"} THEN "Finished" ELSE state
    /\ result' = state'
    /\ Goes(Main, "destroying")
    /\ UNCHANGED <<errorSet, lock, worker, disk, goal>>

(* IsFinished: a poll that finds the thread at work changes nothing.       *)
MainPolls ==
    /\ pc[Main] = "polling"
    /\ LockFree
    /\ ~profiling \/ worker = "exited"
    /\ IF profiling
         THEN /\ profiling' = FALSE /\ handle' = FALSE
              /\ state' = IF state \in {"Running", "Unstarted"} THEN "Finished" ELSE state
         ELSE UNCHANGED <<profiling, handle, state>>
    /\ result' = state'
    /\ Goes(Main, "destroying")
    /\ UNCHANGED <<errorSet, lock, worker, disk, goal>>

(* DoProfile installs the handler before Start; the destructor takes       *)
(* m_lock.  It finds nothing that is still profiling.                      *)
MainInstalls ==
    /\ pc[Main] = "installing"
    /\ Goes(Main, "starting")
    /\ UNCHANGED <<members, lock, worker, disk, goal, result>>

MainDestroys ==
    /\ pc[Main] = "destroying"
    /\ LockFree
    /\ Goes(Main, "gone")
    /\ UNCHANGED <<members, lock, worker, disk, goal, result>>

(* Events are all of one kind, see the README for a mixture.               *)
HandlerStarts(t) ==
    /\ pc[t] = "idle"
    /\ pc[Main] \in {"starting", "polling"}
    /\ WorkerIsPrompt => worker \notin {"off", "locking"}
    /\ \E k \in Kinds :
        /\ \A u \in Handlers : goal[u] \in {"none", k}
        /\ goal' = [goal EXCEPT ![t] = k]
    /\ Goes(t, "calling")
    /\ UNCHANGED <<members, lock, worker, disk, result>>

(* After Abort, CtrlHandler leaves the event to the default handler.       *)
ProcessExits(t) ==
    /\ pc[t] = "returned"
    /\ goal[t] = "Aborted"
    /\ Goes(t, "exiting")
    /\ UNCHANGED <<members, lock, worker, disk, goal, result>>

Over == pc[Main] = "gone" \/ \E t \in Handlers : pc[t] = "exiting"

MainThread == MainInstalls \/ MainStart \/ MainPolls \/ MainDestroys
Handler(t) == Call(t) \/ CallReturns(t) \/ ProcessExits(t)

Next ==
    \/ ~Over /\ (Profile \/ MainThread \/ \E t \in Handlers : HandlerStarts(t) \/ Handler(t))
    \/ Over /\ UNCHANGED vars

(* Threads that can run do run, and relogging comes to its end.            *)
Spec ==
    /\ Init /\ [][Next]_vars
    /\ WF_vars(~Over /\ Profile) /\ WF_vars(~Over /\ MainThread)
    /\ \A t \in Handlers : WF_vars(~Over /\ Handler(t))

-------------------------------------------------------------------------------
(* Properties *)

(* Types and final answers: DoProfile's switch over the answer is total.   *)
TypeOK ==
    /\ state \in Final \cup {"Unstarted", "Running"}
    /\ errorSet \in BOOLEAN /\ profiling \in BOOLEAN /\ handle \in BOOLEAN
    /\ lock \in Callers \cup {NoOne}
    /\ worker \in {"off", "locking", "relogging", "merging", "exited"}
    /\ disk \subseteq {"raw", "output"}
    /\ pc \in [Callers -> {"installing", "starting", "polling", "destroying", "gone",
                           "idle", "calling", "joining", "returned", "exiting"}]
    /\ goal \in [Handlers -> {"none", "Stopped", "Aborted"}]
    /\ result \in Final \cup {"none"}

(* Stop and Abort own m_lock while they wait: the worker must not need it. *)
WorkerCanFinish ==
    \A t \in Handlers : pc[t] = "joining" => lock = t /\ worker \notin {"off", "locking"}

(* What Start, the worker, Stop and the poll write to m_state without an   *)
(* order between them never hides an error of the worker.                  *)
ErrorIsKept ==
    errorSet /\ worker = "exited" =>
        \/ state = "Error"
        \/ state = "Aborted" /\ \E t \in Handlers : goal[t] = "Aborted"

(* When nobody profiles any more, the worker does not touch the members:   *)
(* the destructor, which joins only a profiling profiler, is safe.         *)
NoOrphan == pc[Main] \in {"destroying", "gone"} => worker \in {"off", "exited"}

(* The raw trace is temporary but after --debug or an error of relogging.  *)
RawIsTemporary == worker = "exited" /\ "raw" \in disk => DebugOption \/ errorSet

(* The poll of DoProfile ends in an answer, whatever the handlers do       *)
(* meanwhile, unless one of them ends the process first.                   *)
PollEnds == pc[Main] = "polling" ~> Over

(* The contract of IProfiler.                                              *)
Lifecycle == INSTANCE ProfilerLifecycle WITH
    work   <- CASE worker = "off" -> "none"
                [] worker = "exited" /\ errorSet -> "failed"
                [] worker = "exited" /\ ~errorSet -> "done"
                [] OTHER -> "running",
    asked  <- {goal[t] : t \in Handlers} \ {"none"},
    answer <- result

ImplementsLifecycle == Lifecycle!Spec
===============================================================================
