------------------------------ MODULE EventFilter ------------------------------
(***************************************************************************)
(* ProfileEventFilter and ThreadRegistry (Profiler/ProfilerCommon.cpp): the *)
(* relogger hands every kernel event of the machine to FilterEvent, which  *)
(* keeps those of the profiled processes and of their threads.             *)
(*                                                                         *)
(* The machine is the environment: processes and threads start and end,    *)
(* their ids are used again, and each of these events is one step together *)
(* with what the filter does about it.  Events come in time order, from a  *)
(* single thread.  Samples, context switches, image loads and user events  *)
(* change nothing in the filter; Keeps... says which ones it lets through. *)
(***************************************************************************)
EXTENDS Naturals

CONSTANTS
    Pids,               \* process ids
    Tids,               \* thread ids
    NoPid,              \* owner of a thread id that is free
    Originals,          \* the processes that profiling started with
    ProfileChildren,    \* IETWBasedProfiler::ProfileChildren
    Grace,              \* 1_tsec, in ticks of the clock
    MaxTime,            \* bound on the clock
    NoTick              \* a thread that is not marked for deletion

ASSUME PidsAssumption  == NoPid \notin Pids /\ Originals \subseteq Pids
ASSUME TimeAssumption  == /\ Grace \in Nat \ {0}
                          /\ MaxTime \in Nat
                          /\ NoTick \notin Nat
ASSUME ModeAssumption == ProfileChildren \in BOOLEAN

VARIABLES
    live,           \* the machine: processes that run
    owner,          \* the machine: the process of each thread
    clock,          \* the machine: GetTickCount
    unannounced,    \* threads whose TDCStart event has not come yet
    ours,           \* the processes to profile, as the user means it
    ourThreads,     \* their threads that run
    past,           \* ids that threads of such processes have had
    ended,          \* when the first known such thread with an id ended
    targetPIDs,     \* ProfileFilterData::targetPIDs
    threads,        \* ThreadRegistry::m_threadIDs
    marks           \* ThreadRegistry::m_threadIDsMarkedForDeletion

machine == <<live, owner, clock, unannounced>>
truth   == <<ours, ourThreads, past, ended>>
filter  == <<targetPIDs, threads, marks>>
vars    == <<live, owner, clock, unannounced, ours, ourThreads, past, ended,
             targetPIDs, threads, marks>>

Ticks == (0..MaxTime) \cup {NoTick}

Init ==
    /\ live \in SUBSET Pids
    /\ Originals \subseteq live
    /\ owner \in [Tids -> live \cup {NoPid}]
    /\ clock = 0
    /\ unannounced = {t \in Tids : owner[t] # NoPid}
    /\ ours = Originals
    /\ ourThreads = {t \in Tids : owner[t] \in Originals}
    /\ past = {}
    /\ ended = [t \in Tids |-> NoTick]
    /\ targetPIDs = Originals
    /\ threads = {}
    /\ marks = [t \in Tids |-> NoTick]

-------------------------------------------------------------------------------
(* The filter *)

(* Mutation: the threshold is put on the wrong side.                       *)
ExpiredAtOnce == {t \in Tids : marks[t] # NoTick /\ clock + Grace >= marks[t]}

(* DeleteThreadsMarkedForDeletion (1_tsec): the marks that are old enough. *)
Expired == {t \in Tids : marks[t] # NoTick /\ clock >= marks[t] + Grace}

(* Mutation: an id that another process gets is kept.                      *)
ThreadStartsForeignKept(t, p) ==
    IF p \in targetPIDs
      THEN /\ threads' = (threads \ Expired) \cup {t}
           /\ marks' = [u \in Tids |-> IF u \in Expired THEN NoTick ELSE marks[u]]
      ELSE UNCHANGED <<threads, marks>>

(* TStart of a profiled process cleans up, then adds.  Neither Add nor a   *)
(* second MarkForDeletion (insert) touches a mark that is there.           *)
ThreadStarts(t, p) ==
    IF p \in targetPIDs
      THEN /\ threads' = (threads \ Expired) \cup {t}
           /\ marks' = [u \in Tids |-> IF u \in Expired THEN NoTick ELSE marks[u]]
      ELSE /\ threads' = threads \ {t}
           /\ marks' = [marks EXCEPT ![t] = IF t \in threads THEN NoTick ELSE marks[t]]

(* Mutation: threads that exist when the session starts are not added.     *)
ThreadExistsUnnoticed(t, p) == UNCHANGED <<threads, marks>>

(* TDCStart adds, and does not clean up.                                   *)
ThreadExists(t, p) ==
    /\ threads' = IF p \in targetPIDs THEN threads \cup {t} ELSE threads
    /\ UNCHANGED marks

(* TEnd marks the thread; MarkForDeletion keeps the mark that is there.    *)
ThreadEnds(t, p) ==
    /\ marks' = IF p \in targetPIDs /\ marks[t] = NoTick
                  THEN [marks EXCEPT ![t] = clock] ELSE marks
    /\ UNCHANGED threads

ProcessStarts(p, parent) ==
    targetPIDs' = IF ProfileChildren /\ parent \in targetPIDs
                    THEN targetPIDs \cup {p} ELSE targetPIDs

(* Mutation: a process that has ended is still a target.                   *)
ProcessEndsUnnoticed(p) == targetPIDs' = targetPIDs

ProcessEnds(p) == targetPIDs' = targetPIDs \ {p}

(* Samples of a thread, switches between two, events of a process.         *)
KeepsSample(t)           == t \in threads
KeepsSwitch(old, new)    == old \in threads \/ new \in threads
KeepsEventOf(p)          == p \in targetPIDs

-------------------------------------------------------------------------------
(* The machine *)

Tick ==
    /\ clock < MaxTime
    /\ clock' = clock + 1
    /\ UNCHANGED <<live, owner, unannounced, truth, filter>>

(* The rundown at the start of the session tells of each existing thread;  *)
(* one that is heard of only after the end of its process does not count.  *)
TDCStart(t) ==
    /\ t \in unannounced
    /\ unannounced' = unannounced \ {t}
    /\ ourThreads' = IF owner[t] \in ours THEN ourThreads ELSE ourThreads \ {t}
    /\ ThreadExists(t, owner[t])
    /\ UNCHANGED <<live, owner, clock, ours, past, ended, targetPIDs>>

TStart(t, p) ==
    /\ owner[t] = NoPid
    /\ p \in live
    /\ owner' = [owner EXCEPT ![t] = p]
    /\ ourThreads' = IF p \in ours THEN ourThreads \cup {t} ELSE ourThreads
    /\ ended' = [ended EXCEPT ![t] = NoTick]
    /\ ThreadStarts(t, p)
    /\ UNCHANGED <<live, clock, unannounced, ours, past, targetPIDs>>

TEnd(t) ==
    /\ owner[t] # NoPid
    /\ owner' = [owner EXCEPT ![t] = NoPid]
    /\ unannounced' = unannounced \ {t}
    /\ ourThreads' = ourThreads \ {t}
    /\ past' = IF t \in ourThreads THEN past \cup {t} ELSE past
    /\ ended' = [ended EXCEPT ![t] =
                    IF t \in ourThreads \ (unannounced \cup past) THEN clock ELSE NoTick]
    /\ ThreadEnds(t, owner[t])
    /\ UNCHANGED <<live, clock, ours, targetPIDs>>

(* A process id is free when the process and its threads are gone.         *)
PStart(p, parent) ==
    /\ p \notin live
    /\ \A t \in Tids : owner[t] # p
    /\ parent \in live
    /\ live' = live \cup {p}
    /\ ours' = IF ProfileChildren /\ parent \in ours THEN ours \cup {p} ELSE ours
    /\ ProcessStarts(p, parent)
    /\ UNCHANGED <<owner, clock, unannounced, ourThreads, past, ended, threads, marks>>

(* The end of the process may be reported before that of its last thread.  *)
PEnd(p) ==
    /\ p \in live
    /\ \A t, u \in Tids : owner[t] = p /\ owner[u] = p => t = u
    /\ live' = live \ {p}
    /\ ours' = ours \ {p}
    /\ ProcessEnds(p)
    /\ UNCHANGED <<owner, clock, unannounced, ourThreads, past, ended, threads, marks>>

Next ==
    \/ Tick
    \/ \E t \in Tids : TDCStart(t) \/ TEnd(t)
    \/ \E t \in Tids, p \in Pids : TStart(t, p)
    \/ \E p \in Pids : PEnd(p)
    \/ \E p, parent \in Pids : PStart(p, parent)

Spec == Init /\ [][Next]_vars

-------------------------------------------------------------------------------
(* Properties *)

TypeOK ==
    /\ live \subseteq Pids
    /\ owner \in [Tids -> Pids \cup {NoPid}]
    /\ clock \in 0..MaxTime
    /\ unannounced \subseteq Tids
    /\ ours \subseteq Pids
    /\ ourThreads \subseteq Tids
    /\ past \subseteq Tids
    /\ ended \in [Tids -> Ticks]
    /\ targetPIDs \subseteq Pids
    /\ threads \subseteq Tids
    /\ marks \in [Tids -> Ticks]

(* Which processes are profiled: the originals and, if asked for, their    *)
(* descendants, as long as they run; a process that reuses a pid is not.   *)
TargetsAreExact == \A p \in Pids : KeepsEventOf(p) <=> p \in ours

(* No sample of a foreign thread and no switch between two of them gets    *)
(* into the trace, although other processes are given the ids of profiled  *)
(* threads.                                                                *)
Foreign == {t \in Tids : owner[t] # NoPid /\ t \notin ourThreads}
NoForeignEvent ==
    \A t, u \in Foreign : ~KeepsSample(t) /\ ~KeepsSwitch(t, u)

(* Every sample of a profiled thread gets into the trace, from the first   *)
(* event that tells of the thread on, as long as the thread runs.          *)
NoSampleLost == \A t \in ourThreads \ unannounced : KeepsSample(t)

(* What holds of that: no sample of a thread is lost whose id no profiled  *)
(* thread has had before it.                                               *)
NoFreshSampleLost == \A t \in ourThreads \ (unannounced \cup past) : KeepsSample(t)

(* Events that come late are kept for a second after the end of a thread,  *)
(* unless its id has been given away.  Again the id must be a fresh one.   *)
LateSamplesKept ==
    \A t \in Tids :
        owner[t] = NoPid /\ ended[t] # NoTick /\ clock < ended[t] + Grace => KeepsSample(t)
===============================================================================
