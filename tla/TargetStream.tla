----------------------------- MODULE TargetStream -----------------------------
(***************************************************************************)
(* The targets of a profile with --children --waitchildren.  Processes     *)
(* start and exit on the machine; the kernel logger tells of it in order   *)
(* but later, in events of pids; FilterProcessEvent passes the targets on  *)
(* to ETWProfiler, which opens them by pid, waits for them in a group, and *)
(* ends the profile when none is left.  The stream also has the stack      *)
(* walks of the cache (--scache): references to keys, and their            *)
(* definitions, which come later and for all processes at once.            *)
(***************************************************************************)
EXTENDS Naturals, Sequences, FiniteSets

CONSTANTS
    Procs,          \* the processes there ever are
    NoProc,         \* the parent that the machine has always had
    Pids, NoPid,    \* their ids; the id of a process that has not started
    Originals,      \* m_originalTargets, open throughout
    OriginalPid,    \* their ids
    Keys,           \* keys of the kernel's stack cache
    MaxPending      \* bound on the events under way

ASSUME StreamAssumption ==
    /\ Originals \subseteq Procs /\ Originals # {}
    /\ NoProc \notin Procs
    /\ NoPid \notin Pids
    /\ OriginalPid \in [Originals -> Pids]
    /\ \A p, q \in Originals : OriginalPid[p] = OriginalPid[q] => p = q
    /\ MaxPending \in Nat

VARIABLES
    life, pidOf,    \* the machine's processes
    ours,           \* the originals and what they have started, transitively
    cached,         \* the kernel's stack cache
    queue,          \* events that the session has not delivered yet
    targetPIDs, stackKeys,  \* ProfileFilterData
    owed,           \* keys in the trace without their definition
    additional,     \* m_additionalTargets: processes of which we hold a handle
    done,           \* the additional ones whose exit has been noticed
    missed,         \* live processes that could not be opened when last tried;
                    \* the program forgets them, only the properties use it
    originalsDone,  \* the originals whose exit has been noticed
    finished        \* IsFinished has found that the targets have exited

machine == <<life, pidOf, ours, cached>>
filter  == <<targetPIDs, stackKeys, owed>>
groups  == <<additional, done, missed, originalsDone>>
vars    == <<machine, queue, filter, groups, finished>>

Group == INSTANCE ProcessGroup WITH
    Pids <- Procs, members <- additional, signaled <- done = additional

Alive      == {p \in Procs : life[p] = "alive"}
InUse(p)   == p \in Alive \cup additional \cup (Originals \cap {q \in Procs : life[q] = "dead"})
Holder(id) == {p \in Procs : pidOf[p] = id /\ InUse(p)}
Logs(e)    == Len(queue) < MaxPending /\ queue' = Append(queue, e)

Init ==
    /\ life = [p \in Procs |-> IF p \in Originals THEN "alive" ELSE "unborn"]
    /\ pidOf = [p \in Procs |-> IF p \in Originals THEN OriginalPid[p] ELSE NoPid]
    /\ ours = Originals
    /\ cached = {} /\ queue = <<>>
    /\ targetPIDs = {pidOf[p] : p \in Originals}
    /\ stackKeys = {} /\ owed = {}
    /\ additional = {} /\ done = {} /\ missed = {} /\ originalsDone = {}
    /\ finished = FALSE

-------------------------------------------------------------------------------
(* The machine and its events; proc is for the reader, the code has pids *)

ProcessStarts(p, parent) ==
    /\ life[p] = "unborn"
    /\ life' = [life EXCEPT ![p] = "alive"]
    /\ \E id \in Pids :
        /\ Holder(id) = {}
        /\ pidOf' = [pidOf EXCEPT ![p] = id]
        /\ Logs([op |-> "PStart", pid |-> id, proc |-> p,
                 from |-> IF parent = NoProc THEN NoPid ELSE pidOf[parent]])
    /\ ours' = IF parent \in ours THEN ours \cup {p} ELSE ours
    /\ UNCHANGED <<cached, filter, groups, finished>>

ProcessExits(p) ==
    /\ life[p] = "alive"
    /\ life' = [life EXCEPT ![p] = "dead"]
    /\ Logs([op |-> "PEnd", pid |-> pidOf[p], proc |-> p])
    /\ missed' = missed \ {p}
    /\ UNCHANGED <<pidOf, ours, cached, filter, additional, done, originalsDone, finished>>

(* A sample: its stack goes to the cache, and leaves it when it likes.     *)
StackIsWalked(p, k) ==
    /\ life[p] = "alive"
    /\ cached' = cached \cup {k}
    /\ Logs([op |-> "StackKey", pid |-> pidOf[p], key |-> k])
    /\ UNCHANGED <<life, pidOf, ours, filter, groups, finished>>

StackIsDefined(k) ==
    /\ k \in cached
    /\ cached' = cached \ {k}
    /\ Logs([op |-> "StackWalkKey", key |-> k])
    /\ UNCHANGED <<life, pidOf, ours, filter, groups, finished>>

-------------------------------------------------------------------------------
(* The filter, one event at a time, and ETWProfiler as its observer *)

(* The process may be gone, or another one have its pid.  Whoever has it,  *)
(* OpenProcess may be refused, or the name may be too long to be asked     *)
(* for: ProcessStarted swallows each InitException.  (In the second case   *)
(* the handle leaks; the pid then is one that Windows gives to nobody.)    *)
ProcessStarted(pid) ==
    /\ \/ \E p \in Holder(pid) : Group!Add({p}) /\ missed' = missed \ {p}
       \/ missed' = missed \cup (Holder(pid) \cap Alive) /\ UNCHANGED <<additional, done>>
    /\ UNCHANGED originalsDone

(* Mutation: the end of a process is left to the handle.                   *)
ProcessEndedIgnored(pid) == UNCHANGED groups

ProcessEnded(pid) ==
    IF \E p \in additional : pidOf[p] = pid
      THEN (\E p \in additional : pidOf[p] = pid /\ Group!Delete(p))
           /\ UNCHANGED <<missed, originalsDone>>
      ELSE UNCHANGED groups

(* Mutation: only the children of the originals are targets.               *)
FilterProcessEventShallow(e) ==
    /\ UNCHANGED <<stackKeys, owed>>
    /\ IF e.op = "PStart" /\ e.from \in {pidOf[p] : p \in Originals}
         THEN targetPIDs' = targetPIDs /\ ProcessStarted(e.pid)
       ELSE IF e.op = "PEnd" /\ e.pid \in targetPIDs
         THEN targetPIDs' = targetPIDs \ {e.pid} /\ ProcessEnded(e.pid)
       ELSE UNCHANGED <<targetPIDs, groups>>

FilterProcessEvent(e) ==
    /\ UNCHANGED <<stackKeys, owed>>
    /\ IF e.op = "PStart" /\ (e.pid \in targetPIDs \/ e.from \in targetPIDs)
         THEN targetPIDs' = targetPIDs \cup {e.pid} /\ ProcessStarted(e.pid)
       ELSE IF e.op = "PEnd" /\ e.pid \in targetPIDs
         THEN targetPIDs' = targetPIDs \ {e.pid} /\ ProcessEnded(e.pid)
       ELSE UNCHANGED <<targetPIDs, groups>>

(* Mutation: a key is forgotten when somebody else uses it.                *)
FilterStackWalkEventShared(e) ==
    /\ UNCHANGED <<targetPIDs, groups>>
    /\ IF e.op = "StackKey"
         THEN IF e.pid \in targetPIDs
                THEN stackKeys' = stackKeys \cup {e.key} /\ owed' = owed \cup {e.key}
                ELSE stackKeys' = stackKeys \ {e.key} /\ UNCHANGED owed
       ELSE /\ stackKeys' = stackKeys \ {e.key}
            /\ owed' = IF e.key \in stackKeys THEN owed \ {e.key} ELSE owed

(* What is kept goes to the trace: a reference owes it the definition.     *)
FilterStackWalkEvent(e) ==
    /\ UNCHANGED <<targetPIDs, groups>>
    /\ IF e.op = "StackKey"
         THEN IF e.pid \in targetPIDs
                THEN stackKeys' = stackKeys \cup {e.key} /\ owed' = owed \cup {e.key}
                ELSE UNCHANGED <<stackKeys, owed>>
       ELSE /\ stackKeys' = stackKeys \ {e.key}
            /\ owed' = IF e.key \in stackKeys THEN owed \ {e.key} ELSE owed

FilterEvent ==
    /\ queue # <<>>
    /\ queue' = Tail(queue)
    /\ IF Head(queue).op \in {"PStart", "PEnd"}
         THEN FilterProcessEvent(Head(queue)) ELSE FilterStackWalkEvent(Head(queue))
    /\ UNCHANGED <<machine, finished>>

-------------------------------------------------------------------------------
(* The groups notice exits; DoProfile polls *)

ExitIsNoticed(p) ==
    /\ life[p] = "dead"
    /\ \/ Group!Finish(p) /\ UNCHANGED originalsDone
       \/ /\ p \in Originals \ originalsDone
          /\ originalsDone' = originalsDone \cup {p}
          /\ UNCHANGED <<additional, done>>
    /\ UNCHANGED <<machine, queue, filter, missed, finished>>

(* Mutation: the additional targets are not asked for.                     *)
OriginalsOnly == originalsDone = Originals

HaveAllTargetProcessesExited == originalsDone = Originals /\ done = additional

IsFinished ==
    /\ HaveAllTargetProcessesExited
    /\ finished' = TRUE
    /\ UNCHANGED <<machine, queue, filter, groups>>

Next ==
    \/ /\ ~finished
       /\ \/ \E p \in Procs :
               \/ \E parent \in Alive \cup {NoProc} : ProcessStarts(p, parent)
               \/ ProcessExits(p)
               \/ \E k \in Keys : StackIsWalked(p, k)
          \/ \E k \in Keys : StackIsDefined(k)
          \/ FilterEvent
          \/ \E p \in Procs : ExitIsNoticed(p)
          \/ IsFinished
    \/ finished /\ UNCHANGED vars

(* Events are delivered, callbacks run (ExitIsNoticed of                   *)
(* WaitableProcessGroup), DoProfile polls.                                 *)
Spec ==
    /\ Init /\ [][Next]_vars
    /\ WF_vars(~finished /\ FilterEvent)
    /\ \A p \in Procs : WF_vars(~finished /\ ExitIsNoticed(p))
    /\ WF_vars(~finished /\ IsFinished)

-------------------------------------------------------------------------------
(* Properties *)

(* Types; done and what it is a part of.                                   *)
TypeOK ==
    /\ life \in [Procs -> {"unborn", "alive", "dead"}]
    /\ pidOf \in [Procs -> Pids \cup {NoPid}]
    /\ Originals \subseteq ours /\ ours \subseteq Procs
    /\ targetPIDs \subseteq Pids
    /\ stackKeys \subseteq Keys /\ owed \subseteq Keys
    /\ done \subseteq additional /\ additional \subseteq Procs
    /\ missed \subseteq Procs
    /\ originalsDone \subseteq Originals
    /\ finished \in BOOLEAN

(* Once the events have come, the profile waits for its live children but  *)
(* those that could not be opened, and for nobody else, whatever the pids  *)
(* have meant in between.                                                  *)
GroupIsCurrent == queue = <<>> => additional = (Alive \cap ours) \ (Originals \cup missed)

(* ProcessStarted never adds a pid that the group has: Add asserts it.     *)
AddIsNew ==
    queue # <<>> /\ Head(queue).op = "PStart" /\ Head(queue).from \in targetPIDs =>
        \A p \in additional \cup Originals : pidOf[p] # Head(queue).pid

(* The profile ends over a live child only if it could not be opened when  *)
(* its start was told of (ProcessStarted), or its start was still to come. *)
EarlyEndIsUnseen ==
    finished => \A p \in (Alive \cap ours) \ missed : \E i \in DOMAIN queue :
                    queue[i].op = "PStart" /\ queue[i].proc = p

(* A key in the trace has its definition there, or it is still to come and *)
(* will be kept.                                                           *)
StacksAreDefined ==
    /\ owed \subseteq stackKeys
    /\ \A k \in owed : k \in cached \/ \E i \in DOMAIN queue :
            queue[i].op = "StackWalkKey" /\ queue[i].key = k

(* The profile ends when the originals and their offspring have exited.    *)
ExitEndsProfile == ours \cap Alive = {} ~> finished
===============================================================================
