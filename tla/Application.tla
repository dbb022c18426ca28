------------------------------ MODULE Application ------------------------------
(***************************************************************************)
(* Application::DoProfile: from the targets, which are found or started,   *)
(* to the trace, which is compressed, with its way out at every step.  It  *)
(* uses a profiler that is known by the contract of IProfiler alone.  The  *)
(* machine is the environment: processes start and exit, a pid is free     *)
(* again when its process has exited and no handle to it is open.          *)
(***************************************************************************)
EXTENDS Naturals, FiniteSets

CONSTANTS
    Procs,          \* the processes there ever are
    Pids,           \* their ids
    NoPid,          \* the id of a process that has not been started
    Named,          \* the processes that have the target's name
    TargetPid,      \* the target, when it is given by its id
    Handlers,       \* console control events, each with a thread of its own
    Modes           \* ways to give the target: subset of AllModes

AllModes == {"pid", "name", "start", "emulate"}

ASSUME ApplicationAssumption ==
    /\ NoPid \notin Pids
    /\ Named \subseteq Procs
    /\ TargetPid \in Pids
    /\ Modes \subseteq AllModes

VARIABLES
    args,           \* m_args: mode, sevenZip; and animated: the output is a console
    life, pidOf,    \* the machine's processes
    open,           \* our open handles: who keeps it, and the process
    found,          \* pids of the snapshot that are still to be opened
    chosen,         \* the processes that we have got hold of as targets
    armed,          \* suspendedTargetKiller has a process to kill
    pc,             \* progress of DoProfile
    made,           \* m_pProfiler is not null
    installed,      \* CtrlHandler is
    handler, kind,  \* progress of each control event, and what it asks for
    work, asked, answer,    \* the profiler, see ProfilerLifecycle
    heeded,         \* a Stop or Abort has come while it was running
    feedback,       \* ProgressFeedback, and the last line on the screen
    disk,           \* "etl": the trace; "7z": it, compressed; "old": what was there
    result          \* what DoProfile returns

machine  == <<life, pidOf>>
targets  == <<open, found, chosen, armed>>
events   == <<installed, handler, kind>>
profiler == <<made, work, asked, answer, heeded>>
output   == <<feedback, disk>>
vars     == <<args, machine, targets, pc, events, profiler, output, result>>

Profiler == INSTANCE ProfilerLifecycle

Attaches     == args.mode \in {"pid", "name"}
Alive        == {p \in Procs : life[p] = "alive"}
Kept(by)     == {p \in Procs : <<by, p>> \in open}
Holder(id)   == {p \in Procs : pidOf[p] = id /\ (life[p] # "dead" \/ \E h \in open : h[2] = p)}
PidInUse(id) == Holder(id) # {}
Over         == pc \in {"gone", "killed"}
Goes(where)  == pc' = where /\ UNCHANGED result
Returns(r)   == pc' = "leaving" /\ result' = r

Init ==
    /\ args \in [mode : Modes, sevenZip : BOOLEAN, animated : BOOLEAN]
    /\ life \in [Procs -> {"unborn", "alive"}]
    /\ Attaches \/ Alive = {}
    /\ pidOf \in [Procs -> Pids \cup {NoPid}]
    /\ \A p \in Procs : pidOf[p] = NoPid <=> life[p] = "unborn"
    /\ \A p, q \in Alive : pidOf[p] = pidOf[q] => p = q
    /\ open = {} /\ found = {} /\ chosen = {} /\ armed = FALSE
    /\ pc = CASE args.mode = "start" -> "creating"
              [] args.mode = "emulate" -> "constructing"
              [] OTHER -> "snapshot"
    /\ made = FALSE /\ installed = FALSE
    /\ handler = [h \in Handlers |-> "idle"]
    /\ kind = [h \in Handlers |-> "none"]
    /\ Profiler!Init /\ heeded = FALSE
    /\ feedback = [state |-> "Running", printed |-> FALSE, line |-> "", ended |-> TRUE]
    /\ disk \in SUBSET {"old"} /\ (disk = {} \/ args.sevenZip)
    /\ result = "none"

-------------------------------------------------------------------------------
(* The machine: with a started target, or once the profiler has its        *)
(* targets, the other processes do not matter.                             *)

ProcessStarts(p) ==
    /\ Attaches /\ ~made
    /\ life[p] = "unborn"
    /\ \E id \in Pids : ~PidInUse(id) /\ pidOf' = [pidOf EXCEPT ![p] = id]
    /\ life' = [life EXCEPT ![p] = "alive"]
    /\ UNCHANGED <<args, targets, pc, events, profiler, output, result>>

ProcessExits(p) ==
    /\ life[p] = "alive"
    /\ made => p \in Kept("profiler")
    /\ life' = [life EXCEPT ![p] = "dead"]
    /\ UNCHANGED <<args, pidOf, targets, pc, events, profiler, output, result>>

-------------------------------------------------------------------------------
(* ProcessRef *)

(* ProcessRef (pid, options): OpenProcess may fail, or the query of the    *)
(* image name; the destructor does not run then, and the handle stays.     *)
Opens(id, by, p) == p \in Holder(id) /\ open' = open \cup {<<by, p>>}
OpenFails(id)    == open' \in {open} \cup {open \cup {<<"leaked", p>>} : p \in Holder(id)}

(* CreateProcessImpl with CREATE_SUSPENDED, then SuspendedProcessRef's     *)
(* constructor, which leaks what it was given when it throws.              *)
CreatesSuspended(p, by) ==
    /\ life[p] = "unborn"
    /\ \E id \in Pids : ~PidInUse(id) /\ pidOf' = [pidOf EXCEPT ![p] = id]
    /\ life' = [life EXCEPT ![p] = "suspended"]
    /\ open' = open \cup {<<by, p>>}

Closes(keepers) == open' = {h \in open : h[1] \notin keepers}
Terminates(ps)  == life' = [p \in Procs |-> IF p \in ps THEN "dead" ELSE life[p]]

(* SuspendedProcessRef::Resume; the ProcessRef it returns is dropped.      *)
Resumes(ps) ==
    /\ life' = [p \in Procs |-> IF p \in ps THEN "alive" ELSE life[p]]
    /\ Closes({"started"})

-------------------------------------------------------------------------------
(* DoProfile: the targets *)

StartTarget ==
    /\ pc = "creating"
    /\ \/ Returns("false") /\ UNCHANGED <<machine, targets>>
       \/ \E p \in Procs :
            /\ CreatesSuspended(p, "leaked")
            /\ Returns("false")
            /\ UNCHANGED <<found, chosen, armed>>
       \/ \E p \in Procs :
            /\ CreatesSuspended(p, "started")
            /\ chosen' = {p} /\ armed' = TRUE
            /\ Goes("constructing")
            /\ UNCHANGED found
    /\ UNCHANGED <<args, events, profiler, output>>

(* ProcessList (), Contains (pid) and GetAll (name).                       *)
GetTargets ==
    /\ pc = "snapshot"
    /\ \/ Returns("false") /\ UNCHANGED found
       \/ /\ found' = {pidOf[p] : p \in {q \in Alive : IF args.mode = "pid"
                                                         THEN pidOf[q] = TargetPid
                                                         ELSE q \in Named}}
          /\ IF found' = {} THEN Returns("false") ELSE Goes("opening")
    /\ UNCHANGED <<args, machine, open, chosen, armed, events, profiler, output>>

(* Mutation: only the pids are handed on, the handle is closed again.      *)
OpenTargetCloses(id) ==
    /\ pc = "opening"
    /\ id \in found
    /\ found' = found \ {id}
    /\ \E p \in Holder(id) : chosen' = chosen \cup {p}
    /\ Goes("opening")
    /\ UNCHANGED <<args, machine, open, armed, events, profiler, output>>

(* One pid of the snapshot: a target by name may be gone, one by pid not.  *)
OpenTarget(id) ==
    /\ pc = "opening"
    /\ id \in found
    /\ found' = found \ {id}
    /\ \/ \E p \in Procs : Opens(id, "group", p) /\ chosen' = chosen \cup {p} /\ Goes("opening")
       \/ /\ OpenFails(id)
          /\ IF args.mode = "pid" THEN Returns("false") ELSE Goes("opening")
          /\ UNCHANGED chosen
    /\ UNCHANGED <<args, machine, armed, events, profiler, output>>

TargetsAreFound ==
    /\ pc = "opening"
    /\ found = {}
    /\ IF chosen = {} THEN Returns("false") ELSE Goes("constructing")
    /\ UNCHANGED <<args, machine, targets, events, profiler, output>>

-------------------------------------------------------------------------------
(* DoProfile: the profile *)

(* ETWProfiler's constructor opens its targets once more, by pid.          *)
Watches(pids) ==
    \E watch \in SUBSET Procs :
        /\ {pidOf[p] : p \in watch} = pids
        /\ \A p \in watch : p \in Holder(pidOf[p])
        /\ \A p, q \in watch : pidOf[p] = pidOf[q] => p = q
        /\ open' = open \cup {<<"profiler", p>> : p \in watch}

(* AddProfilePrivilegeToProcessToken, and the checks of the constructor.   *)
MainIsNotPrivileged ==
    /\ pc = "constructing" /\ args.mode # "emulate"
    /\ Returns("false")
    /\ UNCHANGED <<args, machine, targets, events, profiler, output>>

(* The constructor may fail at any target.  Then EnableProvider and the    *)
(* minidumps, which only warn.                                             *)
MainConstructs ==
    /\ pc = "constructing"
    /\ \/ /\ Watches({pidOf[p] : p \in chosen})
          /\ made' = TRUE
          /\ Goes("installing")
       \/ /\ \/ UNCHANGED open
             \/ \E p \in chosen : OpenFails(pidOf[p])
          /\ Returns("false")
          /\ UNCHANGED made
    /\ UNCHANGED <<args, machine, found, chosen, armed, events, work, asked, answer, heeded,
                   output>>

MainInstalls ==
    /\ pc = "installing"
    /\ \/ installed' = TRUE /\ Goes("starting")
       \/ Returns("false") /\ UNCHANGED installed
    /\ UNCHANGED <<args, machine, targets, handler, kind, profiler, output>>

MainStarts ==
    /\ pc = "starting"
    /\ \/ /\ Profiler!Begin
          /\ Goes(IF args.mode = "start" THEN "resuming" ELSE "polling")
       \/ Returns("false") /\ UNCHANGED <<work, asked, answer>>
    /\ UNCHANGED <<args, machine, targets, events, made, heeded, output>>

(* Mutations: the killer is deactivated too early; the profiler is left    *)
(* alone when the target is.                                               *)
MainResumesUnguarded ==
    /\ pc = "resuming"
    /\ armed' = FALSE
    /\ \/ /\ life' = [p \in Procs |-> IF life[p] = "suspended" THEN "alive" ELSE life[p]]
          /\ Goes("polling") /\ UNCHANGED <<asked, heeded>>
       \/ Profiler!Ask("Aborted") /\ heeded' = TRUE /\ Goes("aborting") /\ UNCHANGED life
    /\ UNCHANGED <<args, pidOf, open, found, chosen, events, made, work, answer, output>>

MainResumesOrLeaves ==
    /\ pc = "resuming"
    /\ \/ /\ life' = [p \in Procs |-> IF p \in chosen THEN "alive" ELSE life[p]]
          /\ armed' = FALSE /\ Goes("polling")
       \/ Returns("false") /\ UNCHANGED <<life, armed>>
    /\ UNCHANGED <<args, pidOf, open, found, chosen, events, profiler, output>>

(* When Resume throws, the target still is suspended, and will be killed.  *)
MainResumes ==
    /\ pc = "resuming"
    /\ \/ /\ Resumes(chosen)
          /\ armed' = FALSE
          /\ Goes("polling")
          /\ UNCHANGED <<asked, heeded>>
       \/ /\ Profiler!Ask("Aborted") /\ heeded' = TRUE
          /\ Goes("aborting")
          /\ UNCHANGED <<life, open, armed>>
    /\ UNCHANGED <<args, pidOf, found, chosen, events, made, work, answer, output>>

(* Abort returns when the profiler's worker is over.                       *)
MainAborts ==
    /\ pc = "aborting"
    /\ work # "running"
    /\ Returns("false")
    /\ UNCHANGED <<args, machine, targets, events, profiler, output>>

-------------------------------------------------------------------------------
(* ProgressFeedback; Static style prints a state that is new, and ends its *)
(* line at once.                                                           *)

PrintProgress(f) ==
    IF ~args.animated /\ f.printed THEN f
    ELSE [f EXCEPT !.line = f.state, !.printed = TRUE, !.ended = ~args.animated]
PrintProgressLine(f)  == [PrintProgress(f) EXCEPT !.ended = TRUE]
SetState(f, s)        == [f EXCEPT !.printed = @ /\ s = f.state, !.state = s]
SetDetailString(f)    == [f EXCEPT !.printed = FALSE]
StateShown(r)         == IF r = "Stopped" THEN "Finished" ELSE r

MainWaits ==
    /\ pc = "polling"
    /\ feedback' = SetDetailString(PrintProgress(feedback))
    /\ UNCHANGED <<args, machine, targets, pc, events, profiler, disk, result>>

(* Mutation: only the targets' exit ends the loop.                         *)
MainEndsFinished ==
    /\ pc = "polling"
    /\ Profiler!Answer("Finished")
    /\ installed' = FALSE
    /\ Goes("showing")
    /\ UNCHANGED <<args, machine, targets, handler, kind, made, heeded, output>>

(* IsFinished says true: the handler is removed.                           *)
MainEnds ==
    /\ pc = "polling"
    /\ \E r \in Profiler!Answers : Profiler!Answer(r)
    /\ installed' = FALSE
    /\ Goes("showing")
    /\ UNCHANGED <<args, machine, targets, handler, kind, made, heeded, output>>

(* Mutations: the line is printed, then the state is set; no error ends it.*)
MainShowsLate ==
    /\ pc = "showing"
    /\ feedback' = SetState(PrintProgressLine(feedback), StateShown(answer))
    /\ IF answer = "Error" THEN Returns("false") ELSE
       IF args.sevenZip THEN Goes("compressing") ELSE Returns("true")
    /\ UNCHANGED <<args, machine, targets, events, profiler, disk>>

MainShowsAll ==
    /\ pc = "showing"
    /\ feedback' = PrintProgressLine(SetState(feedback, StateShown(answer)))
    /\ IF args.sevenZip THEN Goes("compressing") ELSE Returns("true")
    /\ UNCHANGED <<args, machine, targets, events, profiler, disk>>

MainShows ==
    /\ pc = "showing"
    /\ feedback' = PrintProgressLine(SetDetailString(SetState(feedback, StateShown(answer))))
    /\ IF answer = "Error" THEN Returns("false") ELSE
       IF args.sevenZip THEN Goes("compressing") ELSE Returns("true")
    /\ UNCHANGED <<args, machine, targets, events, profiler, disk>>

-------------------------------------------------------------------------------
(* DoProfile: 7zr *)

(* ProcessRef::StartProcess: 7zr is not started, or is and cannot be       *)
(* waited for, so that it goes on by itself.                               *)
StartProcessFails(left) ==
    \/ disk' = left
    \/ "etl" \in left /\ disk' = left \cup {"7z"}

(* The old archive is deleted, if that works; where 7zr would be may not   *)
(* be known, which is no error.                                            *)
MainCompresses ==
    /\ pc = "compressing"
    /\ \E left \in {disk, disk \ {"old"}} :
        \/ disk' = left /\ (Goes("zipping") \/ Returns("true"))
        \/ StartProcessFails(left) /\ Returns("false")
    /\ UNCHANGED <<args, machine, targets, events, profiler, feedback>>

(* Mutation: the trace is deleted whatever 7zr says.                       *)
SevenZipEndsUnasked ==
    /\ pc = "zipping"
    /\ \/ "etl" \in disk /\ disk' = (disk \ {"etl"}) \cup {"7z"} /\ Returns("true")
       \/ disk' = disk \ {"etl"} /\ Returns("false")
    /\ UNCHANGED <<args, machine, targets, events, profiler, feedback>>

(* With --debug, or when FileDelete fails, the .etl is kept.               *)
SevenZipEnds ==
    /\ pc = "zipping"
    /\ \/ /\ "etl" \in disk
          /\ disk' \in {disk \cup {"7z"}, (disk \ {"etl"}) \cup {"7z"}}
          /\ Returns("true")
       \/ Returns("false") /\ UNCHANGED disk
    /\ UNCHANGED <<args, machine, targets, events, profiler, feedback>>

(* The scope ends: consoleCtrlHandlerRemover, suspendedTargetKiller, the   *)
(* handles.  m_pProfiler stays.                                            *)
MainLeaves ==
    /\ pc = "leaving"
    /\ installed' = FALSE
    /\ Terminates(IF armed THEN chosen ELSE {})
    /\ Closes({"group", "started"})
    /\ Goes("gone")
    /\ UNCHANGED <<args, pidOf, found, chosen, armed, handler, kind, profiler, output>>

DoProfile ==
    \/ StartTarget \/ GetTargets \/ (\E id \in Pids : OpenTarget(id)) \/ TargetsAreFound
    \/ MainIsNotPrivileged \/ MainConstructs \/ MainInstalls \/ MainStarts \/ MainResumes \/ MainAborts
    \/ MainEnds \/ MainShows \/ MainCompresses \/ SevenZipEnds \/ MainLeaves

-------------------------------------------------------------------------------
(* The profiler and the control events *)

(* It ends with its targets, with its input, when asked to, or in an error.*)
MayEnd ==
    \/ heeded
    \/ args.mode = "emulate"
    \/ Kept("profiler") \cap {p \in Procs : life[p] # "dead"} = {}

ProfilerEnds(e) ==
    /\ Profiler!End(e)
    /\ e = "failed" \/ MayEnd
    /\ e = "dropped" => heeded /\ "Aborted" \in asked
    /\ disk' = IF e = "done" THEN disk \cup {"etl"} ELSE disk
    /\ UNCHANGED <<args, machine, targets, pc, events, made, heeded, feedback, result>>

(* The system starts a thread in CtrlHandler; without a handler, the       *)
(* process is ended.                                                       *)
EventArrives(h) ==
    /\ handler[h] = "idle"
    /\ \/ /\ installed
          /\ handler' = [handler EXCEPT ![h] = "entered"]
          /\ \E k \in {"Stopped", "Aborted"} : kind' = [kind EXCEPT ![h] = k]
          /\ UNCHANGED pc
       \/ ~installed /\ pc' = "killed" /\ UNCHANGED <<handler, kind>>
    /\ UNCHANGED <<args, machine, targets, installed, profiler, output, result>>

CtrlHandler(h) ==
    /\ handler[h] = "entered"
    /\ Profiler!Ask(kind[h])
    /\ heeded' = (heeded \/ work = "running")
    /\ handler' = [handler EXCEPT ![h] = "waiting"]
    /\ UNCHANGED <<args, machine, targets, pc, installed, kind, made, work, answer, output, result>>

(* Stop and Abort wait for the worker; FALSE leads to the default handler. *)
CtrlHandlerReturns(h) ==
    /\ handler[h] = "waiting"
    /\ work # "running"
    /\ handler' = [handler EXCEPT ![h] = "over"]
    /\ pc' = IF kind[h] = "Aborted" THEN "killed" ELSE pc
    /\ UNCHANGED <<args, machine, targets, installed, kind, profiler, output, result>>

Handler(h) == CtrlHandler(h) \/ CtrlHandlerReturns(h)

Next ==
    \/ /\ ~Over
       /\ \/ DoProfile \/ MainWaits
          \/ \E e \in Profiler!Ends : ProfilerEnds(e)
          \/ \E h \in Handlers : EventArrives(h) \/ Handler(h)
          \/ \E p \in Procs : ProcessStarts(p) \/ ProcessExits(p)
    \/ Over /\ UNCHANGED vars

(* Threads run; a profiler that may end does, as ETWProfiler and           *)
(* ETLReloggerProfiler are shown to (ExitEndsProfile, PollEnds).           *)
Spec ==
    /\ Init /\ [][Next]_vars
    /\ WF_vars(~Over /\ DoProfile)
    /\ WF_vars(~Over /\ MayEnd /\ \E e \in Profiler!Ends : ProfilerEnds(e))
    /\ \A h \in Handlers : WF_vars(~Over /\ Handler(h))

-------------------------------------------------------------------------------
(* Properties *)

Procedure == {"creating", "snapshot", "opening", "constructing", "installing", "starting",
              "resuming", "aborting", "polling", "showing", "compressing", "zipping",
              "leaving", "gone", "killed"}

(* Types; a handle is to a process that there is.                          *)
TypeOK ==
    /\ life \in [Procs -> {"unborn", "suspended", "alive", "dead"}]
    /\ pidOf \in [Procs -> Pids \cup {NoPid}]
    /\ open \subseteq {"group", "started", "profiler", "leaked"} \X {p \in Procs : pidOf[p] # NoPid}
    /\ found \subseteq Pids /\ chosen \subseteq Procs
    /\ pc \in Procedure
    /\ work \in Profiler!Ends \cup {"none", "running"}
    /\ answer \in Profiler!Answers \cup {"none"} /\ asked \subseteq {"Stopped", "Aborted"}
    /\ disk \subseteq {"etl", "7z", "old"}
    /\ result \in {"none", "true", "false"}

(* No early return leaves a target suspended that we have got hold of.     *)
NoSuspendedLeft == pc = "gone" => \A p \in chosen : life[p] # "suspended"

(* A pid is opened twice, by GetTargets and by the profiler's constructor: *)
(* it is the same process both times.                                      *)
ProfilesTheChosen == made => Kept("profiler") = chosen

(* DoProfile does not return while the profiler is at work.                *)
NothingLeftRunning == pc = "gone" => work # "running"

(* A trace that has been written survives compression and its failures.    *)
TraceSurvives == work = "done" => disk \cap {"etl", "7z"} # {}

(* true is returned for a profile that has a trace, unless it was aborted; *)
(* an error is an error.                                                   *)
SuccessIsReal == result = "true" => work = "done" \/ "Aborted" \in asked

(* The last line of the feedback tells how the profile ended.              *)
OutcomeIsShown ==
    pc \in {"compressing", "zipping"} \/ result = "true" =>
        feedback.line = StateShown(answer) /\ feedback.ended

(* DoProfile ends when it is asked to, or when its targets have exited.    *)
ProfileEnds == pc = "polling" /\ MayEnd ~> Over
===============================================================================
