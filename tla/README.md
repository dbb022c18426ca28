# etwprof: specifications, model checking and proofs

etwprof is a sampling profiler for Windows. It opens a kernel ETW session,
filters its events down to those of the target processes while they are
"relogged" into a file, and merges debug information into that file when the
profile ends. This directory holds TLA+ models of its concurrent parts and of its way
from a command line to a trace, the TLC configurations that check them on small
instances, and TLAPS proofs for instances of every size. Paths below are relative to `src/Sources/etwprof`.

## 1. Inventory

| Component (source) | State it keeps | Operations | What is hard | What makes it correct |
|---|---|---|---|---|
| **WaitableProcessGroup** (`OS/Process`) | processes by pid, a wait context per process, a manual reset event, a recursive timed mutex | Add, Delete, sizes, WaitForAll, IsAllFinished, iteration, destructor; `ProcessWaitCallback` on the thread pool | the callback wants the mutex that Delete and the destructor hold while they wait for it; registered waits, cancellation and erasure overlap | no callback outlives its context; the event and the finished flags tell the truth; every call ends; every exit is noticed |
| **ETWProfiler** (`Profiler`) | `m_state`, the worker's error, worker thread, session, targets; two locks | Start, Stop, Abort, IsFinished, destructor; the worker's `Profile`; ProcessStarted / ProcessEnded from the filter | main thread, console control threads and worker; a lock that is held while waiting; `m_state` read and written in separate steps | no deadlock; the session never outlives the profile; the final state and the files on disk agree |
| **CombinedETWSession** (`OS/ETW`) | `m_started`, handle | Start, Stop, EnableProvider, destructor | stopping may fail; somebody else may stop it | as above |
| **ProfileEventFilter, ThreadRegistry** (`Profiler/ProfilerCommon`) | target pids, thread ids, marks with times, stack keys | one handler per kind of event, lazy clean-up | pids and thread ids are used again; late events; order of process and thread events | exactly the targets' events are kept |
| **Application** (`Application`) | the profiler, the arguments, the feedback line | DoProfile, CtrlHandler, StartTarget, GetTargets, compression, other commands | control handlers run in threads of their own, at any time; a dozen early returns with different guards | the profile's outcome is reported; a started target never stays suspended; no trace is lost |
| **IProfiler** (`Profiler/IProfiler.hpp`) | - | Start, Stop, Abort, IsFinished | two implementations, one client | one answer, after the end of the work, and true to it |
| **ETLReloggerProfiler** (`Profiler`) | `m_state`, `m_profiling`, the worker's error and thread | Start, Stop, Abort, IsFinished, destructor; the worker's `Profile` | who clears `m_profiling` and when; Stop waits under `m_lock` | no deadlock, no lost error, nobody left behind |
| **ProcessLifetimeEventSource / Observer** (`OS/Process`) | observers | Attach, Detach, notifications | callbacks from the relogging thread, behind the machine | additional targets follow the events |
| **ProcessRef, SuspendedProcessRef, ProcessList, Minidump** (`OS/Process`) | handles | open, move, resume, terminate | ownership of a suspended process | resumed or killed exactly once |
| **TraceRelogger, session helpers** (`OS/ETW`) | a COM object | AddRealTimeSession, StartRelogging, Inject | blocks until the session stops | - |
| **Arguments, ResponseFile** (`Application`, `Utility`) | raw and analyzed arguments | unpack, parse, eleven checks in a row | many combinations; checks that read what others set | accepts what the usage text shows, and no more; DoProfile's assumptions hold |
| **Synchronization** (`OS/Synchronization`) | critical section, event | lock, wait, set | - | - |
| Console, feedback, log, file, version and Windows helpers | none that matters | - | - | - |

Interaction: DoProfile makes an ETWProfiler (or an ETLReloggerProfiler),
installs CtrlHandler, calls Start, then polls IsFinished every half second.
IsFinished asks one or two WaitableProcessGroups whether the targets have
exited. The worker blocks in the relogger, which calls ProfileEventFilter for
each event; the filter calls ETWProfiler back when a child process starts or
ends, and that changes the second group. Stopping the kernel session ends
relogging, and the worker merges.

## 2. Plan

1. *(done)* WaitableProcessGroup with its abstract specification; ETWProfiler
   with its callers; EventFilter; proofs about all three.
2. *(done)* `ProfilerLifecycle`, the contract of IProfiler, which both profilers
   implement and Application relies on; `ETLReloggerProfiler` with its proofs.
3. *(done)* `TargetStream`: the filter's notifications, ETWProfiler's targets and
   ProcessGroup as one machine, for `--waitchildren`; with it, stack keys.
4. *(done)* `Application`: DoProfile from the targets to the archive.
5. *(done)* `Arguments`: from the command line to DoProfile.
6. *(done)* Proofs about each of them, the refinements of both profilers and of the group
   included: every safety property that a run checks is a theorem; liveness is left to TLC
   (section 8).

Runs are few and each asks a question of its own.

How the modules fit together:

    Arguments --(valid arguments)--> Application --INSTANCE--> ProfilerLifecycle
                                                                  ^        ^
                                             implemented by       |        |
                                                         ETWProfiler   ETLReloggerProfiler
    EventFilter   TargetStream --INSTANCE--> ProcessGroup <--implemented by-- WaitableProcessGroup

ProfileIsPossible states what Arguments hands on; Application starts from
it. Its profiler is only the contract, so what is checked of DoProfile holds for
both profilers as far as they keep the contract. TargetStream uses the
group by its contract as well.

## 3. Modules

### WaitableProcessGroup, ProcessGroup

`WaitableProcessGroup.tla` models the class. `members` are the keys of both
maps (which always agree: each operation changes both under `m_lock`),
`finished` and `registered` are fields of ProcessWaitContext, `canceled` is the
callback's event, and `callback[p]` is how far the thread pool is with the
wait: *armed*, about to *check* the cancellation event, or about to *try* for
the lock for 100 ms. An operation that does not block once it has `m_lock` is
one action. Delete is split where UnregisterWaitEx blocks (DeleteCancel,
DeleteEnd), the destructor at each wait, an iteration at its begin and end,
GetFinishedSize between its two critical sections, WaitForAll where it has
given the lock back. "waiting" therefore covers a thread that has not yet
reached the kernel's wait. Calls that change nothing are stuttering steps.

`ProcessGroup.tla` is what a client may think of: atomic Add, Finish, Delete,
Destroy, and a signal. The property ImplementsProcessGroup maps `done` to the
finished members and `signaled` to the event.

The constant AddDuringCalls says whether Add may come while somebody else is in
the middle of an operation without `m_lock` (see 6).

### ETWProfiler

`ETWProfiler.tla` has three kinds of threads: Main (DoProfile from the
installation of the control handler to the destructor), Handlers (one thread
per console control event) and the worker. `lock` is `m_lock`. `m_resultLock`
is only ever held around one access of `m_state`, so each access is an action
of its own, and that is where the interesting interleavings are: IsProfiling
and GetState in IsFinished, and GetState and SetState in Profile, are separate
steps. Handlers can call as soon as the handler is installed, before Start too.

What may go wrong is the constant Failures: creating the thread or setting the
rate (start), resuming the target (resume), any step of Profile before
relogging (setup), the relogger (relog), the merge (merge), stopping the
session (stop); and another program may stop the session (external). Kinds are
the control events: Ctrl+C (Stop) and closing the console (Abort, after which
Windows ends the process). WorkerIsPrompt restricts the callers to a worker
that has got to relogging or is over; with FALSE they call at any time.

Left out: the additional targets (one `targets` stands for all that count, see
TargetStream), EnableProvider (before Start only), sampling rates, paths.

### ProfilerLifecycle

`ProfilerLifecycle.tla` has three variables: how far the work is, what the
callers have asked for, and what IsFinished answered. Truthful relates the
answer to the end. It is implemented by ETLReloggerProfiler (proved, and checked)
and by ETWProfiler if there is at most one control event and the session only ends because
somebody asked (proved, and checked by ProfilerStopped; the work is *done* if the trace is
there, *dropped* if neither trace nor error is).

### ETLReloggerProfiler

`ETLReloggerProfiler.tla` has the same three kinds of threads as ETWProfiler.
Its m_lock protects nearly everything: Start with its effect on `m_state` is one
critical section, and so is each poll. What interleaves is the worker, which
writes `m_state` under `m_resultLock` alone, and Stop and Abort, which wait for it
under `m_lock` (Call, CallReturns). `disk` is the raw and the merged trace;
*merging* is when both rawETLDeleter and MergeTrace are still to come. The input
trace is an event of the environment: relogging ends.

### TargetStream

`TargetStream.tla` puts the machine, the kernel session's buffer, the filter and
the group of additional targets in a row. Processes have an identity that the
program never sees; it sees pids in events that come late. A pid is
free again when its process has exited and nobody has a handle to it (Holder): our
handles in `m_originalTargets` and in the group are what keeps pids apart.
FilterEvent is one event with all that follows from it: the filter's sets and,
through ProcessStarted and ProcessEnded, the group. ProcessStarted opens by pid
what may be gone, or be somebody else, and it swallows every InitException of
ProcessRef: a live child stays out of the group as well if OpenProcess is refused or
its name is longer than MAX_PATH (`ProcessRef.cpp:115-184`). `missed` has such
children while they live; the properties except them by name. A handle that ProcessRef leaks
when the name cannot be asked for would keep its pid from being used again, which
the model leaves open. `ours` is the truth. Rundown events (PDCStart
of processes that already run) are EventFilter's. The stack
walk events of `--scache` are in the same queue: `owed` is what the trace has
references to, without a definition yet. The bound MaxPending is the length of
the queue.

### Application

`Application.tla` is DoProfile from top to bottom, one action per section that can
fail or wait, with its early returns; the machine and the console's events are
its environment. `open` is the handles that we own, by who keeps them; *leaked*
ones are those that a throwing constructor of ProcessRef or SuspendedProcessRef
forgets. `armed` is suspendedTargetKiller. `feedback` is ProgressFeedback with
the last line on the screen. An event of the console runs CtrlHandler in a thread
of its own if it is installed, and otherwise ends the process (*killed*).
`heeded` says that Stop or Abort has come while the profiler was at work. A
profiler that was started ends only with its targets, with its input, by Stop or
Abort, or in an error (MayEnd).

Left out: what is printed besides the feedback line; minidumps and EnableProvider,
which only warn; processes that start once the profiler has its targets.

### Arguments

`Arguments.tla` follows a command line through UnpackRespFiles, ParseArguments,
the checks of SemaArguments in their order, and Run. A text is opaque. Tables give
what the C runtime and the file system make of it: the form of an option, the
number at its start, the kind of a path, the descriptors between the '+' of
`--enable`. Each check is one action which sets its part of `args` or goes to
"usage". Numbers are truncated to their width (DWORDs stands for 2^32, Keywords
for 2^64). Encoding is modelled by what it decides (GuessEncoding), not by bytes.

UnpackRespFiles erases and inserts in the vector that its loop walks along, so it is an
action that is taken once per directive: `tokens` is the vector, `position` the index
at which the loop goes on. UnpackedFrom says what should come of it, as one definition on
the line, and FilesAreUnpacked compares the two. A file has at least one text because
CommandLineToArgvW returns no empty list; were there none, the loop's `++i` would pass over
the next argument.

### EventFilter

`EventFilter.tla` is the filter in the hands of an environment that may do what
Windows does: start and end processes and threads and give their ids out
again. One action per event, together with all that the filter does about it.
`ours`, `ourThreads`, `past` and `ended` are the truth that the user means and
the filter cannot see; `targetPIDs`, `threads` and `marks` are the filter's.
The threads that exist when the session starts are told of one by one
(TDCStart), in any order with everything else. A process may be reported as
ended before its last thread. The clock is GetTickCount64, which does not wrap.

Left out: stack keys (see TargetStream); image and user events beyond their test on the pid;
failures to inject an event.

### Others

`MC*.tla` give TLC its sets and symmetries; `*_proofs.tla` hold theorems, and
`SequenceLemmas.tla` what those of Arguments need to know of sequences.
Operators marked "Mutation" in the modules are faults against which the
properties are tried: each property is violated if one of them takes the place
of the definition that follows.

## 4. Runs

| Run | Bounds | What it shows |
|---|---|---|
| GroupSafety | 3 pids, 2 clients, symmetry | Memory safety of callbacks (CallbackContextAlive), truth of `finished` (FinishedOnlyIfExited) and of the event (EventSound), no stray cancellation (CanceledIsLeaving), whatever two clients do |
| GroupOrdered | 2 pids, 2 clients, fairness, AddDuringCalls = FALSE | Waiters will be woken, sizes are in range, the refinement, and that Delete, the destructor and WaitForAll come back and exits are noticed |
| ProfilerStopped | 1 handler (either kind), merge may fail, prompt worker, fairness | No deadlock (WorkerCanFinish), the trace is there after a stop (StopKeepsTrace), Stop returns (StopReturns), the targets' exit ends the profile (ExitEndsProfile), and the contract of IProfiler: success has its trace, an error is reported (ImplementsLifecycle) |
| ProfilerFailures | 2 handlers, all failures but stop, prompt worker | The worker ends decided, the session never outlives it (SessionIsStopped), and whoever waits for the worker has stopped its session or found it stopped (SessionStopsFirst) |
| ProfilerEarlyStop | 1 handler at any time, nothing fails | *violated*: finding 1 |
| ProfilerErrorLost | 2 handlers, merge may fail | *violated*: finding 2 |
| FilterTargets | 3 pids, 2 thread ids, clock to 3, grace 2 | Targets are exact, nothing foreign is kept, nothing of a fresh thread id is lost, late samples are kept |
| FilterIdReused | the same, clock to 2, grace 1 | *violated*: finding 3 |
| RelogLifecycle | 3 handlers of one kind, all failures, prompt worker, fairness | No deadlock, the poll ends (PollEnds), and the contract: with it, an error is not overwritten by a second Stop |
| TargetChildren | 4 processes, 3 pids, 3 events under way, 1 stack key, fairness | The group catches up with the machine whatever pids meant in between, but for children that could not be opened (GroupIsCurrent), Add's assertion (AddIsNew), an early end only over a child that is not yet known or could not be opened (EarlyEndIsUnseen), stacks keep their definitions, the profile ends |
| ApplicationProfile | 3 processes, 2 pids, 1 event, four ways to give the target, fairness | No suspended target is left, the profiler watches what was chosen, nothing is left running, no trace is lost, success and the last line are true, DoProfile ends |
| ArgumentLines | 7 beginnings, up to 2 further texts of 41, 4 ends; response files; 3 versions of Windows | What is accepted is what the usage shows (ProfilesFollowUsage), what the usage shows is accepted (UsageIsAccepted), DoProfile's assumptions (ProfileIsPossible), each option has its effect on the profile (OptionsTakeEffect), the loop over the changing vector replaces each response file once (FilesAreUnpacked) |

Why the bounds are enough to be interesting. Three processes are needed for a
callback that registers the wait of a second process while a third is being
deleted; a pid leaves and comes back within the bound. Two clients are enough
for each pair of operations, and the pool is always a third party. One handler
shows each race of a caller with the poll and the worker, the second one shows
callers that queue for `m_lock`, the third in RelogLifecycle one that comes
when another is queueing already. With three pids there are a target, a child
and a foreign process at once; with two thread ids a switch has two sides; the
clock goes past the grace period. `SmallSize` stands for 2^32: the modulus only
matters in being larger than the group.

TargetChildren: with four processes and three pids there is a grandchild, and a
stranger that gets the pid of a child that has exited, while the events of
both are under way. ApplicationProfile: three processes and two pids let a process
of the snapshot exit and its pid go to a stranger before it is opened,
and two targets have the name. ArgumentLines: the checks relate two or three options
to each other; the beginnings are valid lines, or nearly, so that two more
texts reach each check's both sides. Where a second text cannot add anything
there is only one: for texts that are refused for what they are, for the
beginning that comes from a file, and before a process if a target is named.

Deadlock is checked in the Group runs, in ProfilerStopped and in the runs of the
last four rows, where what is over goes on in the same state. It is off in
ProfilerFailures, because there the program really stops (below: relogging
fails), in the runs that look for a violation, and in the EventFilter runs, where
the clock's bound and a quiet machine may end the events.

Symmetry is used in runs with invariants only.

## 5. Fairness

Threads that can take a step take it (weak fairness), on ETWProfiler per
thread: the worker, Main, each handler. No fairness on the environment: targets
need not exit, events need not come, nobody need stop the session.

In WaitableProcessGroup, `m_lock` is contended. A callback that tries for it
for ever while it is free again and again gets it in the end (NotStarved): the
code relies on that, since try_lock_for makes no promise. The second half of
GetFinishedSize has strong fairness for the same reason. Nothing is assumed of
the starts of operations: no client has to delete or to destroy.

ETLReloggerProfiler: as ETWProfiler, and relogging a file comes to its end.
TargetStream: the session delivers its events, waits on exited processes fire
(ExitIsNoticed of WaitableProcessGroup), DoProfile polls; processes need not
exit. Application: DoProfile's thread and the handlers' run, and a profiler that
may end does, which is what ExitEndsProfile and PollEnds say of the two profilers.

## 6. Findings

1. **Ctrl+C right after Start deadlocks** (ProfilerEarlyStop). Stop holds
   `m_lock` while it waits for the worker, whose first statement locks `m_lock`.
2. **A second Ctrl+C hides an error** (ProfilerErrorLost). Stop sets Stopped
   whatever `m_state` is. ETLReloggerProfiler::Stop takes care not to.
3. **Samples of a live thread are dropped** (FilterIdReused) when a new thread of the
   target gets the id of a former one: its mark for deletion is still there,
   and a second later it is deleted. For the same reason a later end of
   that id keeps the old mark, so that it has no grace period.

Others that the models show when constants are changed; they are stated here so
that nobody takes the passing runs for more than they say:

- ProfilerStopped with Failures = {"relog"}: WorkerCanFinish fails, as
  etwSessionDestroyer locks `m_lock` in the worker while IsFinished waits for it.
- ProfilerStopped with WorkerIsPrompt = FALSE: StopKeepsTrace fails (the
  worker's SetState (Running) overwrites an early Stopped, and the profile ends
  as aborted) and SessionStopsFirst fails (IsFinished reads Unstarted first and
  Running then, and waits for a session that nobody stops). SessionIsStopped
  fails too: an Abort before Start is over has no effect on what Start begins.
- ProfilerStopped with Failures = {"external"}: ImplementsLifecycle fails if the
  targets exit just when the worker treats the external stop as an abort.
- Failures with "start": the destructor calls Stop, and WaitForProfilerThread,
  which asserts that it has a thread, has none.
- RawIsTemporary (proved) has to except errors: a failed StartRelogging returns before
  the guard that deletes the raw file exists.
- GroupOrdered with AddDuringCalls = TRUE: WaiterWillBeWoken fails. Add resets
  the event and registers no wait, so that a thread that has left the lock in
  WaitForAll, but has not reached the event, may be forgotten. FinishedSizeInRange
  fails as well: what is added between the two halves makes GetFinishedSize
  wrap around. etwprof itself does not call either function while it adds.

## 7. Disagreements without a run

Met while modelling, with the code on one side and a comment, an assertion, a test or
the usage text on the other, or simply surprising. The models contain them
as they are; no run is spent on them.

Application and process handles:

- `startedTarget->Terminate` asserts AccessOptions::Terminate (`ProcessRef.cpp:228`),
  although StartTarget passes AccessOptions::Default (`Application.cpp:711`).
- When SuspendedProcessRef's constructor throws, the new process stays suspended
  for ever and both handles leak (NoSuspendedLeft speaks of targets that
  we have got hold of). ProcessRef (pid) leaks its handle when the query of
  the image name throws.
- Ctrl+C before the handler is installed, or after it is removed, ends etwprof at once;
  a started target stays suspended then (*killed* in the model).
- CtrlHandler's thread may still run when DoProfile has returned and
  the static Application is destroyed.
- A pid of the snapshot may be a stranger's when GetTargets opens it. ProfilesTheChosen
  says that this is the only chance: from then on the handle is kept.
- A profile that is aborted goes on to 7zr and returns true, as does one where the place
  of 7zr cannot be found out; an archive was asked for and there is none. 7zr may be
  reported as failed and still be running (StartProcessFails).
- `hStdOutput` gets hDevNull before NUL is opened (`ProcessRef.cpp:62-67`).
- The Static style of feedback prints a line at each poll, because SetDetailString
  resets `m_currentStatePrinted`.
- ~Application calls CoUninitialize even if Init has failed.

The profilers:

- `ETLReloggerProfiler.cpp:58-60` asserts that Stop has closed the handle. No Stop does.
- An early Ctrl+C on `--emulate` is lost before Start, and deadlocks before the worker has
  taken its lock, like finding 1 (WorkerIsPrompt in its run is the restriction).
- Closing the console and then Ctrl+C turns Aborted, or the Error it hides, into Stopped,
  so that GoalsAgree is needed: RelogLifecycle has events of one kind.
- ProcessStarted takes an InitException as a sign that the child "already exited"
  (`ETWProfiler.cpp:258-262`). It also comes for a live child that may not be opened; the
  profile of `--waitchildren` then does not wait for it (`missed`).
- ~ETWProfiler gives `m_lock` back and destroys it. A handler that came before may still
  wait for `m_lock` in Stop or Abort, and then uses it, and the profiler, after their end.
  The model has such handlers (*calling* when Main is *gone*); no property says otherwise.
- Children that start between GetTargets and the start of the session are missed, and a
  profile may end while the start of a child is still on its way (EarlyEndIsUnseen
  is what holds), although the usage says that `--waitchildren` waits for them.
- The sampling rate is set for the machine and not restored.
- ~ProcessLifetimeEventSource and ~ProcessLifetimeObserver iterate a vector that
  Detach erases from. Here each has one partner only.
- GetFinishedSize and GetNumberOfProfiledProcesses add sizes that are read one after the
  other; what they say is only displayed.

Arguments (the names of the usage text, `ArgumentLines` has all of them but encodings):

- Of an option that is repeated (`-t=12 -t=17`) the last value counts, without a word;
  `--waitchildren` has no effect with `--emulate`, on purpose (`Arguments.cpp:596`). A `--`
  that only blanks follow passes the parser; `profile` refuses it later, other commands
  ignore it.
- `--compress=...` is accepted with any value where nothing is profiled; `""` as
  an argument meets an assertion called impossible.
- A name that begins with a digit is a pid (`_wtoi64` of `7z.exe` is 7), and numbers are
  cut to their width: a pid to 32 bits, a provider's level 256 to 0. Garbage after a level or
  after `stack` is ignored.
- `-o=out.etl` without a directory is rejected. The extension is appended after the path was
  looked at. `--outdir` takes an existing file. Environment variables are expanded in the
  output path only.
- Response files are unpacked after `--` too, also in the target's arguments; `--` in a
  response file or in quotes fails the test of its form, and hides options behind it. An
  `argv[0]` that starts with `@` is taken for one. A file of only a BOM yields the
  program's path as an argument.
- Where GetVersionExW fails, Windows counts as newer than 10 and CheckWinVersion passes.

## 8. Proofs

`WaitableProcessGroup_proofs.tla`, for every finite set of pids and every set of
clients. IndInv joins type correctness and the checked invariants with what
they need: who owns `m_lock` in which state (OwnerInv), that the victim of a
Delete in progress is a registered member (DeleteInv), that registered, finished
and callback progress fit together (WaitInv), that the destructor is alone
(AloneInv). CallbackContextAlive alone is not inductive: that DeleteEnd frees
nothing in use follows from the victim being the client's own, and from its
holding `m_lock`, so that no other wait on it is registered meanwhile. From
IndInv follow the safety theorems, the action property IterationIsSafe, and
Implements: each step maps to one of ProcessGroup or to a stutter. FinishedSizesFit
needs that nobody calls Add in the middle of GetFinishedSize (section 6), and that the group
only gets smaller under a thread between the two halves (SizeInv).

`ETWProfiler_proofs.tla`, for any number of handlers. TypeCorrect (with it, that
only final states reach DoProfile) and WorkerIsDecided hold without any
restriction on failures or timing: IndInv adds how far the worker is when
`m_state` has left Unstarted, and that there is a thread unless Main is before
Start or in the destructor. NoDeadlock needs WorkerIsPrompt and that relogging
does not fail, both necessary (section 6: finding 1, and the first of the others);
PromptInv says that whoever is past the start finds the worker past its own.

RawTraceIsTemporary follows from what the worker has on disk at each stage (RawInv).
RelogsNoLonger (SessionStopsFirst) and SessionsAreStopped need WorkerIsPrompt and that
stopping a session does not fail (section 6 says what happens without the first):
StopInv adds that a final state, on whose word IsFinished joins the worker, has been
written by somebody who owns `m_lock` and goes on to stop the session.

ErrorsAreReported, Implements and StopsKeepTraces are about `m_state`, which Stop, Abort,
IsFinished and the worker all write, and about at most one control event (OneEvent). `goal`
and `m_lock` say who writes next (GoalInv). ErrorInv: once the worker is on its way to the
merge, nobody will write `m_state` any more (LastCall: Main has written and keeps the lock until
it has the answer, or the handler has, and Main does not find the Running that it would replace).
So an error of the merge stays, and is what IsFinished finds. EndInv: the session only ends by
the last call, and what the worker leaves is what that call asked for; with it each step is one
of ProfilerLifecycle, or a stutter. TraceInv: when the worker is prompt, only an
Abort makes it drop the trace. An Abort of DoProfile itself, after a failed resume,
and the destructor come to no answer (NoAnswer) and need no LastCall. TLC shows that the
conditions are needed, each alone:

| Theorem | fails with |
|---|---|
| ErrorsAreReported | two events (finding 2); a failing setup or relogging, whose error a later Stop overwrites |
| Implements | the same; another tool that ends the session |
| StopsKeepTraces | two events of different kinds; a failed resume (DoProfile aborts); another tool; a Stop before the worker has begun |

`EventFilter_proofs.tla`, for any numbers of processes and threads, any reuse of
ids, any grace period. RegistryInv: the registry holds profiled threads and ids
that are free, and every thread of a target is profiled. KnownInv and MarkInv:
only former threads are ever marked, so a fresh id survives each clean-up. LateInv:
the mark of an ended thread with a fresh id is the time of its end, or there is none.

`TargetStream_proofs.tla`, for any processes, pids and keys and any number of events under
way. StacksAreDefined alone is not inductive: one has to know of each reference that is
still under way that its definition is in the cache or behind it (StackInv). Every logged
event is one of three cases: no stack event, a reference (the key then is in the cache),
or the definition, which takes the key from the cache and is last in the queue.

GroupIsCurrent, AddIsNew and EarlyEndIsUnseen (the first and the last but for `missed`) say what holds of the filter and the group, which
are behind the machine by the events under way. Their invariant therefore needs the
machine as the reader of event *i* would see it: Running(p, i) holds if p's start is
not to come any more and its end is, or is not yet. At each event the running
processes have different pids (EventInv), the parent that a start names is a process
that runs there and is ours exactly if the child is (StartInv), and the filter's pids are
those of our processes that run before event 1 (ReaderInv). A pid alone does not say whose
end an event tells of; `proc`, which the program never reads, does. What makes it
work is that a pid is not given out while we hold a handle, and that the end of a
process comes before the start of the next one with its pid: the machine logs them in order.

`Application_proofs.tla`, for any processes, pids and control events, all ways to give
the target and all failures. ControlInv joins where DoProfile can be with whether
there is a profiler at work (StageInv), that what is suspended was started and is to
be killed (SuspendedInv), that the answer fits the profiler's end (AnswerInv), and for
ProfilesTheChosen that a pid in use has one process (PidInv) and that each target is
held until the profiler has its own handle (HeldInv). Without HeldInv a target might
exit, and its pid be another's, between the two openings.

`ETLReloggerProfiler_proofs.tla`, for any number of control events and every set of
failures. IInv joins the types with who owns `m_lock` (LockIsOwned), how far the worker is
by `m_profiling` and the main thread (WorkerIsKnown), that events agree in
kind (GoalsAgree), and what each value of `m_state` says about the worker's error
and the handlers (StateIsTrue). ErrorIsKept alone is not inductive: Stop keeps
an Error but would overwrite Aborted, so one has to know that nobody aborts when
somebody stops; NoOrphan needs that `m_profiling` is only cleared after the worker's end.
NoDeadlock needs WorkerIsPrompt; the others hold without it. Implements maps each
step to one of ProfilerLifecycle (MainStart to Begin, the worker's last step to End,
an event to Ask, the poll to Answer) or to a stutter.

`Arguments_proofs.tla`, for any command line, response files, providers and numbers, thus for
all lines and not only those of ArgumentLines. The checks of SemaArguments run one after the
other and each reads what earlier ones wrote into the arguments, so IInv says for each stage
what the stages before it have established (TargetInv, OutputInv and so on); a check
establishes its own part, and keeps the others because it writes other fields. ProfilesArePossible
and ProfilesAreUsual are what IInv says of the last stage.

The other three theorems are about the texts of the line. For the loop of UnpackRespFiles, LineInv
splits the line in two: a part `done`, whose replacement is at the front of the vector and
holds no directive any more, and a part `todo`, which follows it unchanged; `position` is
at most one behind the front (Between). LoopStep moves the next directive from `todo` to `done`.
It needs that the file has a text, and that none of them is a directive, which
is what the loop's own test ensures. FilesAreInlined follows. From then on LineInv has `tokens` as
UnpackedFrom(line) and `raw` as what is parsed from it. OptionsAreHeeded joins
both: unpacking a concatenation is concatenating what is unpacked (UnpackedConcat), what is
in front of a "--" stays there (BeforeConcat, OptionsOfPrefix), a slot holds the last value
of its option because the two options that share one exclude each other (SlotHoldsLast), and
IInv says what each check has made of the slots (EffectOfLast). UsageIsPossible goes through
the checks as IInv does, from the other side: UsualRaw collects what the values of a usual
line are like, and each check asks for a part of it. A first attempt showed that
Usual had to say more: an `argv[0]` that looks like a directive is unpacked, so that such a
line may be refused, and only lines with the command `profile` are meant.

These facts are about FlattenSeq and the least index in a sequence, both defined by
recursion or choice. `SequenceLemmas.tla` proves them by induction: a theorem
that takes an operator cannot be instantiated here, but one about sets can, so induction is
stated of a set (LeastElement, UpwardInduction, AppendInduction), and each use names the
set of those numbers or sequences for which the claim holds.

Assumed: the ASSUMEs of the modules (disjointness of model values, finite pids,
a Size larger than the group, a positive grace period; of Arguments, that the tables of the C
runtime give numbers where the code takes them, that lines and files are made of texts that the tables
know and are not empty, and for UsageIsPossible that each of GoodTexts works in
itself, an existing directory after `--outdir` for example). The bound on the clock
is a parameter, any natural number.

Only model-checked: liveness (StopReturns, ExitEndsProfile, CallsReturn, ExitIsNoticed,
PollEnds, ProfileEnds), because fairness is out of the prover's reach. Every invariant and
every action property that a run expects to hold is a theorem.

Only proved, and in no run: IterationIsAtomic of WaitableProcessGroup (IterationIsSafe: while a
range-based loop runs, no step changes the group) and TypeOK of Arguments
(TypeCorrect: what is parsed has its width and its kind).

## 9. Not modelled

Output (console, log, usage text), wrappers of system calls that keep no state, and
third-party code. Of CombinedETWSession, EnableProvider and the capture of provider
state; of the filter, image and user provider events, which are kept by one constant test;
of the observers, Attach, Detach and their destructors, which run once in one scope; of
process handles, access masks and the contents of minidumps; of the Windows utilities,
what only formats or queries. The test suite is read for what it expects.
A mixture of Ctrl+C and closing the console is not in RelogLifecycle (section 7).
Of the Windows API only what the code relies on is modelled, as actions of
the environment: a registered wait fires once when its process exits;
UnregisterWaitEx returns when the callback is over and prevents it from
starting; ProcessTrace returns when the session stops; a pid is not given out
while a handle to its process is open.
