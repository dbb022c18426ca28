-------------------------- MODULE Application_proofs --------------------------
(***************************************************************************)
(* For any number of processes, pids and control events, and whatever      *)
(* fails: DoProfile leaves no target suspended and no profiler at work, it *)
(* keeps a trace that was written, reports what happened, and profiles the *)
(* very processes that it has opened.                                      *)
(***************************************************************************)
EXTENDS Application, TLAPS

Shown == {"Running", "Finished", "Aborted", "Error"}

Feedback == [state : Shown, printed : BOOLEAN, line : Shown \cup {""}, ended : BOOLEAN]

TypeInv ==
    /\ TypeOK
    /\ made \in BOOLEAN /\ armed \in BOOLEAN
    /\ \A p \in Procs : pidOf[p] = NoPid => life[p] = "unborn" /\ p \notin chosen
    /\ args.animated \in BOOLEAN /\ args.sevenZip \in BOOLEAN /\ args.mode \in AllModes
    /\ feedback \in Feedback

(* Where DoProfile is tells how the target was given, and whether there is *)
(* a profiler, at work or not.                                             *)
Early == {"creating", "snapshot", "opening", "constructing"}

StageInv ==
    /\ pc = "creating" => args.mode = "start" /\ chosen = {}
    /\ pc \in {"snapshot", "opening"} => Attaches
    /\ pc \in Early => ~made
    /\ work = "running" => pc \in {"resuming", "polling", "aborting", "killed"}
    /\ result # "none" => pc \in {"leaving", "gone", "killed"}

(* Only started targets are ever suspended, and then the killer is armed.  *)
SuspendedInv ==
    \A p \in Procs : life[p] = "suspended" =>
        args.mode = "start" /\ (p \in chosen => armed)

(* An answer is true to the end of the work, and only answers that are no  *)
(* errors get as far as the compression.                                   *)
AnswerInv ==
    /\ work = "dropped" => "Aborted" \in asked
    /\ answer # "none" => work \in Profiler!Ends /\ Profiler!Truthful(answer)
    /\ pc = "showing" => answer # "none"
    /\ pc \in {"compressing", "zipping"} \/ result = "true" => answer \notin {"none", "Error"}

(* The started target waits for MainResumes.                               *)
StartedInv ==
    /\ pc = "resuming" => args.mode = "start"
    /\ pc \in {"constructing", "installing", "starting", "resuming"} /\ args.mode = "start" =>
            \A p \in chosen : life[p] = "suspended"

(* A pid that is in use is one process's, and every target is held until   *)
(* the profiler has opened it for itself: so it opens the same processes.  *)
InUse(p) == pidOf[p] # NoPid /\ (life[p] # "dead" \/ \E h \in open : h[2] = p)

PidInv == \A p, q \in Procs : InUse(p) /\ InUse(q) /\ pidOf[p] = pidOf[q] => p = q

HeldInv ==
    /\ ~made /\ pc \notin {"leaving", "gone", "killed"} =>
            \A p \in chosen : \E h \in open : h[2] = p
    /\ ~made => /\ pc \in Early \cup {"leaving", "gone", "killed"}
                /\ \A p \in Procs : <<"profiler", p>> \notin open

ControlInv ==
    /\ TypeInv /\ StageInv /\ SuspendedInv /\ AnswerInv
    /\ StartedInv /\ PidInv /\ HeldInv
    /\ NoSuspendedLeft /\ TraceSurvives /\ OutcomeIsShown /\ ProfilesTheChosen

-------------------------------------------------------------------------------

(* The record is told to the provers field by field.                       *)
LEMMA FeedbackRecord ==
  ASSUME NEW s \in Shown, NEW p \in BOOLEAN, NEW l \in Shown \cup {""}, NEW e \in BOOLEAN
  PROVE  [state |-> s, printed |-> p, line |-> l, ended |-> e] \in Feedback
  BY DEF Feedback

LEMMA PrintingKeepsTypes ==
  ASSUME NEW f \in Feedback, args.animated \in BOOLEAN
  PROVE  /\ PrintProgress(f) \in Feedback
         /\ ~f.printed => PrintProgress(f).line = f.state
  BY DEF PrintProgress, Feedback

LEMMA DetailIsSet ==
  ASSUME NEW f \in Feedback
  PROVE  /\ SetDetailString(f) \in Feedback
         /\ SetDetailString(f).state = f.state /\ ~SetDetailString(f).printed
  BY DEF SetDetailString, Feedback

LEMMA StateIsSet ==
  ASSUME NEW f \in Feedback, NEW s \in Shown
  PROVE  SetState(f, s) \in Feedback /\ SetState(f, s).state = s
  BY DEF SetState, Feedback

(* However the last update is drawn, its line shows the state.             *)
LEMMA LastLine ==
  ASSUME args.animated \in BOOLEAN, NEW f \in Feedback, NEW s \in Shown,
         NEW g, g = PrintProgressLine(SetDetailString(SetState(f, s)))
  PROVE  g \in Feedback /\ g.line = s /\ g.ended
<1> DEFINE h == SetDetailString(SetState(f, s))
<1>1. h \in Feedback /\ h.state = s /\ ~h.printed
  BY StateIsSet, DetailIsSet
<1>2. PrintProgress(h) \in Feedback /\ PrintProgress(h).line = s
  BY <1>1, PrintingKeepsTypes
<1>3. g = [PrintProgress(h) EXCEPT !.ended = TRUE]
  BY DEF PrintProgressLine
<1> QED BY <1>2, <1>3 DEF Feedback

(* All begins with DoProfile's first step.                                 *)
LEMMA InitControl == Init => ControlInv
<1> SUFFICES ASSUME Init PROVE ControlInv
  OBVIOUS
<1>1. args.animated \in BOOLEAN /\ args.sevenZip \in BOOLEAN /\ args.mode \in AllModes
  BY ApplicationAssumption DEF Init
<1>2. feedback \in Feedback
  BY FeedbackRecord DEF Init, Shown
<1>3. TypeOK
  BY <1>1 DEF Init, TypeOK, Procedure, Profiler!Init, Profiler!Ends, Profiler!Answers
<1>4. StageInv /\ SuspendedInv /\ AnswerInv
  BY <1>1 DEF Init, StageInv, SuspendedInv, AnswerInv, Early, Attaches, AllModes, Profiler!Init
<1>5. NoSuspendedLeft /\ TraceSurvives /\ OutcomeIsShown
  BY <1>1 DEF Init, AllModes, NoSuspendedLeft, TraceSurvives, OutcomeIsShown, Profiler!Init
<1>6. TypeInv
  BY <1>1, <1>2, <1>3 DEF TypeInv, Init
<1>7. StartedInv
  BY <1>1 DEF Init, StartedInv, AllModes
<1>8. PidInv
  BY DEF Init, PidInv, InUse, Alive
<1>9. HeldInv /\ ProfilesTheChosen
  BY <1>1 DEF Init, HeldInv, ProfilesTheChosen, Early, AllModes
<1> QED BY <1>4, <1>5, <1>6, <1>7, <1>8, <1>9 DEF ControlInv

(* Early returns and steps of the profiler leave DoProfile at a stage that *)
(* fits the state.                                                         *)
LEMMA StepStage == TypeInv /\ StageInv /\ [Next]_vars => StageInv'
<1> SUFFICES ASSUME TypeInv, StageInv, [Next]_vars PROVE StageInv'
  OBVIOUS
<1> USE ApplicationAssumption DEF TypeInv, TypeOK, StageInv, Early, Procedure, Attaches,
        AllModes
<1>1. CASE StartTarget
  BY <1>1
  DEF StartTarget, CreatesSuspended, Returns, Goes, machine, targets, events, profiler, output
<1>2. CASE GetTargets
  BY <1>2 DEF GetTargets, Returns, Goes, machine, targets, events, profiler, output
<1>3. ASSUME NEW id \in Pids, OpenTarget(id) PROVE StageInv'
  BY <1>3
  DEF OpenTarget, Opens, OpenFails, Holder, Returns, Goes, machine, targets, events, profiler,
      output
<1>4. CASE TargetsAreFound
  BY <1>4 DEF TargetsAreFound, Returns, Goes, machine, targets, events, profiler, output
<1>5. CASE MainIsNotPrivileged
  BY <1>5 DEF MainIsNotPrivileged, Returns, machine, targets, events, profiler, output
<1>6. CASE MainConstructs
  BY <1>6
  DEF MainConstructs, Watches, Holder, OpenFails, Returns, Goes, machine, targets, events,
      profiler, output
<1>7. CASE MainInstalls
  BY <1>7 DEF MainInstalls, Returns, Goes, machine, targets, events, profiler, output
<1>8. CASE MainStarts
  BY <1>8
  DEF MainStarts, Profiler!Begin, Returns, Goes, machine, targets, events, profiler, output
<1>9. CASE MainResumes
  BY <1>9
  DEF MainResumes, Resumes, Closes, Profiler!Ask, Goes, machine, targets, events, profiler,
      output
<1>10. CASE MainAborts
  BY <1>10 DEF MainAborts, Returns, machine, targets, events, profiler, output
<1>11. CASE MainWaits
  BY <1>11
  DEF MainWaits, SetDetailString, PrintProgress, machine, targets, events, profiler, output
<1>12. CASE MainEnds
  BY <1>12 DEF MainEnds, Profiler!Answer, Profiler!Ends, Goes, machine, targets, output
<1>13. CASE MainShows
  BY <1>13
  DEF MainShows, PrintProgressLine, PrintProgress, SetDetailString, SetState, StateShown,
      Returns, Goes, machine, targets, events, profiler, output
<1>14. CASE MainCompresses
  BY <1>14
  DEF MainCompresses, StartProcessFails, Returns, Goes, machine, targets, events, profiler,
      output
<1>15. CASE SevenZipEnds
  BY <1>15 DEF SevenZipEnds, Returns, machine, targets, events, profiler, output
<1>16. CASE MainLeaves
  BY <1>16 DEF MainLeaves, Terminates, Closes, Goes, machine, targets, events, profiler, output
<1>17. ASSUME NEW e \in Profiler!Ends, ProfilerEnds(e) PROVE StageInv'
  BY <1>17 DEF ProfilerEnds, Profiler!End, machine, targets, events, profiler, output
<1>18. ASSUME NEW h \in Handlers, EventArrives(h) PROVE StageInv'
  BY <1>18 DEF EventArrives, machine, targets, events, profiler, output
<1>19. ASSUME NEW h \in Handlers, CtrlHandler(h) PROVE StageInv'
  BY <1>19 DEF CtrlHandler, Profiler!Ask, machine, targets, events, profiler, output
<1>20. ASSUME NEW h \in Handlers, CtrlHandlerReturns(h) PROVE StageInv'
  BY <1>20 DEF CtrlHandlerReturns, machine, targets, events, profiler, output
<1>21. ASSUME NEW p \in Procs, ProcessStarts(p) PROVE StageInv'
  BY <1>21 DEF ProcessStarts, PidInUse, machine, targets, events, profiler, output
<1>22. ASSUME NEW p \in Procs, ProcessExits(p) PROVE StageInv'
  BY <1>22 DEF ProcessExits, machine, targets, events, profiler, output
<1>23. CASE UNCHANGED vars
  BY <1>23 DEF vars, machine, targets, events, profiler, output
<1> QED
  BY <1>1, <1>2, <1>3, <1>4, <1>5, <1>6, <1>7, <1>8, <1>9, <1>10, <1>11, <1>12, <1>13, <1>14,
     <1>15, <1>16, <1>17, <1>18, <1>19, <1>20, <1>21, <1>22, <1>23
  DEF Next, DoProfile, Handler

(* A process is suspended by StartTarget alone, and the killer is armed    *)
(* in the same step; it is disarmed when the process runs.                 *)
LEMMA StepSuspended == TypeInv /\ StageInv /\ SuspendedInv /\ [Next]_vars => SuspendedInv'
<1> SUFFICES ASSUME TypeInv, StageInv, SuspendedInv, [Next]_vars PROVE SuspendedInv'
  OBVIOUS
<1> USE ApplicationAssumption DEF TypeInv, TypeOK, StageInv, SuspendedInv, Early, Procedure,
        Attaches, AllModes
<1>1. CASE StartTarget
  <2>1. CASE UNCHANGED machine /\ UNCHANGED <<chosen, armed, args>>
    BY <2>1 DEF machine
  <2>2. ASSUME NEW p \in Procs, NEW by, CreatesSuspended(p, by), UNCHANGED args,
               chosen' = chosen \/ (chosen' = {p} /\ armed' = TRUE), armed' = armed \/ armed' = TRUE
        PROVE  SuspendedInv'
    <3>1. life' = [life EXCEPT ![p] = "suspended"]
      BY <2>2 DEF CreatesSuspended
    <3>2. args.mode = "start" /\ chosen = {}
      BY <1>1 DEF StartTarget
    <3> QED BY <2>2, <3>1, <3>2
  <2> QED BY <1>1, <2>1, <2>2 DEF StartTarget, targets
<1>2. CASE GetTargets
  BY <1>2 DEF GetTargets, Returns, Goes, machine, targets, events, profiler, output
<1>3. ASSUME NEW id \in Pids, OpenTarget(id) PROVE SuspendedInv'
  BY <1>3
  DEF OpenTarget, Opens, OpenFails, Holder, Returns, Goes, machine, targets, events, profiler,
      output
<1>4. CASE TargetsAreFound
  BY <1>4 DEF TargetsAreFound, Returns, Goes, machine, targets, events, profiler, output
<1>5. CASE MainIsNotPrivileged
  BY <1>5 DEF MainIsNotPrivileged, Returns, machine, targets, events, profiler, output
<1>6. CASE MainConstructs
  BY <1>6
  DEF MainConstructs, Watches, Holder, OpenFails, Returns, Goes, machine, targets, events,
      profiler, output
<1>7. CASE MainInstalls
  BY <1>7 DEF MainInstalls, Returns, Goes, machine, targets, events, profiler, output
<1>8. CASE MainStarts
  BY <1>8
  DEF MainStarts, Profiler!Begin, Returns, Goes, machine, targets, events, profiler, output
<1>9. CASE MainResumes
  BY <1>9
  DEF MainResumes, Resumes, Closes, Profiler!Ask, Goes, machine, targets, events, profiler,
      output
<1>10. CASE MainAborts
  BY <1>10 DEF MainAborts, Returns, machine, targets, events, profiler, output
<1>11. CASE MainWaits
  BY <1>11
  DEF MainWaits, SetDetailString, PrintProgress, machine, targets, events, profiler, output
<1>12. CASE MainEnds
  BY <1>12 DEF MainEnds, Profiler!Answer, Goes, machine, targets, events, profiler, output
<1>13. CASE MainShows
  BY <1>13
  DEF MainShows, PrintProgressLine, PrintProgress, SetDetailString, SetState, StateShown,
      Returns, Goes, machine, targets, events, profiler, output
<1>14. CASE MainCompresses
  BY <1>14
  DEF MainCompresses, StartProcessFails, Returns, Goes, machine, targets, events, profiler,
      output
<1>15. CASE SevenZipEnds
  BY <1>15 DEF SevenZipEnds, Returns, machine, targets, events, profiler, output
<1>16. CASE MainLeaves
  BY <1>16 DEF MainLeaves, Terminates, Closes, Goes, machine, targets, events, profiler, output
<1>17. ASSUME NEW e \in Profiler!Ends, ProfilerEnds(e) PROVE SuspendedInv'
  BY <1>17 DEF ProfilerEnds, Profiler!End, machine, targets, events, profiler, output
<1>18. ASSUME NEW h \in Handlers, EventArrives(h) PROVE SuspendedInv'
  BY <1>18 DEF EventArrives, machine, targets, events, profiler, output
<1>19. ASSUME NEW h \in Handlers, CtrlHandler(h) PROVE SuspendedInv'
  BY <1>19 DEF CtrlHandler, Profiler!Ask, machine, targets, events, profiler, output
<1>20. ASSUME NEW h \in Handlers, CtrlHandlerReturns(h) PROVE SuspendedInv'
  BY <1>20 DEF CtrlHandlerReturns, machine, targets, events, profiler, output
<1>21. ASSUME NEW p \in Procs, ProcessStarts(p) PROVE SuspendedInv'
  BY <1>21 DEF ProcessStarts, PidInUse, machine, targets, events, profiler, output
<1>22. ASSUME NEW p \in Procs, ProcessExits(p) PROVE SuspendedInv'
  BY <1>22 DEF ProcessExits, machine, targets, events, profiler, output
<1>23. CASE UNCHANGED vars
  BY <1>23 DEF vars, machine, targets, events, profiler, output
<1> QED
  BY <1>1, <1>2, <1>3, <1>4, <1>5, <1>6, <1>7, <1>8, <1>9, <1>10, <1>11, <1>12, <1>13, <1>14,
     <1>15, <1>16, <1>17, <1>18, <1>19, <1>20, <1>21, <1>22, <1>23
  DEF Next, DoProfile, Handler

(* Every step keeps the types.                                             *)
LEMMA StepType == TypeInv /\ StageInv /\ AnswerInv /\ [Next]_vars => TypeInv'
<1> SUFFICES ASSUME TypeInv, StageInv, AnswerInv, [Next]_vars PROVE TypeInv'
  OBVIOUS
<1> USE ApplicationAssumption DEF TypeInv, TypeOK, Procedure, AllModes
<1>1. CASE StartTarget
  <2>1. UNCHANGED <<args, made, feedback, work, asked, answer, disk, found>>
        /\ pc' \in {"leaving", "constructing"} /\ result' \in {result, "false"}
    BY <1>1 DEF StartTarget, Returns, Goes, targets, profiler, output
  <2>2. CASE UNCHANGED <<life, pidOf, open, chosen, armed>>
    BY <2>1, <2>2
  <2>3. ASSUME NEW p \in Procs, NEW by \in {"leaked", "started"}, CreatesSuspended(p, by),
               UNCHANGED <<chosen, armed>> \/ (chosen' = {p} /\ armed' = TRUE)
        PROVE  TypeInv'
    <3>1. PICK id \in Pids : pidOf' = [pidOf EXCEPT ![p] = id]
      BY <2>3 DEF CreatesSuspended
    <3>2. life' = [life EXCEPT ![p] = "suspended"] /\ open' = open \cup {<<by, p>>}
      BY <2>3 DEF CreatesSuspended
    <3>3. \A q \in Procs : pidOf[q] # NoPid => pidOf'[q] # NoPid
      BY <3>1
    <3>4. pidOf'[p] # NoPid
      BY <3>1
    <3>5. open' \subseteq {"group", "started", "profiler", "leaked"}
                            \X {q \in Procs : pidOf'[q] # NoPid}
      BY <2>3, <3>2, <3>3, <3>4
    <3>6. \A q \in Procs : pidOf'[q] = NoPid => life'[q] = "unborn" /\ q \notin chosen'
      BY <2>3, <3>1, <3>2, <3>3, <3>4
    <3>7. /\ pidOf' \in [Procs -> Pids \cup {NoPid}]
          /\ life' \in [Procs -> {"unborn", "suspended", "alive", "dead"}]
      BY <3>1, <3>2
    <3>8. chosen' \subseteq Procs /\ armed' \in BOOLEAN
      BY <2>3
    <3>9. TypeOK'
      BY <2>1, <3>5, <3>7, <3>8
    <3> QED BY <2>1, <3>6, <3>8, <3>9
  <2> QED BY <1>1, <2>2, <2>3 DEF StartTarget, machine, targets
<1>2. CASE GetTargets
  <2>1. found' \subseteq Pids
    BY <1>2 DEF GetTargets, Alive, machine
  <2> QED BY <1>2, <2>1 DEF GetTargets, Returns, Goes, machine, targets, profiler, output
<1>3. ASSUME NEW id \in Pids, OpenTarget(id) PROVE TypeInv'
  BY <1>3
  DEF OpenTarget, Opens, OpenFails, Holder, Returns, Goes, machine, targets, events, profiler,
      output
<1>4. CASE TargetsAreFound
  BY <1>4 DEF TargetsAreFound, Returns, Goes, machine, targets, events, profiler, output
<1>5. CASE MainIsNotPrivileged
  BY <1>5 DEF MainIsNotPrivileged, Returns, machine, targets, events, profiler, output
<1>6. CASE MainConstructs
  <2>1. /\ UNCHANGED <<args, machine, found, chosen, armed, work, asked, answer, feedback,
          disk>>
        /\ pc' \in {"installing", "leaving"} /\ result' \in {result, "false"} /\ made' \in BOOLEAN
    BY <1>6 DEF MainConstructs, Returns, Goes, output
  <2>2. open' \subseteq {"group", "started", "profiler", "leaked"}
                          \X {q \in Procs : pidOf[q] # NoPid}
    <3>1. CASE Watches({pidOf[p] : p \in chosen})
      BY <3>1 DEF Watches
    <3>2. CASE \E p \in chosen : OpenFails(pidOf[p])
      <4>1. PICK p \in chosen : OpenFails(pidOf[p])
        BY <3>2
      <4>2. open' = open \/ \E q \in Holder(pidOf[p]) : open' = open \cup {<<"leaked", q>>}
        BY <4>1 DEF OpenFails
      <4>3. \A q \in Holder(pidOf[p]) : q \in Procs /\ pidOf[q] # NoPid
        BY DEF Holder
      <4> QED BY <4>2, <4>3
    <3>3. CASE UNCHANGED open
      BY <3>3
    <3> QED BY <1>6, <3>1, <3>2, <3>3 DEF MainConstructs
  <2> QED BY <2>1, <2>2 DEF machine
<1>7. CASE MainInstalls
  BY <1>7 DEF MainInstalls, Returns, Goes, machine, targets, events, profiler, output
<1>8. CASE MainStarts
  BY <1>8
  DEF MainStarts, Profiler!Begin, Returns, Goes, machine, targets, events, profiler, output
<1>9. CASE MainResumes
  <2>1. UNCHANGED <<args, pidOf, found, chosen, made, work, answer, feedback, disk, result>>
        /\ pc' \in {"polling", "aborting"} /\ armed' \in BOOLEAN
    BY <1>9 DEF MainResumes, Goes, output
  <2>2. life' \in [Procs -> {"unborn", "suspended", "alive", "dead"}]
        /\ \A p \in Procs : pidOf[p] = NoPid => life'[p] = "unborn"
    BY <1>9 DEF MainResumes, Resumes
  <2>3. open' \subseteq open /\ asked' \subseteq {"Stopped", "Aborted"}
    BY <1>9 DEF MainResumes, Resumes, Closes, Profiler!Ask
  <2> QED BY <2>1, <2>2, <2>3
<1>10. CASE MainAborts
  BY <1>10 DEF MainAborts, Returns, machine, targets, events, profiler, output
<1>11. CASE MainWaits
  <2>1. feedback' \in Feedback
    BY <1>11, PrintingKeepsTypes, DetailIsSet DEF MainWaits
  <2> QED BY <1>11, <2>1 DEF MainWaits, machine, targets, profiler
<1>12. CASE MainEnds
  BY <1>12 DEF MainEnds, Profiler!Answer, Goes, machine, targets, events, profiler, output
<1>13. CASE MainShows
  <2>1. feedback' \in Feedback
    <3>1. StateShown(answer) \in Shown
      BY <1>13 DEF MainShows, AnswerInv, StateShown, Shown, Profiler!Answers
    <3> QED BY <1>13, <3>1, LastLine DEF MainShows
  <2> QED BY <1>13, <2>1 DEF MainShows, Returns, Goes, machine, targets, profiler
<1>14. CASE MainCompresses
  <2>1. disk' \subseteq {"etl", "7z", "old"}
    <3>1. PICK left \in {disk, disk \ {"old"}} : disk' = left \/ StartProcessFails(left)
      BY <1>14 DEF MainCompresses
    <3>2. disk' = left \/ disk' = left \cup {"7z"}
      BY <3>1 DEF StartProcessFails
    <3> QED BY <3>1, <3>2
  <2>2. pc' \in {"zipping", "leaving"} /\ result' \in {result, "true", "false"}
    BY <1>14 DEF MainCompresses, Returns, Goes
  <2> QED BY <1>14, <2>1, <2>2 DEF MainCompresses, machine, targets, profiler
<1>15. CASE SevenZipEnds
  BY <1>15 DEF SevenZipEnds, Returns, machine, targets, events, profiler, output
<1>16. CASE MainLeaves
  BY <1>16 DEF MainLeaves, Terminates, Closes, Goes, machine, targets, events, profiler, output
<1>17. ASSUME NEW e \in Profiler!Ends, ProfilerEnds(e) PROVE TypeInv'
  BY <1>17 DEF ProfilerEnds, Profiler!End, machine, targets, events, profiler, output
<1>18. ASSUME NEW h \in Handlers, EventArrives(h) PROVE TypeInv'
  BY <1>18 DEF EventArrives, machine, targets, events, profiler, output
<1>19. ASSUME NEW h \in Handlers, CtrlHandler(h) PROVE TypeInv'
  <2>1. asked' \subseteq {"Stopped", "Aborted"}
    BY <1>19 DEF CtrlHandler, Profiler!Ask
  <2> QED BY <1>19, <2>1 DEF CtrlHandler, Profiler!Ask, machine, targets, output
<1>20. ASSUME NEW h \in Handlers, CtrlHandlerReturns(h) PROVE TypeInv'
  BY <1>20 DEF CtrlHandlerReturns, machine, targets, events, profiler, output
<1>21. ASSUME NEW p \in Procs, ProcessStarts(p) PROVE TypeInv'
  BY <1>21 DEF ProcessStarts, PidInUse, machine, targets, events, profiler, output
<1>22. ASSUME NEW p \in Procs, ProcessExits(p) PROVE TypeInv'
  BY <1>22 DEF ProcessExits, machine, targets, events, profiler, output
<1>23. CASE UNCHANGED vars
  BY <1>23 DEF vars, machine, targets, events, profiler, output
<1> QED
  BY <1>1, <1>2, <1>3, <1>4, <1>5, <1>6, <1>7, <1>8, <1>9, <1>10, <1>11, <1>12, <1>13, <1>14,
     <1>15, <1>16, <1>17, <1>18, <1>19, <1>20, <1>21, <1>22, <1>23
  DEF Next, DoProfile, Handler

(* The profiler answers after its end and truly, and its end stays.        *)
LEMMA StepAnswer == TypeInv /\ StageInv /\ AnswerInv /\ [Next]_vars => AnswerInv'
<1> SUFFICES ASSUME TypeInv, StageInv, AnswerInv, [Next]_vars PROVE AnswerInv'
  OBVIOUS
<1> USE ApplicationAssumption DEF TypeInv, TypeOK, StageInv, AnswerInv, Procedure,
        Profiler!Ends, Profiler!Answers, Profiler!Truthful
<1>1. CASE StartTarget
  BY <1>1
  DEF StartTarget, CreatesSuspended, Returns, Goes, machine, targets, events, profiler, output
<1>2. CASE GetTargets
  BY <1>2 DEF GetTargets, Returns, Goes, machine, targets, events, profiler, output
<1>3. ASSUME NEW id \in Pids, OpenTarget(id) PROVE AnswerInv'
  BY <1>3
  DEF OpenTarget, Opens, OpenFails, Holder, Returns, Goes, machine, targets, events, profiler,
      output
<1>4. CASE TargetsAreFound
  BY <1>4 DEF TargetsAreFound, Returns, Goes, machine, targets, events, profiler, output
<1>5. CASE MainIsNotPrivileged
  BY <1>5 DEF MainIsNotPrivileged, Returns, machine, targets, events, profiler, output
<1>6. CASE MainConstructs
  BY <1>6
  DEF MainConstructs, Watches, Holder, OpenFails, Returns, Goes, machine, targets, events,
      profiler, output
<1>7. CASE MainInstalls
  BY <1>7 DEF MainInstalls, Returns, Goes, machine, targets, events, profiler, output
<1>8. CASE MainStarts
  BY <1>8
  DEF MainStarts, Profiler!Begin, Returns, Goes, machine, targets, events, profiler, output
<1>9. CASE MainResumes
  BY <1>9
  DEF MainResumes, Resumes, Closes, Profiler!Ask, Goes, machine, targets, events, profiler,
      output
<1>10. CASE MainAborts
  BY <1>10 DEF MainAborts, Returns, machine, targets, events, profiler, output
<1>11. CASE MainWaits
  BY <1>11
  DEF MainWaits, SetDetailString, PrintProgress, machine, targets, events, profiler, output
<1>12. CASE MainEnds
  BY <1>12 DEF MainEnds, Profiler!Answer, Goes, machine, targets, events, profiler, output
<1>13. CASE MainShows
  BY <1>13
  DEF MainShows, PrintProgressLine, PrintProgress, SetDetailString, SetState, StateShown,
      Returns, Goes, machine, targets, events, profiler, output
<1>14. CASE MainCompresses
  BY <1>14
  DEF MainCompresses, StartProcessFails, Returns, Goes, machine, targets, events, profiler,
      output
<1>15. CASE SevenZipEnds
  BY <1>15 DEF SevenZipEnds, Returns, machine, targets, events, profiler, output
<1>16. CASE MainLeaves
  BY <1>16 DEF MainLeaves, Terminates, Closes, Goes, machine, targets, events, profiler, output
<1>17. ASSUME NEW e \in Profiler!Ends, ProfilerEnds(e) PROVE AnswerInv'
  BY <1>17 DEF ProfilerEnds, Profiler!End, machine, targets, events, profiler, output
<1>18. ASSUME NEW h \in Handlers, EventArrives(h) PROVE AnswerInv'
  BY <1>18 DEF EventArrives, machine, targets, events, profiler, output
<1>19. ASSUME NEW h \in Handlers, CtrlHandler(h) PROVE AnswerInv'
  BY <1>19 DEF CtrlHandler, Profiler!Ask, machine, targets, events, profiler, output
<1>20. ASSUME NEW h \in Handlers, CtrlHandlerReturns(h) PROVE AnswerInv'
  BY <1>20 DEF CtrlHandlerReturns, machine, targets, events, profiler, output
<1>21. ASSUME NEW p \in Procs, ProcessStarts(p) PROVE AnswerInv'
  BY <1>21 DEF ProcessStarts, PidInUse, machine, targets, events, profiler, output
<1>22. ASSUME NEW p \in Procs, ProcessExits(p) PROVE AnswerInv'
  BY <1>22 DEF ProcessExits, machine, targets, events, profiler, output
<1>23. CASE UNCHANGED vars
  BY <1>23 DEF vars, machine, targets, events, profiler, output
<1> QED
  BY <1>1, <1>2, <1>3, <1>4, <1>5, <1>6, <1>7, <1>8, <1>9, <1>10, <1>11, <1>12, <1>13, <1>14,
     <1>15, <1>16, <1>17, <1>18, <1>19, <1>20, <1>21, <1>22, <1>23
  DEF Next, DoProfile, Handler

(* On the way out the killer ends what is suspended; nothing is suspended  *)
(* later.                                                                  *)
LEMMA StepLeft == TypeInv /\ StageInv /\ SuspendedInv /\ NoSuspendedLeft /\ [Next]_vars => NoSuspendedLeft'
<1> SUFFICES ASSUME TypeInv, StageInv, SuspendedInv, NoSuspendedLeft, [Next]_vars
             PROVE  NoSuspendedLeft'
  OBVIOUS
<1> USE ApplicationAssumption DEF TypeInv, TypeOK, StageInv, SuspendedInv, NoSuspendedLeft,
        Early, Procedure, Attaches, AllModes
<1>1. CASE StartTarget
  BY <1>1
  DEF StartTarget, CreatesSuspended, Returns, Goes, machine, targets, events, profiler, output
<1>2. CASE GetTargets
  BY <1>2 DEF GetTargets, Returns, Goes, machine, targets, events, profiler, output
<1>3. ASSUME NEW id \in Pids, OpenTarget(id) PROVE NoSuspendedLeft'
  BY <1>3
  DEF OpenTarget, Opens, OpenFails, Holder, Returns, Goes, machine, targets, events, profiler,
      output
<1>4. CASE TargetsAreFound
  BY <1>4 DEF TargetsAreFound, Returns, Goes, machine, targets, events, profiler, output
<1>5. CASE MainIsNotPrivileged
  BY <1>5 DEF MainIsNotPrivileged, Returns, machine, targets, events, profiler, output
<1>6. CASE MainConstructs
  BY <1>6
  DEF MainConstructs, Watches, Holder, OpenFails, Returns, Goes, machine, targets, events,
      profiler, output
<1>7. CASE MainInstalls
  BY <1>7 DEF MainInstalls, Returns, Goes, machine, targets, events, profiler, output
<1>8. CASE MainStarts
  BY <1>8
  DEF MainStarts, Profiler!Begin, Returns, Goes, machine, targets, events, profiler, output
<1>9. CASE MainResumes
  BY <1>9
  DEF MainResumes, Resumes, Closes, Profiler!Ask, Goes, machine, targets, events, profiler,
      output
<1>10. CASE MainAborts
  BY <1>10 DEF MainAborts, Returns, machine, targets, events, profiler, output
<1>11. CASE MainWaits
  BY <1>11
  DEF MainWaits, SetDetailString, PrintProgress, machine, targets, events, profiler, output
<1>12. CASE MainEnds
  BY <1>12 DEF MainEnds, Profiler!Answer, Goes, machine, targets, events, profiler, output
<1>13. CASE MainShows
  BY <1>13
  DEF MainShows, PrintProgressLine, PrintProgress, SetDetailString, SetState, StateShown,
      Returns, Goes, machine, targets, events, profiler, output
<1>14. CASE MainCompresses
  BY <1>14
  DEF MainCompresses, StartProcessFails, Returns, Goes, machine, targets, events, profiler,
      output
<1>15. CASE SevenZipEnds
  BY <1>15 DEF SevenZipEnds, Returns, machine, targets, events, profiler, output
<1>16. CASE MainLeaves
  BY <1>16 DEF MainLeaves, Terminates, Closes, Goes, machine, targets, events, profiler, output
<1>17. ASSUME NEW e \in Profiler!Ends, ProfilerEnds(e) PROVE NoSuspendedLeft'
  BY <1>17 DEF ProfilerEnds, Profiler!End, machine, targets, events, profiler, output
<1>18. ASSUME NEW h \in Handlers, EventArrives(h) PROVE NoSuspendedLeft'
  BY <1>18 DEF EventArrives, machine, targets, events, profiler, output
<1>19. ASSUME NEW h \in Handlers, CtrlHandler(h) PROVE NoSuspendedLeft'
  BY <1>19 DEF CtrlHandler, Profiler!Ask, machine, targets, events, profiler, output
<1>20. ASSUME NEW h \in Handlers, CtrlHandlerReturns(h) PROVE NoSuspendedLeft'
  BY <1>20 DEF CtrlHandlerReturns, machine, targets, events, profiler, output
<1>21. ASSUME NEW p \in Procs, ProcessStarts(p) PROVE NoSuspendedLeft'
  BY <1>21 DEF ProcessStarts, PidInUse, machine, targets, events, profiler, output
<1>22. ASSUME NEW p \in Procs, ProcessExits(p) PROVE NoSuspendedLeft'
  BY <1>22 DEF ProcessExits, machine, targets, events, profiler, output
<1>23. CASE UNCHANGED vars
  BY <1>23 DEF vars, machine, targets, events, profiler, output
<1> QED
  BY <1>1, <1>2, <1>3, <1>4, <1>5, <1>6, <1>7, <1>8, <1>9, <1>10, <1>11, <1>12, <1>13, <1>14,
     <1>15, <1>16, <1>17, <1>18, <1>19, <1>20, <1>21, <1>22, <1>23
  DEF Next, DoProfile, Handler

(* 7zr puts the archive there before the trace is deleted.                 *)
LEMMA StepTrace == TypeInv /\ TraceSurvives /\ [Next]_vars => TraceSurvives'
<1> SUFFICES ASSUME TypeInv, TraceSurvives, [Next]_vars PROVE TraceSurvives'
  OBVIOUS
<1> USE DEF TypeInv, TypeOK, TraceSurvives, Profiler!Ends, Profiler!Answers
<1>1. CASE StartTarget
  BY <1>1
  DEF StartTarget, CreatesSuspended, Returns, Goes, machine, targets, events, profiler, output
<1>2. CASE GetTargets
  BY <1>2 DEF GetTargets, Returns, Goes, machine, targets, events, profiler, output
<1>3. ASSUME NEW id \in Pids, OpenTarget(id) PROVE TraceSurvives'
  BY <1>3
  DEF OpenTarget, Opens, OpenFails, Holder, Returns, Goes, machine, targets, events, profiler,
      output
<1>4. CASE TargetsAreFound
  BY <1>4 DEF TargetsAreFound, Returns, Goes, machine, targets, events, profiler, output
<1>5. CASE MainIsNotPrivileged
  BY <1>5 DEF MainIsNotPrivileged, Returns, machine, targets, events, profiler, output
<1>6. CASE MainConstructs
  BY <1>6
  DEF MainConstructs, Watches, Holder, OpenFails, Returns, Goes, machine, targets, events,
      profiler, output
<1>7. CASE MainInstalls
  BY <1>7 DEF MainInstalls, Returns, Goes, machine, targets, events, profiler, output
<1>8. CASE MainStarts
  BY <1>8
  DEF MainStarts, Profiler!Begin, Returns, Goes, machine, targets, events, profiler, output
<1>9. CASE MainResumes
  BY <1>9
  DEF MainResumes, Resumes, Closes, Profiler!Ask, Goes, machine, targets, events, profiler,
      output
<1>10. CASE MainAborts
  BY <1>10 DEF MainAborts, Returns, machine, targets, events, profiler, output
<1>11. CASE MainWaits
  BY <1>11
  DEF MainWaits, SetDetailString, PrintProgress, machine, targets, events, profiler, output
<1>12. CASE MainEnds
  BY <1>12 DEF MainEnds, Profiler!Answer, Goes, machine, targets, events, profiler, output
<1>13. CASE MainShows
  BY <1>13
  DEF MainShows, PrintProgressLine, PrintProgress, SetDetailString, SetState, StateShown,
      Returns, Goes, machine, targets, events, profiler, output
<1>14. CASE MainCompresses
  BY <1>14
  DEF MainCompresses, StartProcessFails, Returns, Goes, machine, targets, events, profiler,
      output
<1>15. CASE SevenZipEnds
  BY <1>15 DEF SevenZipEnds, Returns, machine, targets, events, profiler, output
<1>16. CASE MainLeaves
  BY <1>16 DEF MainLeaves, Terminates, Closes, Goes, machine, targets, events, profiler, output
<1>17. ASSUME NEW e \in Profiler!Ends, ProfilerEnds(e) PROVE TraceSurvives'
  BY <1>17 DEF ProfilerEnds, Profiler!End, machine, targets, events, profiler, output
<1>18. ASSUME NEW h \in Handlers, EventArrives(h) PROVE TraceSurvives'
  BY <1>18 DEF EventArrives, machine, targets, events, profiler, output
<1>19. ASSUME NEW h \in Handlers, CtrlHandler(h) PROVE TraceSurvives'
  BY <1>19 DEF CtrlHandler, Profiler!Ask, machine, targets, events, profiler, output
<1>20. ASSUME NEW h \in Handlers, CtrlHandlerReturns(h) PROVE TraceSurvives'
  BY <1>20 DEF CtrlHandlerReturns, machine, targets, events, profiler, output
<1>21. ASSUME NEW p \in Procs, ProcessStarts(p) PROVE TraceSurvives'
  BY <1>21 DEF ProcessStarts, PidInUse, machine, targets, events, profiler, output
<1>22. ASSUME NEW p \in Procs, ProcessExits(p) PROVE TraceSurvives'
  BY <1>22 DEF ProcessExits, machine, targets, events, profiler, output
<1>23. CASE UNCHANGED vars
  BY <1>23 DEF vars, machine, targets, events, profiler, output
<1> QED
  BY <1>1, <1>2, <1>3, <1>4, <1>5, <1>6, <1>7, <1>8, <1>9, <1>10, <1>11, <1>12, <1>13, <1>14,
     <1>15, <1>16, <1>17, <1>18, <1>19, <1>20, <1>21, <1>22, <1>23
  DEF Next, DoProfile, Handler

(* After MainShows, whose line is the answer's, nothing is printed.        *)
LEMMA StepShown == TypeInv /\ StageInv /\ AnswerInv /\ OutcomeIsShown /\ [Next]_vars => OutcomeIsShown'
<1> SUFFICES ASSUME TypeInv, StageInv, AnswerInv, OutcomeIsShown, [Next]_vars
             PROVE  OutcomeIsShown'
  OBVIOUS
<1> USE DEF TypeInv, TypeOK, StageInv, AnswerInv, OutcomeIsShown
<1>1. CASE StartTarget
  BY <1>1
  DEF StartTarget, CreatesSuspended, Returns, Goes, machine, targets, events, profiler, output
<1>2. CASE GetTargets
  BY <1>2 DEF GetTargets, Returns, Goes, machine, targets, events, profiler, output
<1>3. ASSUME NEW id \in Pids, OpenTarget(id) PROVE OutcomeIsShown'
  BY <1>3
  DEF OpenTarget, Opens, OpenFails, Holder, Returns, Goes, machine, targets, events, profiler,
      output
<1>4. CASE TargetsAreFound
  BY <1>4 DEF TargetsAreFound, Returns, Goes, machine, targets, events, profiler, output
<1>5. CASE MainIsNotPrivileged
  BY <1>5 DEF MainIsNotPrivileged, Returns, machine, targets, events, profiler, output
<1>6. CASE MainConstructs
  BY <1>6
  DEF MainConstructs, Watches, Holder, OpenFails, Returns, Goes, machine, targets, events,
      profiler, output
<1>7. CASE MainInstalls
  BY <1>7 DEF MainInstalls, Returns, Goes, machine, targets, events, profiler, output
<1>8. CASE MainStarts
  BY <1>8
  DEF MainStarts, Profiler!Begin, Returns, Goes, machine, targets, events, profiler, output
<1>9. CASE MainResumes
  BY <1>9
  DEF MainResumes, Resumes, Closes, Profiler!Ask, Goes, machine, targets, events, profiler,
      output
<1>10. CASE MainAborts
  BY <1>10 DEF MainAborts, Returns, machine, targets, events, profiler, output
<1>11. CASE MainWaits
  BY <1>11
  DEF MainWaits, SetDetailString, PrintProgress, machine, targets, events, profiler, output
<1>12. CASE MainEnds
  BY <1>12 DEF MainEnds, Profiler!Answer, Goes, machine, targets, events, profiler, output
<1>13. CASE MainShows
  BY <1>13
  DEF MainShows, PrintProgressLine, PrintProgress, SetDetailString, SetState, StateShown,
      Returns, Goes, machine, targets, events, profiler, output
<1>14. CASE MainCompresses
  BY <1>14
  DEF MainCompresses, StartProcessFails, Returns, Goes, machine, targets, events, profiler,
      output
<1>15. CASE SevenZipEnds
  BY <1>15 DEF SevenZipEnds, Returns, machine, targets, events, profiler, output
<1>16. CASE MainLeaves
  BY <1>16 DEF MainLeaves, Terminates, Closes, Goes, machine, targets, events, profiler, output
<1>17. ASSUME NEW e \in Profiler!Ends, ProfilerEnds(e) PROVE OutcomeIsShown'
  BY <1>17 DEF ProfilerEnds, Profiler!End, machine, targets, events, profiler, output
<1>18. ASSUME NEW h \in Handlers, EventArrives(h) PROVE OutcomeIsShown'
  BY <1>18 DEF EventArrives, machine, targets, events, profiler, output
<1>19. ASSUME NEW h \in Handlers, CtrlHandler(h) PROVE OutcomeIsShown'
  BY <1>19 DEF CtrlHandler, Profiler!Ask, machine, targets, events, profiler, output
<1>20. ASSUME NEW h \in Handlers, CtrlHandlerReturns(h) PROVE OutcomeIsShown'
  BY <1>20 DEF CtrlHandlerReturns, machine, targets, events, profiler, output
<1>21. ASSUME NEW p \in Procs, ProcessStarts(p) PROVE OutcomeIsShown'
  BY <1>21 DEF ProcessStarts, PidInUse, machine, targets, events, profiler, output
<1>22. ASSUME NEW p \in Procs, ProcessExits(p) PROVE OutcomeIsShown'
  BY <1>22 DEF ProcessExits, machine, targets, events, profiler, output
<1>23. CASE UNCHANGED vars
  BY <1>23 DEF vars, machine, targets, events, profiler, output
<1> QED
  BY <1>1, <1>2, <1>3, <1>4, <1>5, <1>6, <1>7, <1>8, <1>9, <1>10, <1>11, <1>12, <1>13, <1>14,
     <1>15, <1>16, <1>17, <1>18, <1>19, <1>20, <1>21, <1>22, <1>23
  DEF Next, DoProfile, Handler

(* A handle to a process that is in use brings no pid into use.            *)
LEMMA OpeningTakesNoPid ==
  ASSUME PidInv, UNCHANGED machine, \A h \in open' : h \in open \/ InUse(h[2])
  PROVE  PidInv'
<1>1. ASSUME NEW p \in Procs, InUse(p)' PROVE InUse(p) /\ pidOf'[p] = pidOf[p]
  <2>1. pidOf'[p] = pidOf[p] /\ life'[p] = life[p] /\ pidOf[p] # NoPid
    BY <1>1 DEF machine, InUse
  <2>2. CASE life'[p] # "dead"
    BY <2>1, <2>2 DEF InUse
  <2>3. ASSUME NEW h \in open', h[2] = p PROVE InUse(p)
    BY <2>1, <2>3 DEF InUse
  <2> QED BY <1>1, <2>1, <2>2, <2>3 DEF InUse
<1> QED BY <1>1 DEF PidInv

(* Nobody else resumes the target, and it does not exit before.            *)
LEMMA StepStarted == TypeInv /\ StageInv /\ StartedInv /\ [Next]_vars => StartedInv'
<1> SUFFICES ASSUME TypeInv, StageInv, StartedInv, [Next]_vars PROVE StartedInv'
  OBVIOUS
<1> USE ApplicationAssumption DEF TypeInv, TypeOK, StageInv, StartedInv, Early, Attaches,
        AllModes
<1>1. CASE StartTarget
  BY <1>1
  DEF StartTarget, CreatesSuspended, Returns, Goes, machine, targets, events, profiler, output
<1>2. CASE GetTargets
  BY <1>2 DEF GetTargets, Returns, Goes, machine, targets, events, profiler, output
<1>3. ASSUME NEW id \in Pids, OpenTarget(id) PROVE StartedInv'
  BY <1>3
  DEF OpenTarget, Opens, OpenFails, Holder, Returns, Goes, machine, targets, events, profiler,
      output
<1>4. CASE TargetsAreFound
  BY <1>4 DEF TargetsAreFound, Returns, Goes, machine, targets, events, profiler, output
<1>5. CASE MainIsNotPrivileged
  BY <1>5 DEF MainIsNotPrivileged, Returns, machine, targets, events, profiler, output
<1>6. CASE MainConstructs
  BY <1>6
  DEF MainConstructs, Watches, Holder, OpenFails, Returns, Goes, machine, targets, events,
      profiler, output
<1>7. CASE MainInstalls
  BY <1>7 DEF MainInstalls, Returns, Goes, machine, targets, events, profiler, output
<1>8. CASE MainStarts
  BY <1>8
  DEF MainStarts, Profiler!Begin, Returns, Goes, machine, targets, events, profiler, output
<1>9. CASE MainResumes
  BY <1>9
  DEF MainResumes, Resumes, Closes, Profiler!Ask, Goes, machine, targets, events, profiler,
      output
<1>10. CASE MainAborts
  BY <1>10 DEF MainAborts, Returns, machine, targets, events, profiler, output
<1>11. CASE MainWaits
  BY <1>11
  DEF MainWaits, SetDetailString, PrintProgress, machine, targets, events, profiler, output
<1>12. CASE MainEnds
  BY <1>12 DEF MainEnds, Profiler!Answer, Goes, machine, targets, events, profiler, output
<1>13. CASE MainShows
  BY <1>13
  DEF MainShows, PrintProgressLine, PrintProgress, SetDetailString, SetState, StateShown,
      Returns, Goes, machine, targets, events, profiler, output
<1>14. CASE MainCompresses
  BY <1>14
  DEF MainCompresses, StartProcessFails, Returns, Goes, machine, targets, events, profiler,
      output
<1>15. CASE SevenZipEnds
  BY <1>15 DEF SevenZipEnds, Returns, machine, targets, events, profiler, output
<1>16. CASE MainLeaves
  BY <1>16 DEF MainLeaves, Terminates, Closes, Goes, machine, targets, events, profiler, output
<1>17. ASSUME NEW e \in Profiler!Ends, ProfilerEnds(e) PROVE StartedInv'
  BY <1>17 DEF ProfilerEnds, Profiler!End, machine, targets, events, profiler, output
<1>18. ASSUME NEW h \in Handlers, EventArrives(h) PROVE StartedInv'
  BY <1>18 DEF EventArrives, machine, targets, events, profiler, output
<1>19. ASSUME NEW h \in Handlers, CtrlHandler(h) PROVE StartedInv'
  BY <1>19 DEF CtrlHandler, Profiler!Ask, machine, targets, events, profiler, output
<1>20. ASSUME NEW h \in Handlers, CtrlHandlerReturns(h) PROVE StartedInv'
  BY <1>20 DEF CtrlHandlerReturns, machine, targets, events, profiler, output
<1>21. ASSUME NEW p \in Procs, ProcessStarts(p) PROVE StartedInv'
  BY <1>21 DEF ProcessStarts, PidInUse, machine, targets, events, profiler, output
<1>22. ASSUME NEW p \in Procs, ProcessExits(p) PROVE StartedInv'
  BY <1>22 DEF ProcessExits, machine, targets, events, profiler, output
<1>23. CASE UNCHANGED vars
  BY <1>23 DEF vars, machine, targets, events, profiler, output
<1> QED
  BY <1>1, <1>2, <1>3, <1>4, <1>5, <1>6, <1>7, <1>8, <1>9, <1>10, <1>11, <1>12, <1>13, <1>14,
     <1>15, <1>16, <1>17, <1>18, <1>19, <1>20, <1>21, <1>22, <1>23
  DEF Next, DoProfile, Handler

(* A pid is given to a process only while it is not in use, and a process  *)
(* that is dead and not open comes into use no more.                       *)
LEMMA StepPid == TypeInv /\ StageInv /\ StartedInv /\ PidInv /\ [Next]_vars => PidInv'
<1> SUFFICES ASSUME TypeInv, StageInv, StartedInv, PidInv, [Next]_vars PROVE PidInv'
  OBVIOUS
<1> USE ApplicationAssumption DEF TypeInv, TypeOK, StageInv, Early, Attaches, AllModes, PidInv,
        InUse
<1>1. CASE StartTarget
  <2>1. CASE UNCHANGED <<machine, open>>
    BY <2>1 DEF machine
  <2>2. ASSUME NEW p \in Procs, NEW by, CreatesSuspended(p, by) PROVE PidInv'
    <3>1. PICK id \in Pids : ~PidInUse(id) /\ pidOf' = [pidOf EXCEPT ![p] = id]
      BY <2>2 DEF CreatesSuspended
    <3>2. life[p] = "unborn" /\ life' = [life EXCEPT ![p] = "suspended"] /\ open' = open \cup {<<by, p>>}
      BY <2>2 DEF CreatesSuspended
    <3>3. \A q \in Procs : q # p /\ InUse(q)' => InUse(q) /\ pidOf'[q] = pidOf[q] /\ pidOf[q] # id
      BY <3>1, <3>2 DEF PidInUse, Holder
    <3> QED BY <3>1, <3>2, <3>3
  <2> QED BY <1>1, <2>1, <2>2 DEF StartTarget, targets
<1>2. CASE GetTargets
  BY <1>2 DEF GetTargets, Returns, Goes, machine, targets, events, profiler, output
<1>3. ASSUME NEW id \in Pids, OpenTarget(id) PROVE PidInv'
  <2>1. \A h \in open' : h \in open \/ InUse(h[2])
    <3>1. \A q \in Holder(id) : q \in Procs /\ InUse(q)
      BY DEF Holder
    <3>2. CASE \E p \in Procs : Opens(id, "group", p)
      BY <3>1, <3>2 DEF Opens
    <3>3. CASE OpenFails(id)
      BY <3>1, <3>3 DEF OpenFails
    <3> QED BY <1>3, <3>2, <3>3 DEF OpenTarget
  <2> QED BY <1>3, <2>1, OpeningTakesNoPid DEF OpenTarget
<1>4. CASE TargetsAreFound
  BY <1>4 DEF TargetsAreFound, Returns, Goes, machine, targets, events, profiler, output
<1>5. CASE MainIsNotPrivileged
  BY <1>5 DEF MainIsNotPrivileged, Returns, machine, targets, events, profiler, output
<1>6. CASE MainConstructs
  <2>1. \A h \in open' : h \in open \/ InUse(h[2])
    <3>1. \A id \in Pids : \A q \in Holder(id) : q \in Procs /\ InUse(q)
      BY DEF Holder
    <3>2. \A p \in chosen : p \in Procs /\ pidOf[p] \in Pids
      OBVIOUS
    <3>3. CASE Watches({pidOf[p] : p \in chosen})
      <4>1. PICK watch \in SUBSET Procs :
                  /\ {pidOf[p] : p \in watch} = {pidOf[p] : p \in chosen}
                  /\ \A p \in watch : p \in Holder(pidOf[p])
                  /\ open' = open \cup {<<"profiler", p>> : p \in watch}
        BY <3>3 DEF Watches
      <4>2. \A q \in watch : pidOf[q] \in Pids
        BY <3>2, <4>1
      <4>3. \A q \in watch : InUse(q)
        BY <3>1, <4>1, <4>2
      <4> QED BY <4>1, <4>3
    <3>4. CASE \E p \in chosen : OpenFails(pidOf[p])
      <4>1. PICK p \in chosen : OpenFails(pidOf[p])
        BY <3>4
      <4> QED BY <3>1, <3>2, <4>1 DEF OpenFails
    <3>5. CASE UNCHANGED open
      BY <3>5
    <3> QED BY <1>6, <3>3, <3>4, <3>5 DEF MainConstructs
  <2> QED BY <1>6, <2>1, OpeningTakesNoPid DEF MainConstructs
<1>7. CASE MainInstalls
  BY <1>7 DEF MainInstalls, Returns, Goes, machine, targets, events, profiler, output
<1>8. CASE MainStarts
  BY <1>8
  DEF MainStarts, Profiler!Begin, Returns, Goes, machine, targets, events, profiler, output
<1>9. CASE MainResumes
  <2>1. UNCHANGED pidOf /\ open' \subseteq open
    BY <1>9 DEF MainResumes, Resumes, Closes
  <2>2. \A p \in Procs : life[p] = "dead" => life'[p] = "dead"
    BY <1>9 DEF MainResumes, Resumes, StartedInv
  <2> QED BY <2>1, <2>2
<1>10. CASE MainAborts
  BY <1>10 DEF MainAborts, Returns, machine, targets, events, profiler, output
<1>11. CASE MainWaits
  BY <1>11
  DEF MainWaits, SetDetailString, PrintProgress, machine, targets, events, profiler, output
<1>12. CASE MainEnds
  BY <1>12 DEF MainEnds, Profiler!Answer, Goes, machine, targets, events, profiler, output
<1>13. CASE MainShows
  BY <1>13
  DEF MainShows, PrintProgressLine, PrintProgress, SetDetailString, SetState, StateShown,
      Returns, Goes, machine, targets, events, profiler, output
<1>14. CASE MainCompresses
  BY <1>14
  DEF MainCompresses, StartProcessFails, Returns, Goes, machine, targets, events, profiler,
      output
<1>15. CASE SevenZipEnds
  BY <1>15 DEF SevenZipEnds, Returns, machine, targets, events, profiler, output
<1>16. CASE MainLeaves
  BY <1>16 DEF MainLeaves, Terminates, Closes, Goes, machine, targets, events, profiler, output
<1>17. ASSUME NEW e \in Profiler!Ends, ProfilerEnds(e) PROVE PidInv'
  BY <1>17 DEF ProfilerEnds, Profiler!End, machine, targets, events, profiler, output
<1>18. ASSUME NEW h \in Handlers, EventArrives(h) PROVE PidInv'
  BY <1>18 DEF EventArrives, machine, targets, events, profiler, output
<1>19. ASSUME NEW h \in Handlers, CtrlHandler(h) PROVE PidInv'
  BY <1>19 DEF CtrlHandler, Profiler!Ask, machine, targets, events, profiler, output
<1>20. ASSUME NEW h \in Handlers, CtrlHandlerReturns(h) PROVE PidInv'
  BY <1>20 DEF CtrlHandlerReturns, machine, targets, events, profiler, output
<1>21. ASSUME NEW p \in Procs, ProcessStarts(p) PROVE PidInv'
  <2>1. PICK id \in Pids : ~PidInUse(id) /\ pidOf' = [pidOf EXCEPT ![p] = id]
    BY <1>21 DEF ProcessStarts
  <2>2. life' = [life EXCEPT ![p] = "alive"] /\ UNCHANGED open
    BY <1>21 DEF ProcessStarts, targets
  <2>3. \A q \in Procs : q # p /\ InUse(q)' => InUse(q) /\ pidOf'[q] = pidOf[q] /\ pidOf[q] # id
    BY <2>1, <2>2 DEF PidInUse, Holder
  <2> QED BY <2>1, <2>2, <2>3
<1>22. ASSUME NEW p \in Procs, ProcessExits(p) PROVE PidInv'
  BY <1>22 DEF ProcessExits, machine, targets, events, profiler, output
<1>23. CASE UNCHANGED vars
  BY <1>23 DEF vars, machine, targets, events, profiler, output
<1> QED
  BY <1>1, <1>2, <1>3, <1>4, <1>5, <1>6, <1>7, <1>8, <1>9, <1>10, <1>11, <1>12, <1>13, <1>14,
     <1>15, <1>16, <1>17, <1>18, <1>19, <1>20, <1>21, <1>22, <1>23
  DEF Next, DoProfile, Handler

(* The targets' handles are closed on the way out, or when the profiler    *)
(* has its own.                                                            *)
LEMMA StepHeld == TypeInv /\ StageInv /\ HeldInv /\ [Next]_vars => HeldInv'
<1> SUFFICES ASSUME TypeInv, StageInv, HeldInv, [Next]_vars PROVE HeldInv'
  OBVIOUS
<1> USE DEF TypeInv, TypeOK, StageInv, HeldInv, Early
<1>1. CASE StartTarget
  <2>1. /\ UNCHANGED made
        /\ \/ pc' = "leaving"
           \/ pc' = "constructing" /\ \A p \in chosen' : <<"started", p>> \in open'
    BY <1>1 DEF StartTarget, CreatesSuspended, Returns, Goes, profiler
  <2>2. \A p \in Procs : <<"profiler", p>> \in open' => <<"profiler", p>> \in open
    BY <1>1 DEF StartTarget, CreatesSuspended, targets
  <2>3. ASSUME NEW p, <<"started", p>> \in open' PROVE \E h \in open' : h[2] = p
    <3>1. <<"started", p>>[2] = p
      OBVIOUS
    <3> QED BY <2>3, <3>1
  <2>4. pc = "creating"
    BY <1>1 DEF StartTarget
  <2> QED BY <2>1, <2>2, <2>3, <2>4 DEF HeldInv
<1>2. CASE GetTargets
  BY <1>2 DEF GetTargets, Returns, Goes, machine, targets, events, profiler, output
<1>3. ASSUME NEW id \in Pids, OpenTarget(id) PROVE HeldInv'
  <2>1. UNCHANGED made /\ open \subseteq open'
    BY <1>3 DEF OpenTarget, Opens, OpenFails, profiler
  <2>2. \A p \in Procs : <<"profiler", p>> \in open' => <<"profiler", p>> \in open
    BY <1>3 DEF OpenTarget, Opens, OpenFails
  <2>3. \A p \in chosen' : p \in chosen \/ <<"group", p>> \in open'
    BY <1>3 DEF OpenTarget, Opens
  <2>4. pc = "opening" /\ (pc' = "opening" \/ pc' = "leaving")
    BY <1>3 DEF OpenTarget, Goes, Returns
  <2>5. ASSUME NEW p \in chosen', ~made PROVE \E h \in open' : h[2] = p
    <3>1. <<"group", p>>[2] = p
      OBVIOUS
    <3>2. CASE p \in chosen
      BY <2>1, <2>4, <2>5, <3>2 DEF HeldInv
    <3> QED BY <2>3, <3>1, <3>2
  <2> QED BY <2>1, <2>2, <2>4, <2>5 DEF HeldInv
<1>4. CASE TargetsAreFound
  BY <1>4 DEF TargetsAreFound, Returns, Goes, machine, targets, events, profiler, output
<1>5. CASE MainIsNotPrivileged
  BY <1>5 DEF MainIsNotPrivileged, Returns, machine, targets, events, profiler, output
<1>6. CASE MainConstructs
  <2>1. CASE made'
    BY <2>1 DEF HeldInv
  <2>2. CASE ~made'
    <3>1. pc' = "leaving" /\ ~made
      BY <1>6, <2>2 DEF MainConstructs, Returns
    <3>2. \A p \in Procs : <<"profiler", p>> \in open' => <<"profiler", p>> \in open
      BY <1>6, <2>2 DEF MainConstructs, OpenFails
    <3> QED BY <3>1, <3>2 DEF HeldInv
  <2> QED BY <2>1, <2>2
<1>7. CASE MainInstalls
  BY <1>7 DEF MainInstalls, Returns, Goes, machine, targets, events, profiler, output
<1>8. CASE MainStarts
  BY <1>8
  DEF MainStarts, Profiler!Begin, Returns, Goes, machine, targets, events, profiler, output
<1>9. CASE MainResumes
  BY <1>9
  DEF MainResumes, Resumes, Closes, Profiler!Ask, Goes, machine, targets, events, profiler,
      output
<1>10. CASE MainAborts
  BY <1>10 DEF MainAborts, Returns, machine, targets, events, profiler, output
<1>11. CASE MainWaits
  BY <1>11
  DEF MainWaits, SetDetailString, PrintProgress, machine, targets, events, profiler, output
<1>12. CASE MainEnds
  BY <1>12 DEF MainEnds, Profiler!Answer, Goes, machine, targets, events, profiler, output
<1>13. CASE MainShows
  BY <1>13
  DEF MainShows, PrintProgressLine, PrintProgress, SetDetailString, SetState, StateShown,
      Returns, Goes, machine, targets, events, profiler, output
<1>14. CASE MainCompresses
  BY <1>14
  DEF MainCompresses, StartProcessFails, Returns, Goes, machine, targets, events, profiler,
      output
<1>15. CASE SevenZipEnds
  BY <1>15 DEF SevenZipEnds, Returns, machine, targets, events, profiler, output
<1>16. CASE MainLeaves
  BY <1>16 DEF MainLeaves, Terminates, Closes, Goes, machine, targets, events, profiler, output
<1>17. ASSUME NEW e \in Profiler!Ends, ProfilerEnds(e) PROVE HeldInv'
  BY <1>17 DEF ProfilerEnds, Profiler!End, machine, targets, events, profiler, output
<1>18. ASSUME NEW h \in Handlers, EventArrives(h) PROVE HeldInv'
  BY <1>18 DEF EventArrives, machine, targets, events, profiler, output
<1>19. ASSUME NEW h \in Handlers, CtrlHandler(h) PROVE HeldInv'
  BY <1>19 DEF CtrlHandler, Profiler!Ask, machine, targets, events, profiler, output
<1>20. ASSUME NEW h \in Handlers, CtrlHandlerReturns(h) PROVE HeldInv'
  BY <1>20 DEF CtrlHandlerReturns, machine, targets, events, profiler, output
<1>21. ASSUME NEW p \in Procs, ProcessStarts(p) PROVE HeldInv'
  BY <1>21 DEF ProcessStarts, PidInUse, machine, targets, events, profiler, output
<1>22. ASSUME NEW p \in Procs, ProcessExits(p) PROVE HeldInv'
  BY <1>22 DEF ProcessExits, machine, targets, events, profiler, output
<1>23. CASE UNCHANGED vars
  BY <1>23 DEF vars, machine, targets, events, profiler, output
<1> QED
  BY <1>1, <1>2, <1>3, <1>4, <1>5, <1>6, <1>7, <1>8, <1>9, <1>10, <1>11, <1>12, <1>13, <1>14,
     <1>15, <1>16, <1>17, <1>18, <1>19, <1>20, <1>21, <1>22, <1>23
  DEF Next, DoProfile, Handler

(* The profiler opens its targets by pids that we hold.                    *)
LEMMA StepProfiles == TypeInv /\ StageInv /\ PidInv /\ HeldInv /\ ProfilesTheChosen /\ [Next]_vars => ProfilesTheChosen'
<1> SUFFICES ASSUME TypeInv, StageInv, PidInv, HeldInv, ProfilesTheChosen, [Next]_vars
             PROVE  ProfilesTheChosen'
  OBVIOUS
<1> USE DEF TypeInv, TypeOK, StageInv, Early, ProfilesTheChosen, Kept
<1>1. CASE StartTarget
  BY <1>1
  DEF StartTarget, CreatesSuspended, Returns, Goes, machine, targets, events, profiler, output
<1>2. CASE GetTargets
  BY <1>2 DEF GetTargets, Returns, Goes, machine, targets, events, profiler, output
<1>3. ASSUME NEW id \in Pids, OpenTarget(id) PROVE ProfilesTheChosen'
  BY <1>3
  DEF OpenTarget, Opens, OpenFails, Holder, Returns, Goes, machine, targets, events, profiler,
      output
<1>4. CASE TargetsAreFound
  BY <1>4 DEF TargetsAreFound, Returns, Goes, machine, targets, events, profiler, output
<1>5. CASE MainIsNotPrivileged
  BY <1>5 DEF MainIsNotPrivileged, Returns, machine, targets, events, profiler, output
<1>6. CASE MainConstructs
  <2>1. CASE ~made'
    BY <2>1
  <2>2. CASE made'
    <3>1. PICK watch \in SUBSET Procs :
                /\ {pidOf[p] : p \in watch} = {pidOf[p] : p \in chosen}
                /\ \A p \in watch : p \in Holder(pidOf[p])
                /\ open' = open \cup {<<"profiler", p>> : p \in watch}
      BY <1>6, <2>2 DEF MainConstructs, Watches
    <3>2. UNCHANGED chosen /\ pc = "constructing" /\ ~made
      BY <1>6 DEF MainConstructs
    <3>3. \A p \in chosen : pidOf[p] # NoPid /\ InUse(p)
      BY <3>2 DEF HeldInv, InUse
    <3>4. \A p \in watch : pidOf[p] # NoPid /\ InUse(p)
      BY <3>1, <3>3 DEF Holder, InUse
    <3>5. \A p \in watch : p \in chosen
      BY <3>1, <3>3, <3>4 DEF PidInv
    <3>6. \A p \in chosen : p \in watch
      BY <3>1, <3>3, <3>4 DEF PidInv
    <3>7. ASSUME NEW p \in Procs PROVE <<"profiler", p>> \in open' <=> p \in watch
      <4>1. <<"profiler", p>> \notin open
        BY <3>2 DEF HeldInv
      <4>2. <<"profiler", p>> \in {<<"profiler", q>> : q \in watch} <=> p \in watch
        OBVIOUS
      <4> QED BY <3>1, <4>1, <4>2
    <3> QED BY <3>2, <3>5, <3>6, <3>7
  <2> QED BY <2>1, <2>2
<1>7. CASE MainInstalls
  BY <1>7 DEF MainInstalls, Returns, Goes, machine, targets, events, profiler, output
<1>8. CASE MainStarts
  BY <1>8
  DEF MainStarts, Profiler!Begin, Returns, Goes, machine, targets, events, profiler, output
<1>9. CASE MainResumes
  BY <1>9
  DEF MainResumes, Resumes, Closes, Profiler!Ask, Goes, machine, targets, events, profiler,
      output
<1>10. CASE MainAborts
  BY <1>10 DEF MainAborts, Returns, machine, targets, events, profiler, output
<1>11. CASE MainWaits
  BY <1>11
  DEF MainWaits, SetDetailString, PrintProgress, machine, targets, events, profiler, output
<1>12. CASE MainEnds
  BY <1>12 DEF MainEnds, Profiler!Answer, Goes, machine, targets, events, profiler, output
<1>13. CASE MainShows
  BY <1>13
  DEF MainShows, PrintProgressLine, PrintProgress, SetDetailString, SetState, StateShown,
      Returns, Goes, machine, targets, events, profiler, output
<1>14. CASE MainCompresses
  BY <1>14
  DEF MainCompresses, StartProcessFails, Returns, Goes, machine, targets, events, profiler,
      output
<1>15. CASE SevenZipEnds
  BY <1>15 DEF SevenZipEnds, Returns, machine, targets, events, profiler, output
<1>16. CASE MainLeaves
  BY <1>16 DEF MainLeaves, Terminates, Closes, Goes, machine, targets, events, profiler, output
<1>17. ASSUME NEW e \in Profiler!Ends, ProfilerEnds(e) PROVE ProfilesTheChosen'
  BY <1>17 DEF ProfilerEnds, Profiler!End, machine, targets, events, profiler, output
<1>18. ASSUME NEW h \in Handlers, EventArrives(h) PROVE ProfilesTheChosen'
  BY <1>18 DEF EventArrives, machine, targets, events, profiler, output
<1>19. ASSUME NEW h \in Handlers, CtrlHandler(h) PROVE ProfilesTheChosen'
  BY <1>19 DEF CtrlHandler, Profiler!Ask, machine, targets, events, profiler, output
<1>20. ASSUME NEW h \in Handlers, CtrlHandlerReturns(h) PROVE ProfilesTheChosen'
  BY <1>20 DEF CtrlHandlerReturns, machine, targets, events, profiler, output
<1>21. ASSUME NEW p \in Procs, ProcessStarts(p) PROVE ProfilesTheChosen'
  BY <1>21 DEF ProcessStarts, PidInUse, machine, targets, events, profiler, output
<1>22. ASSUME NEW p \in Procs, ProcessExits(p) PROVE ProfilesTheChosen'
  BY <1>22 DEF ProcessExits, machine, targets, events, profiler, output
<1>23. CASE UNCHANGED vars
  BY <1>23 DEF vars, machine, targets, events, profiler, output
<1> QED
  BY <1>1, <1>2, <1>3, <1>4, <1>5, <1>6, <1>7, <1>8, <1>9, <1>10, <1>11, <1>12, <1>13, <1>14,
     <1>15, <1>16, <1>17, <1>18, <1>19, <1>20, <1>21, <1>22, <1>23
  DEF Next, DoProfile, Handler

-------------------------------------------------------------------------------

(* All of it holds in every state of every behaviour.                      *)
LEMMA Controlled == Spec => []ControlInv
<1>1. ControlInv /\ [Next]_vars => ControlInv'
  BY StepStage, StepSuspended, StepType, StepAnswer, StepLeft, StepTrace,
     StepShown, StepStarted, StepPid, StepHeld, StepProfiles DEF ControlInv
<1> QED BY InitControl, <1>1, PTL DEF Spec

(* The state has its types: a handle is to a process that there is.        *)
THEOREM TypeCorrect == Spec => []TypeOK
<1>1. ControlInv => TypeOK
  BY DEF ControlInv, TypeInv, TypeOK
<1> QED BY Controlled, <1>1, PTL

(* Whatever fails between the start of a target and its resumption, also   *)
(* in the middle of an abort, DoProfile leaves no suspended target.         *)
THEOREM NoTargetStaysSuspended == Spec => []NoSuspendedLeft
<1>1. ControlInv => NoSuspendedLeft
  BY DEF ControlInv
<1> QED BY Controlled, <1>1, PTL

(* The two openings of a pid, by GetTargets and by the constructor of the  *)
(* profiler, reach the same process, because the first keeps its handle.   *)
THEOREM TheChosenAreProfiled == Spec => []ProfilesTheChosen
<1>1. ControlInv => ProfilesTheChosen
  BY DEF ControlInv
<1> QED BY Controlled, <1>1, PTL

(* DoProfile does not return while its profiler is at work.                *)
THEOREM NothingIsLeftRunning == Spec => []NothingLeftRunning
<1>1. ControlInv => NothingLeftRunning
  BY DEF ControlInv, StageInv, NothingLeftRunning
<1> QED BY Controlled, <1>1, PTL

(* A trace that was written is there to the end, itself or compressed.     *)
THEOREM TracesSurvive == Spec => []TraceSurvives
<1>1. ControlInv => TraceSurvives
  BY DEF ControlInv
<1> QED BY Controlled, <1>1, PTL

(* true is returned for a trace, or for a profile that somebody aborted.   *)
THEOREM SuccessIsTrue == Spec => []SuccessIsReal
<1>1. ControlInv => SuccessIsReal
  BY DEF ControlInv, AnswerInv, TypeInv, TypeOK, Profiler!Truthful, Profiler!Ends,
     Profiler!Answers, SuccessIsReal
<1> QED BY Controlled, <1>1, PTL

(* What the user reads last is how the profile has ended.                  *)
THEOREM OutcomesAreShown == Spec => []OutcomeIsShown
<1>1. ControlInv => OutcomeIsShown
  BY DEF ControlInv
<1> QED BY Controlled, <1>1, PTL

===============================================================================
