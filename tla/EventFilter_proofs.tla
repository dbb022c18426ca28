-------------------------- MODULE EventFilter_proofs --------------------------
(***************************************************************************)
(* The filter lets nothing foreign into the trace, for any number of       *)
(* processes and threads and however ids are used again; and it loses      *)
(* nothing of a thread whose id no profiled thread has had before it.      *)
(***************************************************************************)
EXTENDS EventFilter, TLAPS

(* The registry knows profiled threads, and ids that nobody has; all the   *)
(* threads of a profiled process are profiled threads.                     *)
RegistryInv ==
    /\ threads \subseteq Tids
    /\ \A t \in threads : owner[t] = NoPid \/ t \in ourThreads
    /\ \A t \in unannounced : owner[t] # NoPid /\ t \notin threads
    /\ \A t \in Tids : owner[t] \in ours => t \in ourThreads

(* The shape of what the two invariants speak about.                       *)
ShapeInv ==
    /\ owner \in [Tids -> Pids \cup {NoPid}]
    /\ marks \in [Tids -> Ticks]
    /\ ours \subseteq Pids
    /\ targetPIDs = ours

SafetyInv == ShapeInv /\ RegistryInv

(* A profiled thread is in the registry from its first event on.           *)
KnownInv ==
    /\ \A t \in ourThreads : t \in Tids /\ owner[t] # NoPid
    /\ ourThreads \ (unannounced \cup past) \subseteq threads

(* Only the ids of former threads are marked.                              *)
MarkInv ==
    /\ clock \in 0..MaxTime
    /\ \A t \in Tids : marks[t] # NoTick => t \in past

LossInv == SafetyInv /\ KnownInv /\ MarkInv

-------------------------------------------------------------------------------

(* The initial registry is empty.                                          *)
LEMMA InitSafe == Init => SafetyInv
  BY PidsAssumption DEF Init, SafetyInv, ShapeInv, RegistryInv, Ticks

(* What FilterThreadEvent does keeps the marks well formed.                *)
LEMMA MarksStayInShape ==
  ASSUME ShapeInv, clock \in 0..MaxTime, NEW t \in Tids, NEW p \in Pids \cup {NoPid}
  PROVE  /\ ThreadStarts(t, p) => marks' \in [Tids -> Ticks]
         /\ ThreadExists(t, p) => marks' \in [Tids -> Ticks]
         /\ ThreadEnds(t, p) => marks' \in [Tids -> Ticks]
  BY DEF ShapeInv, ThreadStarts, ThreadExists, ThreadEnds, Ticks

(* No step of the machine or of the filter makes the registry know a       *)
(* foreign thread.                                                         *)
LEMMA StepSafe == SafetyInv /\ clock \in 0..MaxTime /\ [Next]_vars => SafetyInv'
<1> SUFFICES ASSUME SafetyInv, clock \in 0..MaxTime, [Next]_vars
             PROVE  SafetyInv'
  OBVIOUS
<1> USE DEF SafetyInv
<1>1. CASE Tick
  BY <1>1 DEF Tick, ShapeInv, RegistryInv, truth, filter
<1>2. ASSUME NEW t \in Tids, TDCStart(t) PROVE SafetyInv'
  <2>1. owner[t] \in Pids \cup {NoPid}
    BY DEF ShapeInv
  <2>2. ShapeInv'
    BY <1>2, <2>1, MarksStayInShape DEF TDCStart, ShapeInv
  <2>3. RegistryInv'
    BY <1>2 DEF TDCStart, ThreadExists, ShapeInv, RegistryInv
  <2> QED BY <2>2, <2>3
<1>3. ASSUME NEW t \in Tids, TEnd(t) PROVE SafetyInv'
  <2>1. owner[t] \in Pids \cup {NoPid}
    BY DEF ShapeInv
  <2>2. ShapeInv'
    BY <1>3, <2>1, MarksStayInShape DEF TEnd, ShapeInv
  <2>3. RegistryInv'
    BY <1>3, PidsAssumption DEF TEnd, ThreadEnds, ShapeInv, RegistryInv
  <2> QED BY <2>2, <2>3
<1>4. ASSUME NEW t \in Tids, NEW p \in Pids, TStart(t, p) PROVE SafetyInv'
  <2>1. ShapeInv'
    BY <1>4, MarksStayInShape DEF TStart, ShapeInv
  <2>2. t \notin unannounced
    BY <1>4 DEF TStart, RegistryInv
  <2>3. /\ threads' \subseteq threads \cup {t}
        /\ p \notin ours => t \notin threads'
    BY <1>4 DEF TStart, ThreadStarts, ShapeInv
  <2>4. ourThreads' = IF p \in ours THEN ourThreads \cup {t} ELSE ourThreads
    BY <1>4 DEF TStart
  <2>5. owner' = [owner EXCEPT ![t] = p] /\ UNCHANGED <<unannounced, ours>>
    BY <1>4 DEF TStart
  <2>6. RegistryInv'
    BY <2>2, <2>3, <2>4, <2>5, PidsAssumption DEF ShapeInv, RegistryInv
  <2> QED BY <2>1, <2>6
<1>5. ASSUME NEW p \in Pids, PEnd(p) PROVE SafetyInv'
  BY <1>5 DEF PEnd, ProcessEnds, ShapeInv, RegistryInv
<1>6. ASSUME NEW p \in Pids, NEW parent \in Pids, PStart(p, parent) PROVE SafetyInv'
  BY <1>6 DEF PStart, ProcessStarts, ShapeInv, RegistryInv
<1>7. CASE UNCHANGED vars
  BY <1>7 DEF vars, ShapeInv, RegistryInv
<1> QED BY <1>1, <1>2, <1>3, <1>4, <1>5, <1>6, <1>7 DEF Next

(* The bound on the clock is kept.                                         *)
LEMMA ClockIsBounded == Spec => [](clock \in 0..MaxTime)
<1>1. Init => clock \in 0..MaxTime
  BY TimeAssumption DEF Init
<1>2. clock \in 0..MaxTime /\ [Next]_vars => (clock \in 0..MaxTime)'
  BY TimeAssumption DEF Next, vars, Tick, TDCStart, TStart, TEnd, PStart, PEnd
<1> QED BY <1>1, <1>2, PTL DEF Spec

(* SafetyInv is an invariant.                                              *)
LEMMA Safe == Spec => []SafetyInv
  BY InitSafe, StepSafe, ClockIsBounded, PTL DEF Spec

(* Exactly the events of the profiled processes and of their descendants   *)
(* are kept (FilterProcessEvent), whatever ids are used again.             *)
THEOREM TargetsStayExact == Spec => []TargetsAreExact
<1>1. SafetyInv => TargetsAreExact
  BY DEF SafetyInv, ShapeInv, TargetsAreExact, KeepsEventOf
<1> QED BY <1>1, Safe, PTL

(* No event of a foreign thread is kept (FilterThreadEvent,                *)
(* FilterSampledProfileEvent, FilterContextSwitchEvent).                   *)
THEOREM NothingForeignIsKept == Spec => []NoForeignEvent
<1>1. SafetyInv => NoForeignEvent
  BY DEF SafetyInv, RegistryInv, NoForeignEvent, Foreign, KeepsSample, KeepsSwitch
<1> QED BY <1>1, Safe, PTL

-------------------------------------------------------------------------------

(* Profiled threads are known at the start: not one has been heard of yet. *)
LEMMA InitKnown == Init => KnownInv /\ MarkInv
  BY PidsAssumption, TimeAssumption DEF Init, KnownInv, MarkInv

(* Only a former thread is ever marked, so that no clean-up takes a thread *)
(* with a fresh id.                                                        *)
LEMMA StepKnown == LossInv /\ [Next]_vars => (KnownInv /\ MarkInv)'
<1> SUFFICES ASSUME LossInv, [Next]_vars
             PROVE  (KnownInv /\ MarkInv)'
  OBVIOUS
<1> USE DEF LossInv, SafetyInv
<1>1. CASE Tick
  BY <1>1, TimeAssumption DEF Tick, KnownInv, MarkInv, truth, filter
<1>2. ASSUME NEW t \in Tids, TDCStart(t) PROVE (KnownInv /\ MarkInv)'
  <2>1. KnownInv'
    BY <1>2 DEF TDCStart, ThreadExists, ShapeInv, KnownInv
  <2>2. MarkInv'
    BY <1>2 DEF TDCStart, ThreadExists, MarkInv
  <2> QED BY <2>1, <2>2
<1>3. ASSUME NEW t \in Tids, TEnd(t) PROVE (KnownInv /\ MarkInv)'
  <2>1. KnownInv'
    BY <1>3, PidsAssumption DEF TEnd, ThreadEnds, ShapeInv, KnownInv
  <2>2. MarkInv'
    BY <1>3 DEF TEnd, ThreadEnds, ShapeInv, RegistryInv, KnownInv, MarkInv
  <2> QED BY <2>1, <2>2
<1>4. ASSUME NEW t \in Tids, NEW p \in Pids, TStart(t, p) PROVE (KnownInv /\ MarkInv)'
  <2>1. owner' = [owner EXCEPT ![t] = p] /\ UNCHANGED <<clock, unannounced, ours, past>>
    BY <1>4 DEF TStart
  <2>2. ourThreads' = IF p \in ours THEN ourThreads \cup {t} ELSE ourThreads
    BY <1>4 DEF TStart
  <2>3. t \notin ourThreads
    BY <1>4 DEF TStart, KnownInv
  <2>5. \A u \in ourThreads \ past : u \notin Expired
    BY DEF KnownInv, MarkInv, Expired
  <2>6. ourThreads' \ (unannounced' \cup past') \subseteq threads'
    BY <1>4, <2>1, <2>2, <2>3, <2>5 DEF TStart, ThreadStarts, ShapeInv, KnownInv
  <2>7. KnownInv'
    BY <2>1, <2>2, <2>6, PidsAssumption DEF ShapeInv, KnownInv
  <2>8. \A u \in Tids : marks'[u] # NoTick => marks[u] # NoTick
    BY <1>4 DEF TStart, ThreadStarts, ShapeInv
  <2>9. MarkInv'
    BY <2>1, <2>8 DEF MarkInv
  <2> QED BY <2>7, <2>9
<1>5. ASSUME NEW p \in Pids, PEnd(p) PROVE (KnownInv /\ MarkInv)'
  BY <1>5 DEF PEnd, KnownInv, MarkInv
<1>6. ASSUME NEW p \in Pids, NEW parent \in Pids, PStart(p, parent)
      PROVE  (KnownInv /\ MarkInv)'
  BY <1>6 DEF PStart, KnownInv, MarkInv
<1>7. CASE UNCHANGED vars
  BY <1>7 DEF vars, KnownInv, MarkInv
<1> QED BY <1>1, <1>2, <1>3, <1>4, <1>5, <1>6, <1>7 DEF Next

(* LossInv is an invariant.                                                *)
LEMMA Known == Spec => []LossInv
<1>1. Init => LossInv
  BY InitSafe, InitKnown DEF LossInv
<1>2. LossInv /\ [Next]_vars => LossInv'
  BY StepSafe, StepKnown DEF LossInv, MarkInv
<1> QED BY <1>1, <1>2, PTL DEF Spec

(* No sample of a running profiled thread is dropped, provided that no     *)
(* profiled thread had its id before (FilterSampledProfileEvent,           *)
(* DeleteThreadsMarkedForDeletion).                                        *)
THEOREM NothingFreshIsLost == Spec => []NoFreshSampleLost
<1>1. LossInv => NoFreshSampleLost
  BY DEF LossInv, KnownInv, NoFreshSampleLost, KeepsSample
<1> QED BY <1>1, Known, PTL

-------------------------------------------------------------------------------

(* The mark of a thread with a fresh id is the time of its end, or there   *)
(* is none, because its process had ended before it.                       *)
LateInv ==
    \A t \in Tids : owner[t] = NoPid /\ ended[t] # NoTick =>
        /\ ended[t] \in 0..MaxTime
        /\ marks[t] \in {NoTick, ended[t]}
        /\ clock < ended[t] + Grace => t \in threads

(* The variables that the safety of the filter says nothing about.         *)
RestInv ==
    /\ live \subseteq Pids
    /\ unannounced \subseteq Tids
    /\ past \subseteq Tids
    /\ ended \in [Tids -> Ticks]

FilterInv == LossInv /\ LateInv /\ RestInv

(* A clean-up takes a mark a second after the end of its thread, or later; *)
(* the clock does not go back.                                             *)
LEMMA StepLate == FilterInv /\ [Next]_vars => (LateInv /\ RestInv)'
<1> SUFFICES ASSUME FilterInv, [Next]_vars
             PROVE  (LateInv /\ RestInv)'
  OBVIOUS
<1> USE TimeAssumption, PidsAssumption
        DEF FilterInv, LossInv, SafetyInv, ShapeInv, MarkInv, LateInv, RestInv, Ticks
<1>1. CASE Tick
  BY <1>1 DEF Tick, truth, filter
<1>2. ASSUME NEW t \in Tids, TDCStart(t) PROVE (LateInv /\ RestInv)'
  BY <1>2 DEF TDCStart, ThreadExists
<1>3. ASSUME NEW t \in Tids, TEnd(t) PROVE (LateInv /\ RestInv)'
  <2>1. RestInv'
    BY <1>3 DEF TEnd
  <2>2. ASSUME NEW u \in Tids, u # t, owner'[u] = NoPid, ended'[u] # NoTick
        PROVE  ended'[u] = ended[u] /\ marks'[u] = marks[u] /\ owner[u] = NoPid
    BY <1>3, <2>2 DEF TEnd, ThreadEnds
  <2>3. UNCHANGED <<clock, threads>>
    BY <1>3 DEF TEnd, ThreadEnds
  <2>4. ASSUME ended'[t] # NoTick
        PROVE  ended'[t] = clock /\ t \in threads /\ marks'[t] \in {NoTick, clock}
    <3>1. t \in ourThreads \ (unannounced \cup past) /\ ended'[t] = clock
      BY <1>3, <2>4 DEF TEnd
    <3>2. t \in threads /\ marks[t] = NoTick
      BY <3>1 DEF KnownInv
    <3> QED BY <1>3, <3>1, <3>2 DEF TEnd, ThreadEnds
  <2>5. LateInv'
    BY <2>2, <2>3, <2>4
  <2> QED BY <2>1, <2>5
<1>4. ASSUME NEW t \in Tids, NEW p \in Pids, TStart(t, p) PROVE (LateInv /\ RestInv)'
  <2>1. RestInv'
    BY <1>4 DEF TStart
  <2>2. owner'[t] # NoPid /\ UNCHANGED clock
    BY <1>4 DEF TStart
  <2>3. ASSUME NEW u \in Tids, u # t
        PROVE  /\ ended'[u] = ended[u] /\ owner'[u] = owner[u]
               /\ marks'[u] \in {NoTick, marks[u]}
               /\ u \in threads => u \in threads' \/ u \in Expired
    BY <1>4, <2>3 DEF TStart, ThreadStarts
  <2>4. \A u \in Expired : u \in Tids /\ marks[u] # NoTick /\ clock >= marks[u] + Grace
    BY DEF Expired
  <2>5. LateInv'
    BY <2>2, <2>3, <2>4
  <2> QED BY <2>1, <2>5
<1>5. ASSUME NEW p \in Pids, PEnd(p) PROVE (LateInv /\ RestInv)'
  BY <1>5 DEF PEnd
<1>6. ASSUME NEW p \in Pids, NEW parent \in Pids, PStart(p, parent)
      PROVE  (LateInv /\ RestInv)'
  BY <1>6 DEF PStart
<1>7. CASE UNCHANGED vars
  BY <1>7 DEF vars
<1> QED BY <1>1, <1>2, <1>3, <1>4, <1>5, <1>6, <1>7 DEF Next

(* FilterInv is an invariant.                                              *)
LEMMA Filtered == Spec => []FilterInv
<1>1. Init => LateInv /\ RestInv
  BY PidsAssumption, TimeAssumption DEF Init, LateInv, RestInv, Ticks
<1>2. FilterInv /\ [Next]_vars => (LateInv /\ RestInv)'
  BY StepLate
<1> QED BY <1>1, <1>2, Known, PTL DEF Spec, FilterInv

(* Type correctness for any processes, threads and bound on the clock.     *)
THEOREM TypeCorrect == Spec => []TypeOK
<1>1. FilterInv => TypeOK
  BY DEF FilterInv, LossInv, SafetyInv, ShapeInv, RegistryInv, KnownInv, MarkInv, RestInv, TypeOK
<1> QED BY <1>1, Filtered, PTL

(* Events that come within a second after the end of their thread are kept *)
(* (ThreadRegistry::MarkForDeletion, DeleteThreadsMarkedForDeletion),      *)
(* unless its id is another thread's by then or was one's before.          *)
THEOREM LateSamplesAreKept == Spec => []LateSamplesKept
<1>1. FilterInv => LateSamplesKept
  BY DEF FilterInv, LateInv, LateSamplesKept, KeepsSample
<1> QED BY <1>1, Filtered, PTL
===============================================================================
