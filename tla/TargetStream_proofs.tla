-------------------------- MODULE TargetStream_proofs --------------------------
(***************************************************************************)
(* For any number of processes, pids and keys, and any number of events    *)
(* under way: no reference to a stack stays in the trace without the       *)
(* definition, which is in the kernel's cache or on its way.  And          *)
(* ETWProfiler's additional targets are the children of the targets that   *)
(* run, as far as the events have told of them.                            *)
(***************************************************************************)
EXTENDS TargetStream, SequenceTheorems, TLAPS

Ops == {"PStart", "PEnd", "StackKey", "StackWalkKey"}

(* What an event tells of.                                                 *)
WellFormed(e) ==
    /\ e.op \in Ops
    /\ e.op \in {"PStart", "PEnd"} => e.pid \in Pids
    /\ e.op \in {"PStart", "PEnd"} => e.proc \in Procs
    /\ e.op = "PStart" => e.from \in Pids \cup {NoPid}
    /\ e.op \in {"StackKey", "StackWalkKey"} => e.key \in Keys

QueueInv ==
    /\ \E S : queue \in Seq(S)
    /\ \A i \in DOMAIN queue : WellFormed(queue[i])

StreamInv ==
    /\ TypeOK /\ QueueInv
    /\ cached \subseteq Keys
    /\ \A p \in Procs : life[p] # "unborn" => pidOf[p] \in Pids

(* A definition comes after the reference: it still is in the cache, or    *)
(* behind the reference in the stream.                                     *)
Defines(e, k) == e.op = "StackWalkKey" /\ e.key = k

StackInv ==
    /\ StacksAreDefined
    /\ \A i \in DOMAIN queue : queue[i].op = "StackKey" =>
        \/ queue[i].key \in cached
        \/ \E j \in DOMAIN queue : j > i /\ Defines(queue[j], queue[i].key)

(* Before event i of the queue the reader of the stream takes p for alive: *)
(* its start is not to come any more, and its end is, or is not yet.       *)
Tells(e, op, p) == e.op = op /\ e.proc = p
ToCome(op, p, i) == \E j \in DOMAIN queue : j >= i /\ Tells(queue[j], op, p)

Running(p, i) ==
    /\ life[p] # "unborn"
    /\ ~ToCome("PStart", p, i)
    /\ life[p] = "alive" \/ ToCome("PEnd", p, i)

(* The machine keeps the pids of handles and of live processes apart, and  *)
(* those of the originals for good.                                        *)
PidInv ==
    /\ \A p \in ours \cup Originals \cup additional : life[p] # "unborn"
    /\ \A p, q \in Procs : InUse(p) /\ InUse(q) /\ pidOf[p] = pidOf[q] => p = q
    /\ \A p \in Procs, o \in Originals :
        life[p] # "unborn" /\ pidOf[p] = pidOf[o] => p = o

(* An event of the queue happened when its pid was right.                  *)
StartInv(i) ==
    LET p == queue[i].proc IN
    /\ p \notin Originals /\ life[p] # "unborn" /\ queue[i].pid = pidOf[p]
    /\ \A j \in DOMAIN queue : Tells(queue[j], "PStart", p) => j = i
    /\ life[p] = "dead" => ToCome("PEnd", p, i)
    /\ \A q \in Procs : Running(q, i) => pidOf[q] # pidOf[p]
    /\ p \in ours <=> \E q \in ours : Running(q, i) /\ pidOf[q] = queue[i].from

EndInv(i) ==
    LET p == queue[i].proc IN
    /\ life[p] = "dead" /\ queue[i].pid = pidOf[p]
    /\ ~ToCome("PStart", p, i)
    /\ \A j \in DOMAIN queue : Tells(queue[j], "PEnd", p) => j = i

EventInv ==
    /\ \A i \in DOMAIN queue : queue[i].op = "PStart" => StartInv(i)
    /\ \A i \in DOMAIN queue : queue[i].op = "PEnd" => EndInv(i)
    /\ \A i \in 1 .. Len(queue) + 1 : \A p, q \in Procs :
        Running(p, i) /\ Running(q, i) /\ pidOf[p] = pidOf[q] => p = q

(* The filter and the group are where the stream is.                       *)
ReaderInv ==
    /\ targetPIDs = {pidOf[p] : p \in {q \in ours : Running(q, 1)}}
    /\ \A q \in additional : \E p \in ours \ Originals :
        Running(p, 1) /\ pidOf[p] = pidOf[q]
    /\ \A p \in ours \ Originals :
        life[p] = "alive" /\ Running(p, 1) => p \in additional \cup missed
    /\ additional \cap missed = {}
    /\ \A p \in done \cup originalsDone : life[p] = "dead"
    /\ EarlyEndIsUnseen

TargetInv == PidInv /\ EventInv /\ ReaderInv

-------------------------------------------------------------------------------

(* Logging puts an event behind those that are under way.                  *)
LEMMA Logging ==
  ASSUME QueueInv, NEW e, Logs(e)
  PROVE  /\ \E S : queue' \in Seq(S)
         /\ DOMAIN queue = 1..Len(queue) /\ Len(queue) \in Nat
         /\ DOMAIN queue' = 1..(Len(queue) + 1)
         /\ \A i \in DOMAIN queue : queue'[i] = queue[i]
         /\ queue'[Len(queue) + 1] = e
<1>1. PICK S : queue \in Seq(S)
  BY DEF QueueInv
<1>2. queue' = Append(queue, e)
  BY DEF Logs
<1>3. queue \in Seq(S \cup {e}) /\ e \in S \cup {e}
  BY <1>1, SeqDef
<1> QED BY <1>2, <1>3, AppendProperties, LenProperties

(* Delivery takes the first one.                                           *)
LEMMA Delivery ==
  ASSUME QueueInv, queue # <<>>, queue' = Tail(queue)
  PROVE  /\ \E S : queue' \in Seq(S)
         /\ DOMAIN queue = 1..Len(queue) /\ Len(queue) \in Nat \ {0}
         /\ DOMAIN queue' = 1..(Len(queue) - 1)
         /\ \A i \in DOMAIN queue' : queue'[i] = queue[i + 1]
         /\ Head(queue) = queue[1]
<1>1. PICK S : queue \in Seq(S)
  BY DEF QueueInv
<1>2. Tail(queue) \in Seq(S) /\ Len(queue) \in Nat /\ DOMAIN queue = 1..Len(queue)
  BY <1>1, HeadTailProperties, LenProperties
<1>3. Len(queue) # 0
  BY <1>1, EmptySeq
<1>4. Len(Tail(queue)) = Len(queue) - 1
      /\ \A i \in 1..Len(Tail(queue)) : Tail(queue)[i] = queue[i + 1]
  BY <1>1, <1>3, HeadTailProperties
<1>5. DOMAIN Tail(queue) = 1..Len(Tail(queue))
  BY <1>2, LenProperties
<1>6. Head(queue) = queue[1]
  BY <1>1, <1>3
<1> QED BY <1>2, <1>3, <1>4, <1>5, <1>6

LEMMA LoggingKeepsQueue ==
  ASSUME QueueInv, NEW e, WellFormed(e), Logs(e)
  PROVE  QueueInv'
<1>1. \A i \in DOMAIN queue' : i \in DOMAIN queue \/ i = Len(queue) + 1
  BY Logging
<1>2. \A i \in DOMAIN queue' : WellFormed(queue'[i])
  BY <1>1, Logging DEF QueueInv
<1> QED BY <1>2, Logging DEF QueueInv

LEMMA DeliveryKeepsQueue ==
  ASSUME QueueInv, queue # <<>>, queue' = Tail(queue)
  PROVE  QueueInv' /\ WellFormed(Head(queue))
<1>1. \A i \in DOMAIN queue' : i + 1 \in DOMAIN queue
  BY Delivery
<1>2. \A i \in DOMAIN queue' : WellFormed(queue'[i])
  BY <1>1, Delivery DEF QueueInv
<1>3. 1 \in DOMAIN queue
  BY Delivery
<1> QED BY <1>2, <1>3, Delivery DEF QueueInv

(* It begins with the originals and no event.                              *)
LEMMA InitStream == Init => StreamInv /\ StackInv
<1> SUFFICES ASSUME Init PROVE StreamInv /\ StackInv
  OBVIOUS
<1>1. queue = <<>> /\ DOMAIN queue = {} /\ queue \in Seq({})
  BY EmptySeq DEF Init
<1>2. QueueInv
  BY <1>1 DEF QueueInv
<1>3. TypeOK
  BY StreamAssumption DEF Init, TypeOK
<1> QED BY <1>1, <1>2, <1>3, StreamAssumption DEF Init, StreamInv, StackInv, StacksAreDefined

(* The group gains and loses members, and done with it.                    *)
LEMMA GroupStays ==
  ASSUME StreamInv, NEW pid, ProcessStarted(pid) \/ ProcessEnded(pid)
  PROVE  /\ done' \subseteq additional' /\ additional' \subseteq Procs
         /\ missed' \subseteq Procs /\ originalsDone' \subseteq Originals
<1>1. /\ done \subseteq additional /\ additional \subseteq Procs /\ missed \subseteq Procs
      /\ originalsDone \subseteq Originals
  BY DEF StreamInv, TypeOK
<1>2. CASE UNCHANGED groups
  BY <1>1, <1>2 DEF groups
<1>3. CASE ProcessStarted(pid)
  BY <1>1, <1>3 DEF ProcessStarted, Holder, Group!Add
<1>4. CASE (\E p \in additional : Group!Delete(p)) /\ UNCHANGED <<missed, originalsDone>>
  BY <1>1, <1>4 DEF Group!Delete
<1> QED BY <1>2, <1>3, <1>4 DEF ProcessEnded

(* Every step keeps the types.                                             *)
LEMMA StepStream == StreamInv /\ [Next]_vars => StreamInv'
<1> SUFFICES ASSUME StreamInv, [Next]_vars PROVE StreamInv'
  OBVIOUS
<1> USE StreamAssumption DEF StreamInv, TypeOK
<1>1. ASSUME NEW p \in Procs, NEW parent \in Alive \cup {NoProc}, ProcessStarts(p, parent)
      PROVE  StreamInv'
  <2>1. PICK id \in Pids :
            /\ pidOf' = [pidOf EXCEPT ![p] = id]
            /\ Logs([op |-> "PStart", pid |-> id, proc |-> p,
                     from |-> IF parent = NoProc THEN NoPid ELSE pidOf[parent]])
    BY <1>1 DEF ProcessStarts
  <2>2. WellFormed([op |-> "PStart", pid |-> id, proc |-> p,
                    from |-> IF parent = NoProc THEN NoPid ELSE pidOf[parent]])
    BY DEF WellFormed, Ops, Alive
  <2>3. QueueInv'
    BY <2>1, <2>2, LoggingKeepsQueue
  <2> QED BY <1>1, <2>1, <2>3 DEF ProcessStarts, filter, groups
<1>2. ASSUME NEW p \in Procs, ProcessExits(p) PROVE StreamInv'
  <2>1. WellFormed([op |-> "PEnd", pid |-> pidOf[p], proc |-> p])
    BY <1>2 DEF ProcessExits, WellFormed, Ops
  <2>2. QueueInv'
    BY <1>2, <2>1, LoggingKeepsQueue DEF ProcessExits
  <2> QED BY <1>2, <2>2 DEF ProcessExits, filter, groups
<1>3. ASSUME NEW p \in Procs, NEW k \in Keys, StackIsWalked(p, k) PROVE StreamInv'
  <2>1. WellFormed([op |-> "StackKey", pid |-> pidOf[p], key |-> k])
    BY DEF WellFormed, Ops
  <2>2. QueueInv'
    BY <1>3, <2>1, LoggingKeepsQueue DEF StackIsWalked
  <2> QED BY <1>3, <2>2 DEF StackIsWalked, filter, groups
<1>4. ASSUME NEW k \in Keys, StackIsDefined(k) PROVE StreamInv'
  <2>1. WellFormed([op |-> "StackWalkKey", key |-> k])
    BY DEF WellFormed, Ops
  <2>2. QueueInv'
    BY <1>4, <2>1, LoggingKeepsQueue DEF StackIsDefined
  <2> QED BY <1>4, <2>2 DEF StackIsDefined, filter, groups
<1>5. CASE FilterEvent
  <2>1. QueueInv' /\ WellFormed(Head(queue))
    BY <1>5, DeliveryKeepsQueue DEF FilterEvent
  <2>2. /\ done' \subseteq additional' /\ additional' \subseteq Procs
        /\ missed' \subseteq Procs /\ originalsDone' \subseteq Originals
    BY <1>5, GroupStays DEF FilterEvent, FilterProcessEvent, FilterStackWalkEvent, groups
  <2>3. /\ targetPIDs' \subseteq Pids
        /\ stackKeys' \subseteq Keys /\ owed' \subseteq Keys
    BY <1>5, <2>1 DEF FilterEvent, FilterProcessEvent, FilterStackWalkEvent, WellFormed, Ops
  <2> QED BY <1>5, <2>1, <2>2, <2>3 DEF FilterEvent, machine
<1>6. ASSUME NEW p \in Procs, ExitIsNoticed(p) PROVE StreamInv'
  BY <1>6 DEF ExitIsNoticed, Group!Finish, machine, filter, QueueInv
<1>7. CASE IsFinished
  BY <1>7 DEF IsFinished, machine, filter, groups, QueueInv
<1>8. CASE UNCHANGED vars
  BY <1>8 DEF vars, machine, filter, groups, QueueInv
<1> QED BY <1>1, <1>2, <1>3, <1>4, <1>5, <1>6, <1>7, <1>8 DEF Next

(* What logs no definition puts nothing between a reference and its own.   *)
LEMMA LoggingKeepsStacks ==
  ASSUME QueueInv, StackInv, NEW e, Logs(e), UNCHANGED filter, cached \subseteq cached',
         e.op = "StackKey" => e.key \in cached'
  PROVE  StackInv'
<1>1. ASSUME NEW k, \E i \in DOMAIN queue : Defines(queue[i], k)
      PROVE  \E i \in DOMAIN queue' : Defines(queue'[i], k)
  BY <1>1, Logging
<1>2. StacksAreDefined'
  BY <1>1 DEF StackInv, StacksAreDefined, Defines, filter
<1>3. ASSUME NEW i \in DOMAIN queue', queue'[i].op = "StackKey"
      PROVE  \/ queue'[i].key \in cached'
             \/ \E j \in DOMAIN queue' : j > i /\ Defines(queue'[j], queue'[i].key)
  <2>1. CASE i \in DOMAIN queue
    <3>1. queue'[i] = queue[i]
      BY <2>1, Logging
    <3>2. CASE queue[i].key \in cached
      BY <3>1, <3>2
    <3>3. ASSUME NEW j \in DOMAIN queue, j > i, Defines(queue[j], queue[i].key)
          PROVE  j \in DOMAIN queue' /\ Defines(queue'[j], queue'[i].key)
      BY <3>1, <3>3, Logging
    <3> QED BY <1>3, <2>1, <3>1, <3>2, <3>3 DEF StackInv
  <2>2. CASE i = Len(queue) + 1
    BY <1>3, <2>2, Logging
  <2> QED BY <2>1, <2>2, Logging
<1> QED BY <1>2, <1>3 DEF StackInv

(* The definition that leaves the cache is behind all its references.      *)
LEMMA DefinitionIsLast ==
  ASSUME QueueInv, StackInv, NEW k \in Keys, StackIsDefined(k)
  PROVE  StackInv'
<1> DEFINE last == Len(queue) + 1
<1>1. Logs([op |-> "StackWalkKey", key |-> k]) /\ UNCHANGED filter /\ cached' = cached \ {k}
  BY DEF StackIsDefined
<1>2. last \in DOMAIN queue' /\ Defines(queue'[last], k) /\ queue'[last].op # "StackKey"
  BY <1>1, Logging DEF Defines
<1>3. \A i \in DOMAIN queue : i \in DOMAIN queue' /\ queue'[i] = queue[i] /\ last > i
  BY <1>1, Logging
<1>4. \A i \in DOMAIN queue' : i \in DOMAIN queue \/ i = last
  BY <1>1, Logging
<1>5. StacksAreDefined'
  BY <1>1, <1>2, <1>3 DEF StackInv, StacksAreDefined, Defines, filter
<1>6. ASSUME NEW i \in DOMAIN queue', queue'[i].op = "StackKey"
      PROVE  \/ queue'[i].key \in cached'
             \/ \E j \in DOMAIN queue' : j > i /\ Defines(queue'[j], queue'[i].key)
  <2>1. i \in DOMAIN queue /\ queue'[i] = queue[i]
    BY <1>2, <1>3, <1>4, <1>6
  <2>2. CASE queue[i].key = k
    BY <1>2, <1>3, <2>1, <2>2
  <2>3. CASE queue[i].key \in cached \ {k}
    BY <1>1, <2>1, <2>3
  <2>4. ASSUME NEW j \in DOMAIN queue, j > i, Defines(queue[j], queue[i].key)
        PROVE  j \in DOMAIN queue' /\ Defines(queue'[j], queue'[i].key)
    BY <1>3, <2>1, <2>4
  <2> QED BY <1>6, <2>1, <2>2, <2>3, <2>4 DEF StackInv
<1> QED BY <1>5, <1>6 DEF StackInv

(* FilterStackWalkEvent remembers a key that it lets through, and forgets  *)
(* it when it lets the definition through.                                 *)
LEMMA FilteringKeepsStacks ==
  ASSUME QueueInv, StackInv, FilterEvent
  PROVE  StackInv'
<1> DEFINE e == Head(queue)
<1>1. queue # <<>> /\ queue' = Tail(queue) /\ UNCHANGED cached
  BY DEF FilterEvent, machine
<1>2. 1 \in DOMAIN queue /\ e = queue[1]
  BY <1>1, Delivery
<1>3. ASSUME NEW j \in DOMAIN queue, j > 1
      PROVE  j - 1 \in DOMAIN queue' /\ queue'[j - 1] = queue[j]
  BY <1>1, <1>3, Delivery
<1>4. \A j \in DOMAIN queue : j = 1 \/ j > 1
  BY <1>1, Delivery
<1>5. \A i \in DOMAIN queue' : i + 1 \in DOMAIN queue /\ queue'[i] = queue[i + 1] /\ i \in Nat
  BY <1>1, Delivery
<1>6. ASSUME NEW i \in DOMAIN queue', queue'[i].op = "StackKey"
      PROVE  \/ queue'[i].key \in cached'
             \/ \E j \in DOMAIN queue' : j > i /\ Defines(queue'[j], queue'[i].key)
  <2>1. CASE queue[i + 1].key \in cached
    BY <1>1, <1>5, <2>1
  <2>2. ASSUME NEW j \in DOMAIN queue, j > i + 1, Defines(queue[j], queue[i + 1].key)
        PROVE  \E m \in DOMAIN queue' : m > i /\ Defines(queue'[m], queue'[i].key)
    <3>1. j - 1 \in DOMAIN queue' /\ queue'[j - 1] = queue[j] /\ j - 1 > i
      BY <1>1, <1>3, <1>5, <2>2, Delivery
    <3> QED BY <1>5, <2>2, <3>1
  <2> QED BY <1>5, <1>6, <2>1, <2>2 DEF StackInv
<1>7. owed' \subseteq stackKeys'
  BY DEF FilterEvent, FilterProcessEvent, FilterStackWalkEvent, StackInv, StacksAreDefined
<1>8. ASSUME NEW k \in owed'
      PROVE  k \in cached' \/ \E i \in DOMAIN queue' : Defines(queue'[i], k)
  <2>1. CASE k \in owed /\ ~Defines(e, k)
    BY <1>1, <1>2, <1>3, <1>4, <2>1 DEF StackInv, StacksAreDefined, Defines
  <2>2. CASE e.op = "StackKey" /\ e.key = k
    BY <1>1, <1>2, <1>3, <2>2 DEF StackInv
  <2>3. (k \in owed /\ ~Defines(e, k)) \/ (e.op = "StackKey" /\ e.key = k)
    BY <1>8 DEF FilterEvent, FilterProcessEvent, FilterStackWalkEvent, StackInv,
                StacksAreDefined, Defines
  <2> QED BY <2>1, <2>2, <2>3
<1> QED BY <1>6, <1>7, <1>8 DEF StackInv, StacksAreDefined, Defines

(* Nobody else touches the stacks.                                         *)
LEMMA StepStack == StreamInv /\ StackInv /\ [Next]_vars => StackInv'
<1> SUFFICES ASSUME StreamInv, StackInv, [Next]_vars PROVE StackInv'
  OBVIOUS
<1>0. QueueInv
  BY DEF StreamInv
<1>1. ASSUME NEW p \in Procs, NEW parent \in Alive \cup {NoProc}, ProcessStarts(p, parent)
      PROVE  StackInv'
  BY <1>0, <1>1, LoggingKeepsStacks DEF ProcessStarts
<1>2. ASSUME NEW p \in Procs, ProcessExits(p) PROVE StackInv'
  BY <1>0, <1>2, LoggingKeepsStacks DEF ProcessExits
<1>3. ASSUME NEW p \in Procs, NEW k \in Keys, StackIsWalked(p, k) PROVE StackInv'
  BY <1>0, <1>3, LoggingKeepsStacks DEF StackIsWalked
<1>4. ASSUME NEW k \in Keys, StackIsDefined(k) PROVE StackInv'
  BY <1>0, <1>4, DefinitionIsLast
<1>5. CASE FilterEvent
  BY <1>0, <1>5, FilteringKeepsStacks
<1>6. ASSUME NEW p \in Procs, ExitIsNoticed(p) PROVE StackInv'
  BY <1>6 DEF ExitIsNoticed, machine, filter, StackInv, StacksAreDefined
<1>7. CASE IsFinished
  BY <1>7 DEF IsFinished, machine, filter, StackInv, StacksAreDefined
<1>8. CASE UNCHANGED vars
  BY <1>8 DEF vars, machine, filter, StackInv, StacksAreDefined
<1> QED BY <1>1, <1>2, <1>3, <1>4, <1>5, <1>6, <1>7, <1>8 DEF Next

(* What is to come after an event is logged, and after one is delivered.   *)
LEMMA ToComeWhenLogged ==
  ASSUME QueueInv, NEW e, Logs(e), NEW op, NEW p
  PROVE  /\ \A i \in 1 .. Len(queue) + 1 :
                ToCome(op, p, i)' <=> ToCome(op, p, i) \/ Tells(e, op, p)
         /\ \A i \in Nat : i > Len(queue) + 1 => ~ToCome(op, p, i)'
<1> DEFINE n == Len(queue)
<1>1. /\ DOMAIN queue = 1 .. n /\ n \in Nat /\ DOMAIN queue' = 1 .. n + 1
      /\ \A i \in DOMAIN queue : queue'[i] = queue[i]
      /\ queue'[n + 1] = e
  BY Logging
<1> HIDE DEF n
<1>2. \A i \in 1 .. n + 1 : ToCome(op, p, i) => ToCome(op, p, i)'
  BY <1>1 DEF ToCome, Tells
<1>3. \A i \in 1 .. n + 1 : Tells(e, op, p) => ToCome(op, p, i)'
  BY <1>1 DEF ToCome, Tells
<1>4. \A i \in 1 .. n + 1 : ToCome(op, p, i)' => ToCome(op, p, i) \/ Tells(e, op, p)
  BY <1>1 DEF ToCome, Tells
<1>5. \A i \in Nat : i > n + 1 => ~ToCome(op, p, i)'
  BY <1>1 DEF ToCome
<1> QED BY <1>2, <1>3, <1>4, <1>5 DEF n

LEMMA ToComeWhenDelivered ==
  ASSUME QueueInv, queue # <<>>, queue' = Tail(queue), NEW op, NEW p
  PROVE  \A i \in 1 .. Len(queue) : ToCome(op, p, i)' <=> ToCome(op, p, i + 1)
<1> DEFINE n == Len(queue)
<1>1. /\ DOMAIN queue = 1 .. n /\ n \in Nat \ {0} /\ DOMAIN queue' = 1 .. n - 1
      /\ \A i \in DOMAIN queue' : queue'[i] = queue[i + 1]
  BY Delivery
<1> HIDE DEF n
<1>2. ASSUME NEW i \in 1 .. n, ToCome(op, p, i)' PROVE ToCome(op, p, i + 1)
  <2>1. PICK j \in 1 .. n - 1 : j >= i /\ Tells(queue[j + 1], op, p)
    BY <1>1, <1>2 DEF ToCome, Tells
  <2>2. j + 1 \in 1 .. n /\ j + 1 >= i + 1
    BY <1>1, <2>1
  <2> QED BY <1>1, <2>1, <2>2 DEF ToCome
<1>3. ASSUME NEW i \in 1 .. n, ToCome(op, p, i + 1) PROVE ToCome(op, p, i)'
  <2>1. PICK j \in 1 .. n : j >= i + 1 /\ Tells(queue[j], op, p)
    BY <1>1, <1>3 DEF ToCome
  <2>2. j - 1 \in 1 .. n - 1 /\ j - 1 >= i /\ (j - 1) + 1 = j
    BY <1>1, <2>1
  <2>3. Tells(queue'[j - 1], op, p)
    BY <1>1, <2>1, <2>2
  <2> QED BY <1>1, <2>2, <2>3 DEF ToCome, Tells
<1> QED BY <1>2, <1>3 DEF n

(* The machine lives on, and e tells of it.                                *)
MachineStep(e) ==
    \A p \in Procs :
        /\ life[p] = "unborn" =>
            life'[p] = "unborn" \/ (life'[p] = "alive" /\ Tells(e, "PStart", p))
        /\ life[p] = "alive" =>
            life'[p] = "alive" \/ (life'[p] = "dead" /\ Tells(e, "PEnd", p))
        /\ life[p] = "dead" => life'[p] = "dead"
        /\ life[p] # "unborn" => pidOf'[p] = pidOf[p] /\ (p \in ours' <=> p \in ours)
        /\ Tells(e, "PStart", p) => life[p] = "unborn"
        /\ Tells(e, "PEnd", p) => life[p] = "alive"

(* What happens now changes nothing for a reader who is not there yet.     *)
LEMMA RunningWhenLogged ==
  ASSUME StreamInv, NEW e, Logs(e), MachineStep(e), NEW p \in Procs
  PROVE  /\ \A i \in 1 .. Len(queue) + 1 : Running(p, i)' <=> Running(p, i)
         /\ \A i \in Nat : i > Len(queue) + 1 => (Running(p, i)' <=> life'[p] = "alive")
<1>1. QueueInv /\ life[p] \in {"unborn", "alive", "dead"}
  BY DEF StreamInv, TypeOK
<1>2. ASSUME NEW i \in 1 .. Len(queue) + 1 PROVE Running(p, i)' <=> Running(p, i)
  <2>1. /\ ToCome("PStart", p, i)' <=> ToCome("PStart", p, i) \/ Tells(e, "PStart", p)
        /\ ToCome("PEnd", p, i)' <=> ToCome("PEnd", p, i) \/ Tells(e, "PEnd", p)
    BY <1>1, ToComeWhenLogged
  <2> QED BY <1>1, <2>1 DEF MachineStep, Running
<1>3. \A i \in Nat : i > Len(queue) + 1 =>
        ~ToCome("PStart", p, i)' /\ ~ToCome("PEnd", p, i)'
  BY <1>1, ToComeWhenLogged
<1> QED BY <1>2, <1>3 DEF Running

LEMMA RunningWhenDelivered ==
  ASSUME StreamInv, queue # <<>>, queue' = Tail(queue), UNCHANGED life, NEW p
  PROVE  \A i \in 1 .. Len(queue) : Running(p, i)' <=> Running(p, i + 1)
<1>1. QueueInv
  BY DEF StreamInv
<1> QED BY <1>1, ToComeWhenDelivered DEF Running

(* A live process whose start has been delivered runs; at the end of the   *)
(* queue these are all.                                                    *)
LEMMA RunningAtEnd ==
  ASSUME StreamInv, NEW p \in Procs
  PROVE  Running(p, Len(queue) + 1) <=> life[p] = "alive"
<1>1. DOMAIN queue = 1 .. Len(queue) /\ Len(queue) \in Nat
  BY LenProperties DEF StreamInv, QueueInv
<1>2. \A op : ~ToCome(op, p, Len(queue) + 1)
  BY <1>1 DEF ToCome
<1> QED BY <1>2 DEF Running

(* The events under way stay right.                                        *)
LEMMA EventsStay ==
  ASSUME StreamInv, StreamInv', EventInv, NEW e, Logs(e), MachineStep(e),
         NEW i \in DOMAIN queue
  PROVE  /\ i \in DOMAIN queue' /\ queue'[i] = queue[i]
         /\ queue[i].op = "PStart" => StartInv(i)'
         /\ queue[i].op = "PEnd" => EndInv(i)'
<1> DEFINE n == Len(queue)
<1>0. PICK p : p = queue[i].proc
  OBVIOUS
<1>1. QueueInv /\ ours \subseteq Procs /\ ours' \subseteq Procs
  BY DEF StreamInv, TypeOK
<1>2. /\ DOMAIN queue = 1 .. n /\ n \in Nat /\ DOMAIN queue' = 1 .. n + 1
      /\ \A j \in DOMAIN queue : queue'[j] = queue[j]
      /\ queue'[n + 1] = e
      /\ i \in 1 .. n /\ i \in 1 .. n + 1
  BY <1>1, Logging
<1>3. queue[i].op \in {"PStart", "PEnd"} => p \in Procs
  BY <1>0, <1>1 DEF QueueInv, WellFormed
<1>4. \A op, q : ToCome(op, q, i)' <=> ToCome(op, q, i) \/ Tells(e, op, q)
  BY <1>1, <1>2, ToComeWhenLogged
<1>5. \A q \in Procs : Running(q, i)' <=> Running(q, i)
  BY <1>2, RunningWhenLogged
<1>6. \A op, q : (\A j \in DOMAIN queue : Tells(queue[j], op, q) => j = i) /\ ~Tells(e, op, q)
        => \A j \in DOMAIN queue' : Tells(queue'[j], op, q) => j = i
  BY <1>2
<1>7. \A q \in Procs : Running(q, i) => life[q] # "unborn"
  BY DEF Running
<1>8. ASSUME queue[i].op = "PStart" PROVE StartInv(i)'
  <2>1. StartInv(i) /\ p \in Procs /\ life[p] \in {"alive", "dead"}
    BY <1>0, <1>3, <1>8 DEF EventInv, StartInv, StreamInv, TypeOK
  <2>2. ~Tells(e, "PStart", p) /\ life'[p] # "unborn" /\ pidOf'[p] = pidOf[p]
        /\ (p \in ours' <=> p \in ours)
    BY <1>0, <2>1 DEF MachineStep, StartInv
  <2>3. life'[p] = "dead" => ToCome("PEnd", p, i)'
    BY <1>0, <1>4, <2>1 DEF MachineStep, StartInv
  <2>4. \A q \in Procs : Running(q, i)' => pidOf'[q] # pidOf'[p]
    BY <1>0, <1>5, <1>7, <2>1, <2>2 DEF MachineStep, StartInv
  <2>5. (\E q \in ours' : Running(q, i)' /\ pidOf'[q] = queue[i].from)
        <=> \E q \in ours : Running(q, i) /\ pidOf[q] = queue[i].from
    BY <1>1, <1>5, <1>7 DEF MachineStep
  <2>6. \A j \in DOMAIN queue' : Tells(queue'[j], "PStart", p) => j = i
    BY <1>0, <1>6, <2>1, <2>2 DEF StartInv
  <2> QED BY <1>0, <1>2, <2>1, <2>2, <2>3, <2>4, <2>5, <2>6 DEF StartInv, Tells
<1>9. ASSUME queue[i].op = "PEnd" PROVE EndInv(i)'
  <2>1. EndInv(i) /\ p \in Procs
    BY <1>3, <1>9 DEF EventInv
  <2>2. life'[p] = "dead" /\ pidOf'[p] = pidOf[p]
        /\ ~Tells(e, "PStart", p) /\ ~Tells(e, "PEnd", p)
    BY <1>0, <2>1 DEF MachineStep, EndInv
  <2>3. \A j \in DOMAIN queue' : Tells(queue'[j], "PEnd", p) => j = i
    BY <1>0, <1>6, <2>1, <2>2 DEF EndInv
  <2>4. ~ToCome("PStart", p, i)'
    BY <1>0, <1>4, <2>1, <2>2 DEF EndInv
  <2> QED BY <1>0, <1>2, <2>1, <2>2, <2>3, <2>4 DEF EndInv, Tells
<1> QED BY <1>2, <1>8, <1>9

(* With the new one, if it is right.                                       *)
LEMMA LoggingKeepsEvents ==
  ASSUME StreamInv, StreamInv', EventInv, PidInv', NEW e, Logs(e), MachineStep(e),
         NEW last, last = Len(queue) + 1,
         e.op = "PStart" => StartInv(last)', e.op = "PEnd" => EndInv(last)'
  PROVE  EventInv'
<1>1. QueueInv
  BY DEF StreamInv
<1>2. /\ Len(queue) \in Nat /\ DOMAIN queue' = 1 .. last /\ queue'[last] = e
      /\ \A i \in DOMAIN queue' : i \in DOMAIN queue \/ i = last
  BY <1>1, Logging
<1>3. \A i \in DOMAIN queue' : /\ queue'[i].op = "PStart" => StartInv(i)'
                               /\ queue'[i].op = "PEnd" => EndInv(i)'
  BY <1>2, EventsStay
<1>4. Len(queue') = last
  <2>1. \E S : queue' \in Seq(S)
    BY <1>1, Logging
  <2> QED BY <1>2, <2>1, LenProperties
<1>5. ASSUME NEW i \in 1 .. last + 1, NEW p \in Procs, NEW q \in Procs,
             Running(p, i)', Running(q, i)', pidOf'[p] = pidOf'[q]
      PROVE  p = q
  <2>1. CASE i \in 1 .. last
    <3>1. Running(p, i) /\ Running(q, i)
      BY <1>2, <1>5, <2>1, RunningWhenLogged
    <3>2. pidOf[p] = pidOf[q]
      BY <1>5, <3>1 DEF MachineStep, Running
    <3> QED BY <2>1, <3>1, <3>2 DEF EventInv
  <2>2. CASE i = last + 1
    <3>1. life'[p] = "alive" /\ life'[q] = "alive"
      BY <1>2, <1>5, <2>2, RunningWhenLogged
    <3> QED BY <1>5, <3>1 DEF PidInv, InUse, Alive
  <2> QED BY <1>2, <2>1, <2>2
<1> QED BY <1>3, <1>4, <1>5 DEF EventInv

(* The filter and the group do not move; who exits is missed no longer.    *)
LEMMA LoggingKeepsReader ==
  ASSUME StreamInv, StreamInv', PidInv, ReaderInv, NEW e, Logs(e), MachineStep(e), ~finished,
         UNCHANGED <<targetPIDs, additional, done, originalsDone, finished>>,
         missed' \subseteq missed, \A p \in missed : life'[p] = "alive" => p \in missed'
  PROVE  ReaderInv'
<1>1. /\ ours \subseteq Procs /\ ours' \subseteq Procs
      /\ additional \subseteq Procs /\ done \cup originalsDone \subseteq Procs
      /\ \A p \in Procs : life[p] \in {"unborn", "alive", "dead"}
  BY StreamAssumption DEF StreamInv, TypeOK
<1>2. 1 \in 1 .. Len(queue) + 1
  BY LenProperties DEF StreamInv, QueueInv
<1>3. \A p \in Procs : Running(p, 1)' <=> Running(p, 1)
  BY <1>2, RunningWhenLogged
<1>4. \A p \in Procs : Running(p, 1) => life[p] # "unborn"
  BY DEF Running
<1>5. \A p \in Procs : Running(p, 1) => pidOf'[p] = pidOf[p] /\ (p \in ours' <=> p \in ours)
  BY <1>4 DEF MachineStep
<1>6. {pidOf'[p] : p \in {q \in ours' : Running(q, 1)'}}
      = {pidOf[p] : p \in {q \in ours : Running(q, 1)}}
  BY <1>1, <1>3, <1>5
<1>7. \A q \in additional : \E p \in ours' \ Originals :
        Running(p, 1)' /\ pidOf'[p] = pidOf'[q]
  <2> SUFFICES ASSUME NEW q \in additional
               PROVE  \E p \in ours' \ Originals : Running(p, 1)' /\ pidOf'[p] = pidOf'[q]
    OBVIOUS
  <2>1. PICK p \in ours \ Originals : Running(p, 1) /\ pidOf[p] = pidOf[q]
    BY DEF ReaderInv
  <2>2. pidOf'[q] = pidOf[q]
    BY <1>1 DEF MachineStep, PidInv
  <2> QED BY <1>1, <1>3, <1>5, <2>1, <2>2
<1>8. \A p \in ours' \ Originals :
        life'[p] = "alive" /\ Running(p, 1)' => p \in additional \cup missed'
  BY <1>1, <1>3, <1>4, <1>5 DEF MachineStep, ReaderInv
<1>9. \A p \in done \cup originalsDone : life'[p] = "dead"
  BY <1>1 DEF MachineStep, ReaderInv
<1>10. additional \cap missed' = {}
  BY DEF ReaderInv
<1> QED BY <1>6, <1>7, <1>8, <1>9, <1>10 DEF ReaderInv, EarlyEndIsUnseen

(* A process starts with a pid that nobody holds, as the child of who has  *)
(* the pid of its parent.                                                  *)
LEMMA StartsKeepTargets ==
  ASSUME StreamInv, StreamInv', TargetInv, ~finished,
         NEW p \in Procs, NEW parent \in Alive \cup {NoProc}, ProcessStarts(p, parent)
  PROVE  TargetInv'
<1> USE DEF TargetInv
<1>1. PICK id, e, last :
        /\ id \in Pids /\ Holder(id) = {}
        /\ pidOf' = [pidOf EXCEPT ![p] = id]
        /\ e = [op |-> "PStart", pid |-> id, proc |-> p,
                from |-> IF parent = NoProc THEN NoPid ELSE pidOf[parent]]
        /\ Logs(e)
        /\ last = Len(queue) + 1
  BY DEF ProcessStarts
<1>2. /\ life[p] = "unborn" /\ life' = [life EXCEPT ![p] = "alive"]
      /\ ours' = IF parent \in ours THEN ours \cup {p} ELSE ours
      /\ UNCHANGED <<filter, groups, finished>>
  BY DEF ProcessStarts
<1>3. /\ pidOf \in [Procs -> Pids \cup {NoPid}] /\ life \in [Procs -> {"unborn", "alive", "dead"}]
      /\ ours \subseteq Procs /\ additional \subseteq Procs /\ QueueInv
      /\ \A q \in Procs : life[q] # "unborn" => pidOf[q] \in Pids
  BY DEF StreamInv, TypeOK
<1>4. p \notin ours \cup Originals \cup additional
  BY <1>2 DEF PidInv
<1>5. ASSUME NEW q \in Procs, q # p
      PROVE  life'[q] = life[q] /\ pidOf'[q] = pidOf[q] /\ (q \in ours' <=> q \in ours)
             /\ (InUse(q)' <=> InUse(q))
  BY <1>1, <1>2, <1>3, <1>5 DEF InUse, Alive, groups
<1>6. life'[p] = "alive" /\ pidOf'[p] = id
  BY <1>1, <1>2, <1>3
<1>7. MachineStep(e)
  <2>1. \A q \in Procs : ~Tells(e, "PEnd", q) /\ (Tells(e, "PStart", q) <=> q = p)
    BY <1>1 DEF Tells
  <2> QED BY <1>2, <1>5, <1>6, <2>1 DEF MachineStep
<1>8. PidInv'
  <2>1. \A q \in ours' \cup Originals \cup additional' : life'[q] # "unborn"
    BY <1>2, <1>3, <1>5, <1>6, StreamAssumption DEF PidInv, groups
  <2>2. \A q \in Procs : q # p /\ InUse(q) => pidOf[q] # id
    BY <1>1 DEF Holder
  <2>3. \A q, r \in Procs : InUse(q)' /\ InUse(r)' /\ pidOf'[q] = pidOf'[r] => q = r
    BY <1>5, <1>6, <2>2 DEF PidInv
  <2>4. \A o \in Originals : InUse(o)
    BY <1>3, StreamAssumption DEF PidInv, InUse, Alive
  <2>5. \A q \in Procs, o \in Originals :
            life'[q] # "unborn" /\ pidOf'[q] = pidOf'[o] => q = o
    BY <1>4, <1>5, <1>6, <2>2, <2>4, StreamAssumption DEF PidInv
  <2> QED BY <2>1, <2>3, <2>5 DEF PidInv
<1>9. StartInv(last)'
  <2>1. /\ queue'[last] = e /\ last \in Nat /\ last \in 1 .. last
        /\ DOMAIN queue' = 1 .. last /\ DOMAIN queue = 1 .. last - 1
        /\ \A i \in DOMAIN queue : queue'[i] = queue[i]
    BY <1>1, <1>3, Logging
  <2>2. \A q \in Procs : Running(q, last)' <=> life[q] = "alive"
    BY <1>1, <1>7, <2>1, RunningWhenLogged, RunningAtEnd
  <2>3. \A j \in DOMAIN queue' : Tells(queue'[j], "PStart", p) => j = last
    <3>1. \A j \in DOMAIN queue : ~Tells(queue[j], "PStart", p)
      BY <1>2 DEF EventInv, StartInv, Tells
    <3> QED BY <2>1, <3>1
  <2>4. \A q \in Procs : Running(q, last)' => pidOf'[q] # pidOf'[p]
    BY <1>1, <1>2, <1>5, <1>6, <2>2 DEF Holder, InUse, Alive
  <2>5. p \in ours' <=> \E q \in ours' : Running(q, last)' /\ pidOf'[q] = e.from
    <3>1. p \in ours' <=> parent \in ours
      BY <1>2, <1>4
    <3>2. CASE parent = NoProc
      <4>1. e.from = NoPid /\ parent \notin ours
        BY <1>1, <1>3, <3>2, StreamAssumption
      <4>2. \A q \in Procs : Running(q, last)' => pidOf'[q] \in Pids
        BY <1>2, <1>3, <1>5, <2>2
      <4> QED BY <1>3, <1>5, <1>2, <3>1, <4>1, <4>2, StreamAssumption
    <3>3. CASE parent \in Alive
      <4>1. e.from = pidOf[parent] /\ parent \in Procs /\ life[parent] = "alive" /\ parent # p
        BY <1>1, <1>2, <3>3, StreamAssumption DEF Alive
      <4>2. \A q \in Procs : life[q] = "alive" /\ pidOf[q] = pidOf[parent] => q = parent
        BY <4>1 DEF PidInv, InUse, Alive
      <4> QED BY <1>2, <1>3, <1>5, <2>2, <3>1, <4>1, <4>2
    <3> QED BY <3>2, <3>3
  <2> QED BY <1>1, <1>4, <1>6, <2>1, <2>3, <2>4, <2>5 DEF StartInv
<1>10. EventInv'
  BY <1>1, <1>7, <1>8, <1>9, LoggingKeepsEvents
<1>11. ReaderInv'
  BY <1>1, <1>2, <1>7, LoggingKeepsReader DEF filter, groups
<1> QED BY <1>8, <1>10, <1>11

(* A process exits, and keeps its pid as long as there is a handle.        *)
LEMMA ExitsKeepTargets ==
  ASSUME StreamInv, StreamInv', TargetInv, ~finished, NEW p \in Procs, ProcessExits(p)
  PROVE  TargetInv'
<1> USE DEF TargetInv
<1>1. PICK e, last :
        /\ e = [op |-> "PEnd", pid |-> pidOf[p], proc |-> p]
        /\ Logs(e)
        /\ last = Len(queue) + 1
  BY DEF ProcessExits
<1>2. /\ life[p] = "alive" /\ life' = [life EXCEPT ![p] = "dead"]
      /\ UNCHANGED <<pidOf, ours, filter, additional, done, originalsDone, finished>>
      /\ missed' = missed \ {p}
  BY DEF ProcessExits
<1>3. life \in [Procs -> {"unborn", "alive", "dead"}] /\ QueueInv /\ additional \subseteq Procs
      /\ ours \subseteq Procs
  BY DEF StreamInv, TypeOK
<1>4. life'[p] = "dead" /\ \A q \in Procs : q # p => life'[q] = life[q]
  BY <1>2, <1>3
<1>5. MachineStep(e)
  <2>1. \A q \in Procs : ~Tells(e, "PStart", q) /\ (Tells(e, "PEnd", q) <=> q = p)
    BY <1>1 DEF Tells
  <2> QED BY <1>2, <1>4, <2>1 DEF MachineStep
<1>6. PidInv'
  <2>1. \A q \in Procs : InUse(q)' => InUse(q)
    BY <1>2, <1>4 DEF InUse, Alive
  <2>2. \A q \in Procs : life'[q] # "unborn" <=> life[q] # "unborn"
    BY <1>2, <1>4
  <2> QED BY <1>2, <1>3, <2>1, <2>2, StreamAssumption DEF PidInv
<1>7. EndInv(last)'
  <2>1. /\ queue'[last] = e /\ last \in Nat
        /\ DOMAIN queue' = 1 .. last /\ DOMAIN queue = 1 .. last - 1
        /\ \A i \in DOMAIN queue : queue'[i] = queue[i]
    BY <1>1, <1>3, Logging
  <2>2. \A j \in DOMAIN queue' : Tells(queue'[j], "PEnd", p) => j = last
    <3>1. \A j \in DOMAIN queue : ~Tells(queue[j], "PEnd", p)
      BY <1>2 DEF EventInv, EndInv, Tells
    <3> QED BY <2>1, <3>1
  <2>3. ~ToCome("PStart", p, last)'
    <3>1. \A j \in DOMAIN queue' : j >= last => j = last
      BY <2>1
    <3>2. ~Tells(e, "PStart", p)
      BY <1>1 DEF Tells
    <3> QED BY <2>1, <3>1, <3>2 DEF ToCome
  <2> QED BY <1>1, <1>2, <1>4, <2>1, <2>2, <2>3 DEF EndInv
<1>8. EventInv'
  BY <1>1, <1>5, <1>6, <1>7, LoggingKeepsEvents
<1>9. ReaderInv'
  <2>1. \A q \in missed : life'[q] = "alive" => q \in missed'
    BY <1>2, <1>4
  <2> QED BY <1>1, <1>2, <1>5, <2>1, LoggingKeepsReader DEF filter
<1> QED BY <1>6, <1>8, <1>9

(* The stacks are not about processes.                                     *)
LEMMA StacksKeepTargets ==
  ASSUME StreamInv, StreamInv', TargetInv, ~finished, NEW e, Logs(e),
         e.op \notin {"PStart", "PEnd"},
         UNCHANGED <<life, pidOf, ours, filter, groups, finished>>
  PROVE  TargetInv'
<1> USE DEF TargetInv
<1>1. MachineStep(e)
  BY DEF MachineStep, Tells, StreamInv, TypeOK
<1>2. PidInv'
  BY DEF PidInv, InUse, Alive, groups
<1>3. EventInv'
  BY <1>1, <1>2, LoggingKeepsEvents
<1>4. ReaderInv'
  BY <1>1, LoggingKeepsReader DEF filter, groups
<1> QED BY <1>2, <1>3, <1>4

(* Delivery brings every event nearer, and the reader one event on.        *)
LEMMA EventsMoveUp ==
  ASSUME StreamInv, EventInv, queue # <<>>, queue' = Tail(queue),
         UNCHANGED <<life, pidOf, ours>>
  PROVE  EventInv'
<1> DEFINE n == Len(queue)
<1>1. QueueInv
  BY DEF StreamInv
<1>2. /\ DOMAIN queue = 1 .. n /\ n \in Nat \ {0} /\ DOMAIN queue' = 1 .. n - 1
      /\ \A i \in 1 .. n - 1 : queue'[i] = queue[i + 1] /\ i + 1 \in 1 .. n /\ i \in 1 .. n
      /\ Len(queue') + 1 = n
  BY <1>1, Delivery, LenProperties
<1>3. \A i \in 1 .. n : \A q : Running(q, i)' <=> Running(q, i + 1)
  BY RunningWhenDelivered
<1>4. \A i \in 1 .. n : \A op, q : ToCome(op, q, i)' <=> ToCome(op, q, i + 1)
  BY <1>1, ToComeWhenDelivered
<1>5. ASSUME NEW i \in 1 .. n - 1, NEW op, NEW p,
             \A j \in DOMAIN queue : Tells(queue[j], op, p) => j = i + 1
      PROVE  \A j \in DOMAIN queue' : Tells(queue'[j], op, p) => j = i
  <2>1. \A j \in 1 .. n - 1 : Tells(queue[j + 1], op, p) => j + 1 = i + 1
    BY <1>2, <1>5
  <2> QED BY <1>2, <2>1
<1>6. ASSUME NEW i \in 1 .. n - 1, queue'[i].op = "PStart" PROVE StartInv(i)'
  <2>1. PICK p : p = queue[i + 1].proc /\ p = queue'[i].proc
    BY <1>2
  <2>2. StartInv(i + 1)
    BY <1>2, <1>6 DEF EventInv
  <2>3. \A j \in DOMAIN queue' : Tells(queue'[j], "PStart", p) => j = i
    BY <1>5, <2>1, <2>2 DEF StartInv
  <2>4. life[p] = "dead" => ToCome("PEnd", p, i)'
    BY <1>2, <1>4, <2>1, <2>2 DEF StartInv
  <2> QED BY <1>2, <1>3, <2>1, <2>2, <2>3, <2>4 DEF StartInv
<1>7. ASSUME NEW i \in 1 .. n - 1, queue'[i].op = "PEnd" PROVE EndInv(i)'
  <2>1. PICK p : p = queue[i + 1].proc /\ p = queue'[i].proc
    BY <1>2
  <2>2. EndInv(i + 1)
    BY <1>2, <1>7 DEF EventInv
  <2>3. \A j \in DOMAIN queue' : Tells(queue'[j], "PEnd", p) => j = i
    BY <1>5, <2>1, <2>2 DEF EndInv
  <2>4. ~ToCome("PStart", p, i)'
    BY <1>2, <1>4, <2>1, <2>2 DEF EndInv
  <2> QED BY <1>2, <2>1, <2>2, <2>3, <2>4 DEF EndInv
<1>8. \A i \in 1 .. n : \A p, q \in Procs :
        Running(p, i)' /\ Running(q, i)' /\ pidOf'[p] = pidOf'[q] => p = q
  <2>1. \A i \in 1 .. n : i + 1 \in 1 .. n + 1
    BY <1>2
  <2> QED BY <1>3, <2>1 DEF EventInv
<1> QED BY <1>2, <1>6, <1>7, <1>8 DEF EventInv

(* What is to come is the next event, or comes after it.                   *)
LEMMA HeadIsNext ==
  ASSUME DOMAIN queue = 1 .. Len(queue), Len(queue) \in Nat \ {0}, NEW op, NEW q
  PROVE  ToCome(op, q, 1) <=> ToCome(op, q, 2) \/ Tells(queue[1], op, q)
<1>1. \A j \in DOMAIN queue : j = 1 \/ j >= 2
  OBVIOUS
<1>2. 1 \in DOMAIN queue /\ \A j \in DOMAIN queue : j >= 2 => j >= 1
  OBVIOUS
<1> QED BY <1>1, <1>2 DEF ToCome

(* A start that is heard makes its process run; an end, no longer.         *)
LEMMA StartIsHeard ==
  ASSUME StreamInv, EventInv, queue # <<>>, Head(queue).op = "PStart"
  PROVE  \E p \in Procs :
            /\ Head(queue).proc = p /\ StartInv(1) /\ Head(queue) = queue[1]
            /\ \A q \in Procs : Running(q, 2) <=> Running(q, 1) \/ q = p
<1>1. QueueInv /\ DOMAIN queue = 1 .. Len(queue) /\ Len(queue) \in Nat \ {0} /\ Head(queue) = queue[1]
  BY EmptySeq, LenProperties DEF StreamInv, QueueInv
<1>2. PICK p \in Procs : queue[1].proc = p
  BY <1>1 DEF QueueInv, WellFormed
<1>3. StartInv(1)
  BY <1>1 DEF EventInv
<1>4. \A op, q : ToCome(op, q, 1) <=> ToCome(op, q, 2) \/ Tells(queue[1], op, q)
  BY <1>1, HeadIsNext
<1>5. ~ToCome("PStart", p, 2) /\ Tells(queue[1], "PStart", p)
  BY <1>1, <1>2, <1>3 DEF StartInv, ToCome, Tells
<1>6. \A q \in Procs : q # p => ~Tells(queue[1], "PStart", q)
  BY <1>2 DEF Tells
<1>7. \A q : ~Tells(queue[1], "PEnd", q)
  BY <1>1 DEF Tells
<1>8. life[p] = "alive" \/ ToCome("PEnd", p, 2)
  BY <1>2, <1>3, <1>4, <1>7 DEF StartInv, StreamInv, TypeOK
<1>9. \A q \in Procs : Running(q, 2) <=> Running(q, 1) \/ q = p
  BY <1>2, <1>3, <1>4, <1>5, <1>6, <1>7, <1>8 DEF Running, StartInv
<1> QED BY <1>1, <1>2, <1>3, <1>9

LEMMA EndIsHeard ==
  ASSUME StreamInv, EventInv, queue # <<>>, Head(queue).op = "PEnd"
  PROVE  \E p \in Procs :
            /\ Head(queue).proc = p /\ EndInv(1) /\ Head(queue) = queue[1] /\ Running(p, 1)
            /\ \A q \in Procs : Running(q, 2) <=> Running(q, 1) /\ q # p
<1>1. QueueInv /\ DOMAIN queue = 1 .. Len(queue) /\ Len(queue) \in Nat \ {0} /\ Head(queue) = queue[1]
  BY EmptySeq, LenProperties DEF StreamInv, QueueInv
<1>2. PICK p \in Procs : queue[1].proc = p
  BY <1>1 DEF QueueInv, WellFormed
<1>3. EndInv(1)
  BY <1>1 DEF EventInv
<1>4. \A op, q : ToCome(op, q, 1) <=> ToCome(op, q, 2) \/ Tells(queue[1], op, q)
  BY <1>1, HeadIsNext
<1>5. ~ToCome("PEnd", p, 2) /\ Tells(queue[1], "PEnd", p)
  BY <1>1, <1>2, <1>3 DEF EndInv, ToCome, Tells
<1>6. \A q : ~Tells(queue[1], "PStart", q) /\ (q # p => ~Tells(queue[1], "PEnd", q))
  BY <1>1, <1>2 DEF Tells
<1>7. Running(p, 1)
  BY <1>2, <1>3, <1>4, <1>5 DEF EndInv, Running
<1>8. \A q \in Procs : Running(q, 2) <=> Running(q, 1) /\ q # p
  BY <1>2, <1>3, <1>4, <1>5, <1>6 DEF Running, EndInv
<1> QED BY <1>1, <1>2, <1>3, <1>7, <1>8

(* What is opened by a pid is what holds it now.                           *)
LEMMA FilterKeepsPids ==
  ASSUME StreamInv, TargetInv, FilterEvent
  PROVE  PidInv'
<1> USE DEF TargetInv
<1>1. UNCHANGED <<life, pidOf, ours>> /\ additional \subseteq Procs
  BY DEF FilterEvent, machine, StreamInv, TypeOK
<1>2. ASSUME NEW q \in additional' PROVE q \in additional \/ (q \in Procs /\ InUse(q))
  BY <1>2 DEF FilterEvent, FilterProcessEvent, FilterStackWalkEvent, ProcessStarted,
              ProcessEnded, groups, Group!Add, Group!Delete, Holder
<1>3. \A q \in Procs : InUse(q)' => InUse(q)
  BY <1>1, <1>2 DEF InUse, Alive
<1>4. \A q \in additional' : life[q] # "unborn"
  BY <1>2, StreamAssumption DEF PidInv, InUse, Alive
<1> QED BY <1>1, <1>3, <1>4 DEF PidInv

(* The start of a target is followed by who has its pid: if it is alive,   *)
(* that is the target.                                                     *)
LEMMA StartKeepsReader ==
  ASSUME StreamInv, TargetInv, ~finished, FilterEvent, Head(queue).op = "PStart"
  PROVE  ReaderInv'
<1> USE DEF TargetInv
<1> DEFINE e == Head(queue)
<1>1. /\ queue # <<>> /\ queue' = Tail(queue) /\ UNCHANGED <<life, pidOf, ours, finished>>
      /\ FilterProcessEvent(e)
  BY DEF FilterEvent, machine
<1>2. PICK p \in Procs :
        /\ e.proc = p /\ StartInv(1) /\ e = queue[1]
        /\ \A q \in Procs : Running(q, 2) <=> Running(q, 1) \/ q = p
  BY <1>1, StartIsHeard
<1>3. /\ p \notin Originals /\ life[p] # "unborn" /\ e.pid = pidOf[p]
      /\ \A q \in Procs : Running(q, 1) => pidOf[q] # pidOf[p]
      /\ p \in ours <=> \E q \in ours : Running(q, 1) /\ pidOf[q] = e.from
  BY <1>2 DEF StartInv
<1>4. 1 \in 1 .. Len(queue) /\ ours \subseteq Procs /\ additional \subseteq Procs
  BY <1>1, EmptySeq, LenProperties DEF StreamInv, TypeOK, QueueInv
<1>5. \A q \in Procs : Running(q, 1)' <=> Running(q, 1) \/ q = p
  BY <1>1, <1>2, <1>4, RunningWhenDelivered
<1>6. e.pid \notin targetPIDs /\ (e.from \in targetPIDs <=> p \in ours)
  BY <1>3, <1>4 DEF ReaderInv
<1> HIDE DEF e
<1>7. originalsDone' = originalsDone /\ done' = done
  BY <1>1 DEF FilterProcessEvent, ProcessStarted, ProcessEnded, groups, Group!Add, e
<1>8. CASE p \in ours
  <2>1. targetPIDs' = targetPIDs \cup {e.pid} /\ ProcessStarted(e.pid)
    BY <1>1, <1>6, <1>8 DEF FilterProcessEvent, e
  <2>2. targetPIDs' = {pidOf[q] : q \in {r \in ours : Running(r, 1)'}}
    BY <1>3, <1>4, <1>5, <1>8, <2>1 DEF ReaderInv
  <2>3. \A q \in additional' : q \in additional \/ pidOf[q] = pidOf[p]
    BY <1>3, <2>1 DEF ProcessStarted, Holder, Group!Add, groups
  <2>4. \A q \in additional' : \E r \in ours \ Originals :
            Running(r, 1)' /\ pidOf[r] = pidOf[q]
    <3> SUFFICES ASSUME NEW q \in additional'
                 PROVE  \E r \in ours \ Originals : Running(r, 1)' /\ pidOf[r] = pidOf[q]
      OBVIOUS
    <3>1. CASE q \in additional
      <4>1. PICK r \in ours \ Originals : Running(r, 1) /\ pidOf[r] = pidOf[q]
        BY <3>1 DEF ReaderInv
      <4> QED BY <1>4, <1>5, <4>1
    <3>2. CASE pidOf[q] = pidOf[p]
      BY <1>3, <1>5, <1>8, <3>2
    <3> QED BY <2>3, <3>1, <3>2
  <2>5. additional \subseteq additional'
    BY <2>1 DEF ProcessStarted, Group!Add, groups
  <2>6. life[p] = "alive" => p \in additional' \cup missed'
    <3> SUFFICES ASSUME life[p] = "alive" PROVE p \in additional' \cup missed'
      OBVIOUS
    <3>1. InUse(p) /\ p \in Holder(e.pid) /\ p \in Alive
      BY <1>3 DEF Holder, InUse, Alive
    <3>2. \A q \in Holder(e.pid) : q = p
      BY <1>3, <3>1 DEF Holder, PidInv
    <3> QED BY <2>1, <3>1, <3>2 DEF ProcessStarted, Group!Add
  <2>7. \A q \in additional : q \notin Holder(e.pid)
    <3>1. \A q \in additional : pidOf[q] # pidOf[p]
      BY <1>3, <1>4 DEF ReaderInv
    <3> QED BY <1>3, <3>1 DEF Holder
  <2>8. additional' \cap missed' = {} /\ missed \subseteq additional' \cup missed'
    BY <2>1, <2>7 DEF ProcessStarted, Group!Add, ReaderInv
  <2>9. \A q \in ours \ Originals :
            life[q] = "alive" /\ Running(q, 1)' => q \in additional' \cup missed'
    BY <1>4, <1>5, <2>5, <2>6, <2>8 DEF ReaderInv
  <2> QED BY <1>1, <1>7, <2>2, <2>4, <2>8, <2>9 DEF ReaderInv, EarlyEndIsUnseen
<1>9. CASE p \notin ours
  <2>1. targetPIDs' = targetPIDs /\ additional' = additional /\ missed' = missed
    BY <1>1, <1>6, <1>9 DEF FilterProcessEvent, groups, e
  <2>2. \A q \in ours : Running(q, 1)' <=> Running(q, 1)
    BY <1>4, <1>5, <1>9
  <2> QED BY <1>1, <1>7, <2>1, <2>2 DEF ReaderInv, EarlyEndIsUnseen
<1> QED BY <1>8, <1>9

(* The end of a target takes the one of its pid from the group, which is   *)
(* no live target.                                                         *)
LEMMA EndKeepsReader ==
  ASSUME StreamInv, TargetInv, ~finished, FilterEvent, Head(queue).op = "PEnd"
  PROVE  ReaderInv'
<1> USE DEF TargetInv
<1> DEFINE e == Head(queue)
<1>1. /\ queue # <<>> /\ queue' = Tail(queue) /\ UNCHANGED <<life, pidOf, ours, finished>>
      /\ FilterProcessEvent(e)
  BY DEF FilterEvent, machine
<1>2. PICK p \in Procs :
        /\ e.proc = p /\ EndInv(1) /\ e = queue[1] /\ Running(p, 1)
        /\ \A q \in Procs : Running(q, 2) <=> Running(q, 1) /\ q # p
  BY <1>1, EndIsHeard
<1>3. life[p] = "dead" /\ e.pid = pidOf[p]
  BY <1>2 DEF EndInv
<1>4. 1 \in 1 .. Len(queue) /\ 1 \in 1 .. Len(queue) + 1
      /\ ours \subseteq Procs /\ additional \subseteq Procs /\ done \subseteq additional
  BY <1>1, EmptySeq, LenProperties DEF StreamInv, TypeOK, QueueInv
<1>5. \A q \in Procs : Running(q, 1)' <=> Running(q, 1) /\ q # p
  BY <1>1, <1>2, <1>4, RunningWhenDelivered
<1>6. \A q \in Procs : Running(q, 1) /\ pidOf[q] = pidOf[p] => q = p
  BY <1>2, <1>4 DEF EventInv
<1>7. e.pid \in targetPIDs <=> p \in ours
  BY <1>2, <1>3, <1>4, <1>6 DEF ReaderInv
<1>8. \A q, r \in additional : pidOf[q] = pidOf[r] => q = r
  BY <1>4 DEF PidInv, InUse
<1> HIDE DEF e
<1>9. originalsDone' = originalsDone /\ done' \subseteq done
  BY <1>1 DEF FilterProcessEvent, ProcessStarted, ProcessEnded, groups, Group!Add,
              Group!Delete, e
<1>10. CASE p \in ours
  <2>1. targetPIDs' = targetPIDs \ {e.pid} /\ ProcessEnded(e.pid)
    BY <1>1, <1>7, <1>10 DEF FilterProcessEvent, e
  <2>2. targetPIDs' = {pidOf[q] : q \in {r \in ours : Running(r, 1)'}}
    BY <1>2, <1>3, <1>4, <1>5, <1>6, <2>1 DEF ReaderInv
  <2>3. additional' = {q \in additional : pidOf[q] # pidOf[p]} /\ missed' = missed
    BY <1>3, <1>8, <2>1 DEF ProcessEnded, Group!Delete, groups
  <2>4. \A q \in additional' : \E r \in ours \ Originals :
            Running(r, 1)' /\ pidOf[r] = pidOf[q]
    <3> SUFFICES ASSUME NEW q \in additional'
                 PROVE  \E r \in ours \ Originals : Running(r, 1)' /\ pidOf[r] = pidOf[q]
      OBVIOUS
    <3>1. PICK r \in ours \ Originals : Running(r, 1) /\ pidOf[r] = pidOf[q]
      BY <2>3 DEF ReaderInv
    <3> QED BY <1>4, <1>5, <2>3, <3>1
  <2>5. \A q \in ours \ Originals :
            life[q] = "alive" /\ Running(q, 1)' => q \in additional' \cup missed'
    BY <1>4, <1>5, <1>6, <2>3 DEF ReaderInv
  <2> QED BY <1>1, <1>9, <2>2, <2>3, <2>4, <2>5 DEF ReaderInv, EarlyEndIsUnseen
<1>11. CASE p \notin ours
  <2>1. targetPIDs' = targetPIDs /\ additional' = additional /\ missed' = missed
    BY <1>1, <1>7, <1>11 DEF FilterProcessEvent, groups, e
  <2>2. \A q \in ours : Running(q, 1)' <=> Running(q, 1)
    BY <1>4, <1>5, <1>11
  <2> QED BY <1>1, <1>9, <2>1, <2>2 DEF ReaderInv, EarlyEndIsUnseen
<1> QED BY <1>10, <1>11

LEMMA StackKeepsReader ==
  ASSUME StreamInv, TargetInv, ~finished, FilterEvent, Head(queue).op \notin {"PStart", "PEnd"}
  PROVE  ReaderInv'
<1> USE DEF TargetInv
<1>1. /\ queue # <<>> /\ queue' = Tail(queue)
      /\ UNCHANGED <<life, pidOf, ours, finished, targetPIDs, groups>>
  BY DEF FilterEvent, FilterStackWalkEvent, machine
<1>2. DOMAIN queue = 1 .. Len(queue) /\ Len(queue) \in Nat \ {0} /\ Head(queue) = queue[1]
  BY <1>1, EmptySeq, LenProperties DEF StreamInv, QueueInv
<1>3. \A q : ToCome("PStart", q, 1) <=> ToCome("PStart", q, 2)
  BY <1>2, HeadIsNext DEF Tells
<1>4. \A q : ToCome("PEnd", q, 1) <=> ToCome("PEnd", q, 2)
  BY <1>2, HeadIsNext DEF Tells
<1>5. \A q : Running(q, 1)' <=> Running(q, 1)
  BY <1>1, <1>2, <1>3, <1>4, RunningWhenDelivered DEF Running
<1> QED BY <1>1, <1>5 DEF ReaderInv, EarlyEndIsUnseen, groups

(* A process that has exited is noticed, in its group.                     *)
LEMMA NoticeKeepsTargets ==
  ASSUME StreamInv, TargetInv, ~finished, NEW p \in Procs, ExitIsNoticed(p)
  PROVE  TargetInv'
<1> USE DEF TargetInv
<1>1. /\ UNCHANGED <<life, pidOf, ours, queue, targetPIDs, additional, missed, finished>>
      /\ life[p] = "dead"
      /\ done' \cup originalsDone' \subseteq done \cup originalsDone \cup {p}
  BY DEF ExitIsNoticed, Group!Finish, machine, filter
<1>2. PidInv'
  BY <1>1 DEF PidInv, InUse, Alive
<1>3. \A q, i : Running(q, i)' <=> Running(q, i)
  BY <1>1 DEF Running, ToCome
<1>4. \A op, q, i : ToCome(op, q, i)' <=> ToCome(op, q, i)
  BY <1>1 DEF ToCome
<1>5. EventInv'
  BY <1>1, <1>3, <1>4 DEF EventInv, StartInv, EndInv
<1>6. ReaderInv'
  BY <1>1, <1>3 DEF ReaderInv, EarlyEndIsUnseen
<1> QED BY <1>2, <1>5, <1>6

(* Where the profile ends there is no live target but one that could not   *)
(* be opened, or whose start is still to come.                             *)
LEMMA FinishKeepsTargets ==
  ASSUME StreamInv, TargetInv, IsFinished
  PROVE  TargetInv'
<1> USE DEF TargetInv
<1>1. /\ UNCHANGED <<life, pidOf, ours, queue, targetPIDs, additional, done, missed, originalsDone>>
      /\ originalsDone = Originals /\ done = additional
  BY DEF IsFinished, HaveAllTargetProcessesExited, machine, filter, groups
<1>2. PidInv'
  BY <1>1 DEF PidInv, InUse, Alive
<1>3. \A q, i : Running(q, i)' <=> Running(q, i)
  BY <1>1 DEF Running, ToCome
<1>4. \A op, q, i : ToCome(op, q, i)' <=> ToCome(op, q, i)
  BY <1>1 DEF ToCome
<1>5. EventInv'
  BY <1>1, <1>3, <1>4 DEF EventInv, StartInv, EndInv
<1>6. ASSUME NEW p \in (Alive \cap ours) \ missed
      PROVE  \E i \in DOMAIN queue : queue[i].op = "PStart" /\ queue[i].proc = p
  <2>1. p \notin additional /\ p \notin Originals
    BY <1>1, <1>6 DEF ReaderInv, Alive
  <2>2. ~Running(p, 1)
    BY <1>6, <2>1 DEF ReaderInv, Alive
  <2> QED BY <1>6, <2>2 DEF Running, ToCome, Tells, Alive
<1>7. EarlyEndIsUnseen'
  BY <1>1, <1>6 DEF EarlyEndIsUnseen, Alive
<1>8. ReaderInv'
  BY <1>1, <1>3, <1>7 DEF ReaderInv
<1> QED BY <1>2, <1>5, <1>8

LEMMA StepTargets == StreamInv /\ TargetInv /\ [Next]_vars => TargetInv'
<1> SUFFICES ASSUME StreamInv, TargetInv, [Next]_vars PROVE TargetInv'
  OBVIOUS
<1>0. StreamInv'
  BY StepStream
<1>1. CASE UNCHANGED vars
  <2>1. UNCHANGED <<life, pidOf, ours, queue, targetPIDs, additional, done, missed, originalsDone, finished>>
    BY <1>1 DEF vars, machine, filter, groups
  <2>2. \A q, i : (Running(q, i)' <=> Running(q, i)) /\ (InUse(q)' <=> InUse(q))
    BY <2>1 DEF Running, ToCome, InUse, Alive
  <2>3. \A op, q, i : ToCome(op, q, i)' <=> ToCome(op, q, i)
    BY <2>1 DEF ToCome
  <2>4. PidInv'
    BY <2>1, <2>2 DEF TargetInv, PidInv
  <2>5. EventInv'
    BY <2>1, <2>2, <2>3 DEF TargetInv, EventInv, StartInv, EndInv
  <2>6. ReaderInv'
    BY <2>1, <2>2 DEF TargetInv, ReaderInv, EarlyEndIsUnseen, Alive
  <2> QED BY <2>4, <2>5, <2>6 DEF TargetInv
<1>2. ASSUME ~finished, NEW p \in Procs, NEW parent \in Alive \cup {NoProc},
             ProcessStarts(p, parent)
      PROVE  TargetInv'
  BY <1>0, <1>2, StartsKeepTargets
<1>3. ASSUME ~finished, NEW p \in Procs, ProcessExits(p) PROVE TargetInv'
  BY <1>0, <1>3, ExitsKeepTargets
<1>4. ASSUME ~finished, NEW p \in Procs, NEW k \in Keys, StackIsWalked(p, k) PROVE TargetInv'
  <2>1. [op |-> "StackKey", pid |-> pidOf[p], key |-> k].op \notin {"PStart", "PEnd"}
    OBVIOUS
  <2> QED BY <1>0, <1>4, <2>1, StacksKeepTargets DEF StackIsWalked
<1>5. ASSUME ~finished, NEW k \in Keys, StackIsDefined(k) PROVE TargetInv'
  <2>1. [op |-> "StackWalkKey", key |-> k].op \notin {"PStart", "PEnd"}
    OBVIOUS
  <2> QED BY <1>0, <1>5, <2>1, StacksKeepTargets DEF StackIsDefined
<1>6. CASE ~finished /\ FilterEvent
  <2>1. PidInv'
    BY <1>6, FilterKeepsPids
  <2>2. EventInv'
    BY <1>6, EventsMoveUp DEF FilterEvent, machine, TargetInv
  <2>3. ReaderInv'
    BY <1>6, StartKeepsReader, EndKeepsReader, StackKeepsReader
  <2> QED BY <2>1, <2>2, <2>3 DEF TargetInv
<1>7. ASSUME ~finished, NEW p \in Procs, ExitIsNoticed(p) PROVE TargetInv'
  BY <1>7, NoticeKeepsTargets
<1>8. CASE IsFinished
  BY <1>8, FinishKeepsTargets
<1> QED BY <1>1, <1>2, <1>3, <1>4, <1>5, <1>6, <1>7, <1>8 DEF Next

LEMMA InitTargets == Init => TargetInv
<1> SUFFICES ASSUME Init PROVE TargetInv
  OBVIOUS
<1>1. queue = <<>> /\ DOMAIN queue = {} /\ Len(queue) = 0
  BY EmptySeq, LenProperties DEF Init
<1>2. PidInv
  BY StreamAssumption DEF Init, PidInv, InUse, Alive
<1>3. \A q \in Procs, i \in {1} : Running(q, i) <=> q \in Originals
  BY <1>1 DEF Init, Running, ToCome
<1>4. EventInv
  <2>1. \A i \in 1 .. Len(queue) + 1 : i \in {1}
    BY <1>1
  <2> QED BY <1>1, <1>3, <2>1, StreamAssumption DEF EventInv, Init
<1>5. ReaderInv
  BY <1>3, StreamAssumption DEF Init, ReaderInv, EarlyEndIsUnseen
<1> QED BY <1>2, <1>4, <1>5 DEF TargetInv

-------------------------------------------------------------------------------

(* Type correctness; finished additional targets are additional targets.   *)
THEOREM TypeCorrect == Spec => []TypeOK
<1>1. StreamInv => TypeOK
  BY DEF StreamInv
<1> QED BY <1>1, InitStream, StepStream, PTL DEF Spec

(* No reference to a stack is kept whose definition is dropped             *)
(* (FilterStackWalkEvent), although the kernel's cache is everybody's.     *)
THEOREM StacksStayDefined == Spec => []StacksAreDefined
<1>1. StackInv => StacksAreDefined
  BY DEF StackInv
<1> QED BY <1>1, InitStream, StepStream, StepStack, PTL DEF Spec

(* Whatever the pids have meant in between, once the events have come the  *)
(* group of additional targets (ProcessStarted, ProcessEnded) is the live  *)
(* children of the targets, but those that could not be opened.            *)
THEOREM TheGroupIsCurrent == Spec => []GroupIsCurrent
<1>1. StreamInv /\ TargetInv => GroupIsCurrent
  <2> SUFFICES ASSUME StreamInv, TargetInv, queue = <<>>
               PROVE  additional = (Alive \cap ours) \ (Originals \cup missed)
    BY DEF GroupIsCurrent
  <2>1. Len(queue) = 0 /\ ours \subseteq Procs /\ additional \subseteq Procs
    BY EmptySeq DEF StreamInv, TypeOK
  <2>2. \A p \in Procs : Running(p, 1) <=> life[p] = "alive"
    BY <2>1, RunningAtEnd
  <2>3. ASSUME NEW q \in additional PROVE q \in (Alive \cap ours) \ Originals
    <3>1. PICK p \in ours \ Originals : Running(p, 1) /\ pidOf[p] = pidOf[q]
      BY DEF TargetInv, ReaderInv
    <3>2. p \in Alive /\ InUse(p) /\ InUse(q)
      BY <2>1, <2>2, <3>1 DEF InUse, Alive
    <3> QED BY <2>1, <3>1, <3>2 DEF TargetInv, PidInv
  <2>4. (Alive \cap ours) \ (Originals \cup missed) \subseteq additional
    BY <2>1, <2>2 DEF TargetInv, ReaderInv, Alive
  <2>5. additional \cap missed = {}
    BY DEF TargetInv, ReaderInv
  <2> QED BY <2>3, <2>4, <2>5
<1> QED BY <1>1, InitStream, InitTargets, StepStream, StepTargets, PTL DEF Spec

(* What ProcessStarted opens is never in the group already, by its pid or  *)
(* another process with the same one: Add asserts it.                      *)
THEOREM AddedIsNew == Spec => []AddIsNew
<1>1. StreamInv /\ TargetInv => AddIsNew
  <2> SUFFICES ASSUME StreamInv, TargetInv, queue # <<>>, Head(queue).op = "PStart",
                      NEW q \in additional \cup Originals
               PROVE  pidOf[q] # Head(queue).pid
    BY DEF AddIsNew
  <2>1. PICK p \in Procs : Head(queue).proc = p /\ StartInv(1) /\ Head(queue) = queue[1]
    BY StartIsHeard DEF TargetInv
  <2>2. /\ p \notin Originals /\ life[p] # "unborn" /\ Head(queue).pid = pidOf[p]
        /\ \A r \in Procs : Running(r, 1) => pidOf[r] # pidOf[p]
    BY <2>1 DEF StartInv
  <2>3. CASE q \in Originals
    BY <2>1, <2>2, <2>3 DEF TargetInv, PidInv
  <2>4. CASE q \in additional
    <3>1. PICK r \in ours : Running(r, 1) /\ pidOf[r] = pidOf[q]
      BY <2>4 DEF TargetInv, ReaderInv
    <3> QED BY <2>2, <3>1 DEF StreamInv, TypeOK
  <2> QED BY <2>3, <2>4
<1> QED BY <1>1, InitStream, InitTargets, StepStream, StepTargets, PTL DEF Spec

(* HaveAllTargetProcessesExited is true over a live child only while its   *)
(* start is under way, or if opening it has failed.                        *)
THEOREM EarlyEndsAreUnseen == Spec => []EarlyEndIsUnseen
<1>1. TargetInv => EarlyEndIsUnseen
  BY DEF TargetInv, ReaderInv
<1> QED BY <1>1, InitStream, InitTargets, StepStream, StepTargets, PTL DEF Spec
===============================================================================
