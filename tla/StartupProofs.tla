--------------------------- MODULE StartupProofs ---------------------------
(***************************************************************************)
(* For a roster and a queue of any size: the barrier makes the process     *)
(* ready no sooner than the whole roster is projected, the queue is a      *)
(* faithful part of the stream, and no report overtakes the registration   *)
(* of its vehicle.                                                         *)
(*                                                                         *)
(* The argument is one of positions.  What was projected and what is       *)
(* queued are together what was sent, and then the barrier if it is on its *)
(* way (Flow); the first RosterSize records sent are the registrations, in *)
(* roster order (Roster); the barrier is posted behind them, so it is      *)
(* reached when they have been projected (Progress).                       *)
(***************************************************************************)
EXTENDS Startup, SequenceTheorems, TLAPS

Records == Items \ {Barrier}

Types ==
  /\ main \in {"replaying", "waiting", "launching", "serving", "exited"}
  /\ replayed \in 0..RosterSize
  /\ queue \in Seq(Items) /\ Len(queue) <= QueueDepth
  /\ barrier \in {"open", "closed"}
  /\ ingest \in {"running", "stopped"}
  /\ lifecycle \in {"STARTING", "READY"}
  /\ source \in {"unstarted", "ticking", "stepping", "stopped"}
  /\ closer \in {"unstarted", "waiting", "shutting"}
  /\ cancelled \in BOOLEAN
  /\ sent \in Seq(Records) /\ projected \in Seq(Records)

\* The barrier has been posted and not yet been reached.
Underway == main = "waiting" /\ barrier = "open"

Stream == IF Underway THEN Append(sent, Barrier) ELSE sent

Flow == projected \o queue = Stream

\* Main goes on only when the barrier has been reached, and starts the source
\* later still.
Progress ==
  /\ main = "replaying" => barrier = "open"
  /\ main \notin {"replaying", "waiting"} => barrier = "closed"
  /\ main \in {"replaying", "waiting"} => lifecycle = "STARTING"
  /\ main \in {"replaying", "waiting", "launching"} => source = "unstarted"
  /\ main # "replaying" => replayed = RosterSize
  /\ barrier = "closed" => Len(projected) >= RosterSize

Roster ==
  /\ Len(sent) >= replayed
  /\ source = "unstarted" => Len(sent) = replayed
  /\ \A i \in 1..Len(sent) :
       IF i <= RosterSize THEN sent[i] = Registration(i) ELSE sent[i].kind = "report"

IInv == Types /\ Flow /\ Progress /\ Roster

---------------------------------------------------------------------------
LEMMA Push ==
  ASSUME NEW S, NEW p \in Seq(S), NEW q \in Seq(S), NEW x \in S
  PROVE  p \o Append(q, x) = Append(p \o q, x)
<1>1. p \o Append(q, x) \in Seq(S) /\ Append(p \o q, x) \in Seq(S)
  OBVIOUS
<1>2. Len(p \o Append(q, x)) = Len(Append(p \o q, x))
  OBVIOUS
<1>3. \A i \in 1..Len(p \o Append(q, x)) : (p \o Append(q, x))[i] = Append(p \o q, x)[i]
  OBVIOUS
<1>4. QED
  BY <1>1, <1>2, <1>3, SeqEqual

LEMMA Pop ==
  ASSUME NEW S, NEW p \in Seq(S), NEW q \in Seq(S), q # <<>>
  PROVE  Append(p, Head(q)) \o Tail(q) = p \o q
<1>0. Head(q) \in S /\ Tail(q) \in Seq(S) /\ Len(q) > 0 /\ Head(q) = q[1]
  OBVIOUS
<1>1. Append(p, Head(q)) \o Tail(q) \in Seq(S) /\ p \o q \in Seq(S)
  BY <1>0
<1>2. Len(Append(p, Head(q)) \o Tail(q)) = Len(p \o q)
  BY <1>0
<1>3. \A i \in 1..Len(p \o q) : (Append(p, Head(q)) \o Tail(q))[i] = (p \o q)[i]
  BY <1>0
<1>4. QED
  BY <1>1, <1>2, <1>3, SeqEqual

LEMMA ItemsOf ==
  /\ \A v \in Fleet : Registration(v) \in Records /\ Report(v) \in Records
  /\ \A r \in Records : IsRecord(r) /\ r \in Items /\ r.vehicle \in Fleet
                        /\ r.kind \in {"registration", "report"}
  /\ Barrier \in Items /\ ~IsRecord(Barrier)
  /\ \A x \in Items : IsRecord(x) => x \in Records
BY DEF Records, Items, Registration, Report, Barrier, IsRecord

\* What stands in the queue is the part of the stream that is not yet projected.
LEMMA InQueue ==
  ASSUME Types, Flow, queue # <<>>
  PROVE  /\ IsRecord(Head(queue)) => Head(queue) \in Records
         /\ ~IsRecord(Head(queue)) =>
              Underway /\ Tail(queue) = <<>> /\ projected = sent
<1>1. /\ projected \in Seq(Items) /\ sent \in Seq(Items) /\ queue \in Seq(Items)
      /\ Head(queue) \in Items /\ Head(queue) = queue[1] /\ Len(queue) >= 1
  BY DEF Types, Records
<1>2. (projected \o queue)[Len(projected) + 1] = Head(queue)
  BY <1>1
<1>3. Len(projected \o queue) = Len(projected) + Len(queue)
  BY <1>1
<1>4. ASSUME ~IsRecord(Head(queue))
      PROVE  Underway /\ Tail(queue) = <<>> /\ projected = sent
  <2>1. \A i \in 1..Len(sent) : IsRecord(sent[i])
    BY ItemsOf DEF Types
  <2>2. Underway
    <3>1. CASE ~Underway
      BY <1>1, <1>2, <1>3, <1>4, <2>1, <3>1 DEF Flow, Stream
    <3>2. QED
      BY <3>1
  <2>3. projected \o queue = Append(sent, Barrier) /\ Barrier \in Items
    BY <2>2, ItemsOf DEF Flow, Stream
  <2>4. Len(projected) + Len(queue) = Len(sent) + 1
    BY <1>1, <1>3, <2>3
  <2>5. \A i \in 1..Len(sent) : Append(sent, Barrier)[i] = sent[i]
    BY <1>1, <2>3
  <2>6. Len(projected) + 1 = Len(sent) + 1
    BY <1>1, <1>2, <1>4, <2>1, <2>3, <2>4, <2>5
  <2>7. Len(queue) = 1 /\ Tail(queue) = <<>>
    <3>0. Len(queue) \in Nat /\ Len(projected) \in Nat /\ Len(sent) \in Nat
      BY <1>1
    <3>1. Len(queue) = 1
      BY <2>4, <2>6, <3>0
    <3>2. Tail(queue) \in Seq(Items) /\ Len(Tail(queue)) = 0
      BY <1>1, <3>1
    <3>3. QED
      BY <3>1, <3>2, EmptySeq
  <2>8. \A i \in 1..Len(sent) : projected[i] = (projected \o queue)[i]
    BY <1>1, <2>6
  <2>9. projected = sent
    BY <1>1, <2>3, <2>5, <2>6, <2>8, SeqEqual
  <2>10. QED
    BY <2>2, <2>7, <2>9
<1>5. QED
  BY <1>1, <1>4, ItemsOf

\* A step that accepts a record puts it behind the stream, and one that neither
\* accepts nor takes anything leaves the stream alone.
LEMMA Accepted ==
  ASSUME Types, Flow, ~Underway, ~Underway', NEW r \in Records, Consume(r), UNCHANGED projected
  PROVE  Flow'
<1>1. projected \in Seq(Items) /\ queue \in Seq(Items) /\ r \in Items
  BY ItemsOf DEF Types, Records
<1>2. queue' = Append(queue, r) /\ sent' = Append(sent, r)
  BY DEF Consume
<1>3. QED
  BY <1>1, <1>2, Push DEF Flow, Stream

LEMMA IInvInit == Init => IInv
<1> SUFFICES ASSUME Init PROVE IInv
  OBVIOUS
<1> USE StartupAssumption
<1>1. queue = <<>> /\ sent = <<>> /\ projected = <<>> /\ ~Underway
  BY DEF Init, Underway
<1>2. Types
  <2>1. <<>> \in Seq(Items) /\ <<>> \in Seq(Records) /\ Len(<<>>) = 0
    OBVIOUS
  <2>2. queue \in Seq(Items) /\ sent \in Seq(Records) /\ projected \in Seq(Records) /\ Len(queue) <= QueueDepth
    BY <1>1, <2>1
  <2>3. replayed \in 0..RosterSize
    BY DEF Init
  <2>4. QED
    BY <2>2, <2>3, Zenon DEF Init, Types
<1>3. <<>> \o <<>> = <<>> /\ Len(<<>>) = 0
  OBVIOUS
<1>4. Flow
  BY <1>1, <1>3 DEF Flow, Stream
<1>5. Progress /\ Roster
  BY <1>1, <1>3 DEF Init, Progress, Roster
<1>6. QED
  BY <1>2, <1>4, <1>5 DEF IInv

LEMMA IInvStep == IInv /\ [Next]_vars => IInv'
<1> SUFFICES ASSUME IInv, [Next]_vars PROVE IInv'
  OBVIOUS
<1> USE StartupAssumption
<1>0. Types /\ Flow /\ Progress /\ Roster
  BY DEF IInv
<1>1. CASE Replay
  <2>1. Registration(replayed + 1) \in Records /\ Registration(replayed + 1) \in Items
    BY <1>0, <1>1, ItemsOf DEF Replay, Types, Fleet
  <2>2. Types'
    BY <1>0, <1>1, <2>1 DEF Types, Replay, Consume, Full
  <2>3. Flow'
    BY <1>0, <1>1, <2>1, Accepted DEF Replay, Underway
  <2>4. Progress'
    BY <1>0, <1>1 DEF Progress, Replay
  <2>5. Roster'
    <3>1. /\ sent' = Append(sent, Registration(replayed + 1)) /\ replayed' = replayed + 1
          /\ source = "unstarted" /\ Len(sent) = replayed /\ replayed + 1 <= RosterSize
      BY <1>0, <1>1 DEF Replay, Consume, Progress, Roster, Types
    <3>2. sent \in Seq(Records) /\ replayed \in Nat
      BY <1>0 DEF Types
    <3>3. QED
      BY <1>0, <2>1, <3>1, <3>2 DEF Roster
  <2>6. QED
    BY <2>2, <2>3, <2>4, <2>5 DEF IInv
<1>2. CASE PostBarrier
  <2>1. /\ queue' = Append(queue, Barrier) /\ main' = "waiting" /\ replayed = RosterSize
        /\ UNCHANGED <<replayed, barrier, lifecycle, source, sent, projected>>
        /\ main = "replaying" /\ Len(queue) < QueueDepth
    BY <1>0, <1>2 DEF PostBarrier, Full, Types
  <2>2. Types'
    BY <1>0, <1>2, <2>1, ItemsOf DEF Types, PostBarrier
  <2>3. ~Underway /\ Underway'
    BY <1>0, <2>1 DEF Underway, Progress
  <2>4. projected \in Seq(Items) /\ queue \in Seq(Items) /\ Barrier \in Items
    BY <1>0, ItemsOf DEF Types, Records
  <2>5. Flow'
    <3>1. projected \o Append(queue, Barrier) = Append(projected \o queue, Barrier)
      BY <2>4, Push
    <3>2. projected \o queue = sent
      BY <1>0, <2>3 DEF Flow, Stream
    <3>3. projected' \o queue' = Append(sent', Barrier)
      BY <2>1, <3>1, <3>2
    <3>4. QED
      BY <2>3, <3>3 DEF Flow, Stream
  <2>6. Progress' /\ Roster'
    BY <1>0, <2>1 DEF Progress, Roster
  <2>7. QED
    BY <2>2, <2>5, <2>6 DEF IInv
<1>3. CASE MarkReady \/ Launch \/ Exit
  <2>1. UNCHANGED <<queue, sent, projected, replayed, barrier>> /\ ~Underway /\ ~Underway'
    BY <1>0, <1>3 DEF MarkReady, BarrierReached, Launch, Exit, Underway
  <2>2. Types'
    BY <1>0, <1>3 DEF Types, MarkReady, Launch, Exit
  <2>3. Flow'
    BY <1>0, <2>1 DEF Flow, Stream
  <2>4. Progress' /\ Roster'
    BY <1>0, <1>3 DEF Progress, Roster, MarkReady, BarrierReached, Launch, Exit
  <2>5. QED
    BY <2>2, <2>3, <2>4 DEF IInv
<1>4. CASE ProjectNext
  <2>1. /\ queue # <<>> /\ IsRecord(Head(queue))
        /\ projected' = Append(projected, Head(queue)) /\ queue' = Tail(queue)
        /\ UNCHANGED <<main, replayed, barrier, lifecycle, source, sent>>
    BY <1>4 DEF ProjectNext
  <2>2. Head(queue) \in Records /\ projected \in Seq(Records) /\ queue \in Seq(Items)
    BY <1>0, <2>1, InQueue DEF Types
  <2>3. Types'
    BY <1>0, <1>4, <2>1, <2>2 DEF Types, ProjectNext
  <2>4. projected \in Seq(Items)
    BY <2>2 DEF Records
  <2>5. Flow'
    BY <1>0, <2>1, <2>2, <2>4, Pop DEF Flow, Stream, Underway
  <2>6. Len(projected') = Len(projected) + 1
    BY <2>1, <2>2
  <2>7. Progress' /\ Roster'
    BY <1>0, <2>1, <2>2, <2>6 DEF Progress, Roster
  <2>8. QED
    BY <2>3, <2>5, <2>7 DEF IInv
<1>5. CASE ReachBarrier
  <2>1. /\ queue # <<>> /\ ~IsRecord(Head(queue))
        /\ barrier' = "closed" /\ queue' = Tail(queue)
        /\ UNCHANGED <<main, replayed, lifecycle, source, sent, projected>>
    BY <1>5 DEF ReachBarrier, BarrierClosed
  <2>2. Underway /\ Tail(queue) = <<>> /\ projected = sent
    BY <1>0, <2>1, InQueue
  <2>3. Types'
    BY <1>0, <1>5, <2>1, <2>2 DEF Types, ReachBarrier
  <2>4. sent \o <<>> = sent
    BY <1>0 DEF Types
  <2>5. Flow'
    BY <2>1, <2>2, <2>4 DEF Flow, Stream, Underway
  <2>6. Progress' /\ Roster'
    BY <1>0, <2>1, <2>2 DEF Progress, Roster, Underway
  <2>7. QED
    BY <2>3, <2>5, <2>6 DEF IInv
<1>6. ASSUME NEW v \in Fleet, SourceConsume(v) PROVE IInv'
  <2>1. /\ source = "stepping" /\ Consume(Report(v)) /\ Report(v).kind = "report"
        /\ UNCHANGED <<main, replayed, barrier, lifecycle, source, projected>>
    BY <1>6 DEF SourceConsume, Report
  <2>2. Report(v) \in Records /\ Report(v) \in Items
    BY ItemsOf
  <2>3. Types'
    BY <1>0, <1>6, <2>2 DEF Types, SourceConsume, Consume, Full
  <2>4. ~Underway /\ ~Underway' /\ replayed = RosterSize
    BY <1>0, <2>1 DEF Underway, Progress
  <2>5. Flow'
    BY <1>0, <2>1, <2>2, <2>4, Accepted
  <2>6. Progress'
    BY <1>0, <2>1 DEF Progress
  <2>7. Roster'
    <3>1. sent' = Append(sent, Report(v)) /\ sent \in Seq(Records) /\ replayed \in Nat
      BY <1>0, <2>1 DEF Consume, Types
    <3>2. QED
      BY <1>0, <2>1, <2>2, <2>4, <3>1 DEF Roster
  <2>8. QED
    BY <2>3, <2>5, <2>6, <2>7 DEF IInv
<1>7. CASE StopIngest \/ SourceTick \/ SourceStepDone \/ StopSource \/ Shutdown \/ Interrupt
  <2>1. /\ UNCHANGED <<main, queue, sent, projected, replayed, barrier, lifecycle>>
        /\ source = "unstarted" <=> source' = "unstarted"
    BY <1>7 DEF StopIngest, SourceTick, SourceStepDone, StopSource, Shutdown, Interrupt
  <2>2. Types'
    BY <1>0, <1>7 DEF Types, StopIngest, SourceTick, SourceStepDone, StopSource, Shutdown, Interrupt
  <2>3. Flow' /\ Progress' /\ Roster'
    BY <1>0, <2>1 DEF Flow, Stream, Underway, Progress, Roster
  <2>4. QED
    BY <2>2, <2>3 DEF IInv
<1>8. CASE UNCHANGED vars
  BY <1>0, <1>8 DEF vars, IInv, Types, Flow, Stream, Underway, Progress, Roster
<1>9. QED
  BY <1>1, <1>2, <1>3, <1>4, <1>5, <1>6, <1>7, <1>8 DEF Next, Main, Ingest, Source

LEMMA Invariance == Spec => []IInv
<1>1. QED
  BY IInvInit, IInvStep, PTL DEF Spec

---------------------------------------------------------------------------
\* Every variable keeps its type and the queue its capacity.
THEOREM TypeCorrect == Spec => []TypeOK
<1>1. IInv => TypeOK
  <2> SUFFICES ASSUME IInv PROVE TypeOK
    OBVIOUS
  <2>1. sent \in Seq(Items) /\ projected \in Seq(Items)
    BY DEF IInv, Types, Records
  <2>2. QED
    BY <2>1 DEF IInv, Types, TypeOK
<1>2. QED
  BY <1>1, Invariance, PTL

\* What was projected and what is queued are what was accepted, in its order, and
\* the barrier stands behind every record accepted before it (fleet.Ingest).
THEOREM NothingIsLost == Spec => []NothingLostOrReordered
<1>1. IInv => NothingLostOrReordered
  BY DEF IInv, Flow, Stream, NothingLostOrReordered
<1>2. QED
  BY <1>1, Invariance, PTL

\* What has been projected is a beginning of what was sent.
LEMMA Projected ==
  ASSUME IInv
  PROVE  /\ Len(projected) <= Len(sent)
         /\ \A i \in 1..Len(projected) : projected[i] = sent[i]
<1>1. /\ projected \in Seq(Items) /\ sent \in Seq(Items) /\ queue \in Seq(Items) /\ Barrier \in Items
      /\ \A i \in 1..Len(projected) : IsRecord(projected[i])
  BY ItemsOf DEF IInv, Types, Records
<1>2. /\ Len(projected \o queue) = Len(projected) + Len(queue)
      /\ \A i \in 1..Len(projected) : (projected \o queue)[i] = projected[i]
  BY <1>1
<1>3. projected \o queue = Stream
  BY DEF IInv, Flow
<1>4. CASE ~Underway
  BY <1>1, <1>2, <1>3, <1>4 DEF Stream
<1>5. CASE Underway
  <2>1. /\ Len(Stream) = Len(sent) + 1 /\ Stream[Len(sent) + 1] = Barrier
        /\ \A i \in 1..Len(sent) : Stream[i] = sent[i]
    BY <1>1, <1>5 DEF Stream
  <2>2. Len(projected) <= Len(sent)
    BY <1>1, <1>2, <1>3, <2>1, ItemsOf
  <2>3. QED
    BY <1>1, <1>2, <1>3, <2>1, <2>2
<1>6. QED
  BY <1>4, <1>5

\* When the process says it is ready, every vehicle of the roster has been
\* projected (main, Ingest.Barrier and Publisher.MarkReady), however small the
\* queue, and whatever an interrupt stops.
THEOREM ReadyIsAPosition == Spec => []ReadyMeansWholeFleet
<1>1. IInv => ReadyMeansWholeFleet
  <2> SUFFICES ASSUME IInv, lifecycle = "READY", NEW v \in Fleet
               PROVE  \E i \in 1..Len(projected) : projected[i] = Registration(v)
    BY DEF ReadyMeansWholeFleet, Registered, Contains
  <2> USE StartupAssumption
  <2>1. Len(projected) >= RosterSize
    BY DEF IInv, Types, Progress
  <2>2. projected \in Seq(Records)
    BY DEF IInv, Types
  <2>3. v \in 1..Len(projected) /\ v <= RosterSize
    BY <2>1, <2>2 DEF Fleet
  <2>4. sent \in Seq(Records) /\ v \in 1..Len(sent)
    BY <2>2, <2>3, Projected DEF IInv, Types
  <2>5. sent[v] = Registration(v)
    BY <2>3, <2>4 DEF IInv, Roster
  <2>6. QED
    BY <2>3, <2>5, Projected
<1>2. QED
  BY <1>1, Invariance, PTL

\* No report is projected before the registration of its vehicle: the source is
\* started behind the barrier (main), and the queue keeps the order.
THEOREM RegistrationsComeFirst == Spec => []ReportsFindTheirVehicle
<1>1. IInv => ReportsFindTheirVehicle
  <2> SUFFICES ASSUME IInv, NEW i \in 1..Len(projected), projected[i].kind = "report"
               PROVE  Registration(projected[i].vehicle) \in Range(SubSeq(projected, 1, i - 1))
    BY DEF ReportsFindTheirVehicle
  <2> USE StartupAssumption
  <2>1. projected \in Seq(Records) /\ sent \in Seq(Records)
    BY DEF IInv, Types
  <2> DEFINE v == projected[i].vehicle
  <2>2. v \in 1..RosterSize
    BY <2>1, ItemsOf DEF Fleet
  <2>3. /\ i \in 1..Len(sent) /\ projected[i] = sent[i]
        /\ \A j \in 1..Len(projected) : projected[j] = sent[j]
    BY <2>1, Projected
  <2>4. i > RosterSize
    <3>1. i \in Nat /\ sent[i].kind = "report"
      BY <2>1, <2>3
    <3>2. sent[i] # Registration(i)
      BY <3>1 DEF Registration
    <3>3. QED
      BY <2>3, <3>1, <3>2 DEF IInv, Roster
  <2>5. v \in 1..(i - 1) /\ v \in 1..Len(projected) /\ v \in 1..Len(sent)
    BY <2>1, <2>2, <2>3, <2>4
  <2>6. projected[v] = Registration(v)
    BY <2>2, <2>3, <2>5 DEF IInv, Roster
  <2>7. /\ DOMAIN SubSeq(projected, 1, i - 1) = 1..(i - 1)
        /\ SubSeq(projected, 1, i - 1)[v] = projected[v]
    BY <2>1, <2>5
  <2>8. QED
    BY <2>5, <2>6, <2>7 DEF Range
<1>2. QED
  BY <1>1, Invariance, PTL

=============================================================================
