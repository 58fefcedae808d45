----------------------------- MODULE Simulator -----------------------------
(***************************************************************************)
(* The event source (backend/sim): vehicles going through the teledriving  *)
(* lifecycle, the scheduler that sends them out, the cadence on which they *)
(* report, and a delivery that duplicates and holds records back.  Its     *)
(* consumer is reduced to the newest record of each signal it was given.   *)
(*                                                                         *)
(* One tick is Simulator.Step, cut at its loops: release, advance each     *)
(* vehicle, dispatch, then each vehicle whose turn it is reports.  What a  *)
(* vehicle produces is numbered at once and sent record by record.  Time   *)
(* is counted in ticks; a path is the number of steps still to drive.      *)
(***************************************************************************)
EXTENDS Contract, Integers, Sequences, SequencesExt, FiniteSetsExt

CONSTANTS FleetSize, EnRouteTarget,
          TicksPerReport,           \* ticks of one reporting interval
          BatteryEveryNReports,
          Journeys,                 \* lengths of the paths plan may find; 0 is none
          ChargeFloor, ChargeTarget, DispatchMinimumBattery,
          StartingBattery,          \* battery levels a vehicle may start with
          Drains,                   \* what a tick may take from or give to a battery
          SilenceMin, SilenceMax,   \* bounds on a dropout, in ticks
          DelayMin, DelayMax,       \* bounds on a delay, in ticks
          StaleAfter,               \* contract.StaleAfter, in ticks
          MaxTicks,                 \* bound on the length of a behaviour
          MaxPending                \* bound on the records held back at once

ASSUME SimulatorAssumption ==
  /\ {FleetSize, TicksPerReport, BatteryEveryNReports} \subseteq Nat \ {0}
  /\ {EnRouteTarget, ChargeFloor, ChargeTarget, DispatchMinimumBattery, StaleAfter,
      SilenceMin, SilenceMax, DelayMin, DelayMax, MaxTicks, MaxPending} \subseteq Nat
  /\ StartingBattery \cup Drains \cup Journeys \subseteq Nat /\ IsFiniteSet(StartingBattery)
  /\ 2 * TicksPerReport <= StaleAfter         \* contract.StaleAfterMissedReports
  /\ 0 < DelayMin /\ DelayMin < DelayMax /\ 0 < SilenceMin /\ SilenceMin < SilenceMax

Fleet == 1..FleetSize

VARIABLES now,      \* the tick of this Step
          step,     \* where Step is: its phase, and whose turn it is
          vehicles, \* Simulator.vehicles
          assigned, \* route ids handed out so far
          outbox,   \* records produced and not yet sent
          pending,  \* delivery.pending
          held      \* the consumer: the newest record of each signal of each vehicle

vars == <<now, step, vehicles, assigned, outbox, pending, held>>

Tracked == Signals \ {"registration"}

-----------------------------------------------------------------------------
(* vehicle                                                                 *)

StatusOf(leg) ==
  CASE leg \in {"toCustomer", "toParking"} -> "EN_ROUTE"
    [] leg = "withCustomer" -> "WITH_CUSTOMER"
    [] leg = "parked" -> "FREE"

Slot(v) == (v - 1) % TicksPerReport
Mute(v) == v = 1

EnRoute == {v \in Fleet : StatusOf(vehicles[v].leg) = "EN_ROUTE"}

New(battery) ==
  [leg |-> "parked", path |-> 0, routeId |-> 0, battery |-> battery, charging |-> FALSE,
   reports |-> 0, silentUntil |-> 0, reported |-> "",
   sequences |-> [s \in Tracked |-> 0]]

Event(type, value) == [type |-> type, value |-> value]

\* vehicle.next numbers per signal: an assignment and a clear share a counter.
NumberedBy(type) == SignalOf(type)

\* Simulator.record: number one event of vehicle v, in state x of that vehicle.
Record(v, x, e) ==
  [vehicle |-> v, type |-> e.type, value |-> e.value, observedAt |-> now,
   sequence |-> x.sequences[NumberedBy(e.type)] + 1]

\* Simulator.emit: put the events of v on their way, leaving v in state x.
Emit(v, x, events) ==
  /\ vehicles' = [vehicles EXCEPT ![v] =
       [x EXCEPT !.sequences = [s \in Tracked |->
          @[s] + Cardinality({i \in DOMAIN events : NumberedBy(events[i].type) = s})]]]
  /\ outbox' = [i \in DOMAIN events |-> Record(v, x, events[i])]

\* vehicle.assignRoute: a new id, named by the counter.
Routed(x) == [x EXCEPT !.routeId = assigned + 1]
Assignment == <<Event("RouteAssigned", assigned + 1)>>

\* vehicle.clearRoute
Cleared(x) == [x EXCEPT !.routeId = 0]

\* Mutant: nobody is told that the journey has ended.
Unannounced(x) == <<>>

\* Mutant: the id is forgotten before it is told.
Unnamed(x) == <<Event("RouteCleared", Cleared(x).routeId)>>

Clearance(x) == <<Event("RouteCleared", x.routeId)>>

-----------------------------------------------------------------------------
Init ==
  /\ now = 0
  /\ step = [phase |-> "release", turn |-> 1, start |-> 1, enRoute |-> 0]
  /\ \E levels \in [Fleet -> StartingBattery] :
       vehicles = [v \in Fleet |-> New(levels[v])]
  /\ assigned = 0
  /\ outbox = <<>>
  /\ pending = <<>>
  /\ held = [v \in Fleet |-> [s \in Tracked |-> [sequence |-> 0, observedAt |-> 0,
                                              value |-> IF s = "status" THEN "" ELSE 0]]]

Go(phase) == step' = [step EXCEPT !.phase = phase, !.turn = 1]

\* The next vehicle of the loop, or the next loop.
NextTurn(phase, after) ==
  IF step.turn < FleetSize
    THEN step' = [step EXCEPT !.phase = phase, !.turn = @ + 1]
    ELSE Go(after)

-----------------------------------------------------------------------------
(* delivery                                                                *)

\* The consumer keeps a record newer than what it holds (register.accept).
Consume(h, r) ==
  LET s == SignalOf(r.type)
  IN  IF r.sequence > h[r.vehicle][s].sequence
        THEN [h EXCEPT ![r.vehicle][s] =
                [sequence   |-> r.sequence,
                 observedAt |-> r.observedAt,
                 value      |-> IF r.type = "RouteCleared" THEN 0 ELSE r.value]]
        ELSE h

Due(i) == pending[i].at <= now

\* delivery.release: the first of the records that are due is handed over...
Release ==
  /\ step.phase = "release" /\ now < MaxTicks
  /\ \E i \in DOMAIN pending :
       /\ Due(i) /\ \A j \in 1..(i - 1) : ~Due(j)
       /\ held' = Consume(held, pending[i].record)
       /\ pending' = RemoveAt(pending, i)
  /\ UNCHANGED <<now, step, vehicles, assigned, outbox>>

\* ...until those that are left are to be kept.
EndRelease ==
  /\ step.phase = "release" /\ now < MaxTicks
  /\ \A i \in DOMAIN pending : ~Due(i)
  /\ Go("advance")
  /\ UNCHANGED <<now, vehicles, assigned, outbox, pending, held>>

\* delivery.send: at once, at once and again, or held back for a later tick.
Send ==
  /\ outbox # <<>>
  /\ outbox' = Tail(outbox)
  /\ \/ held' = Consume(held, Head(outbox)) /\ UNCHANGED pending
     \/ held' = Consume(Consume(held, Head(outbox)), Head(outbox)) /\ UNCHANGED pending
     \/ /\ Len(pending) < MaxPending
        /\ \E delay \in DelayMin..(DelayMax - 1) :
             pending' = Append(pending, [at |-> now + delay, record |-> Head(outbox)])
        /\ UNCHANGED held
  /\ UNCHANGED <<now, step, vehicles, assigned>>

-----------------------------------------------------------------------------
(* vehicle.advance                                                         *)

\* Mutant: a battery can be drained below empty.
Unfloored(a, b) == a

Larger(a, b)  == IF a > b THEN a ELSE b
Smaller(a, b) == IF a < b THEN a ELSE b

\* vehicle.park: charge a vehicle that has run down, drain any other.
Parked(x, amount) ==
  LET charging == x.charging \/ x.battery <= ChargeFloor
      level    == IF charging THEN Smaller(x.battery + amount, ChargeTarget)
                              ELSE Larger(x.battery - amount, 0)
  IN  [x EXCEPT !.battery = level, !.charging = charging /\ level < ChargeTarget]

Park(v) ==
  /\ vehicles[v].path = 0
  /\ \E amount \in Drains : Emit(v, Parked(vehicles[v], amount), <<>>)

\* Still on the way at the end of the tick; some steps may have been finished.
Drive(v) ==
  \E left \in 1..vehicles[v].path, amount \in Drains :
    Emit(v, [vehicles[v] EXCEPT !.path = left, !.battery = Larger(@ - amount, 0)], <<>>)

\* vehicle.arrive
Arrive(v) ==
  /\ vehicles[v].path > 0
  /\ \E amount \in Drains :
       LET x == [vehicles[v] EXCEPT !.path = 0, !.battery = Larger(@ - amount, 0)]
       IN  \/ /\ x.leg = "toCustomer"
              /\ \E trip \in Journeys :
                   Emit(v, Cleared([x EXCEPT !.leg = "withCustomer", !.path = trip]), Clearance(x))
           \/ x.leg = "withCustomer" /\ Emit(v, [x EXCEPT !.leg = "parked"], <<>>)
           \/ x.leg = "toParking" /\ Emit(v, Cleared([x EXCEPT !.leg = "parked"]), Clearance(x))

Advance ==
  /\ step.phase = "advance" /\ outbox = <<>>
  /\ Park(step.turn) \/ Drive(step.turn) \/ Arrive(step.turn)
  /\ NextTurn("advance", "count")
  /\ UNCHANGED <<now, assigned, pending, held>>

-----------------------------------------------------------------------------
(* Simulator.dispatch                                                      *)

\* Count the journeys and choose where in the fleet to start looking.
Count ==
  /\ step.phase = "count" /\ outbox = <<>>
  /\ \E start \in Fleet :
       step' = [phase |-> "dispatch", turn |-> 1, start |-> start, enRoute |-> Cardinality(EnRoute)]
  /\ UNCHANGED <<now, vehicles, assigned, outbox, pending, held>>

Eligible(x) == x.leg = "parked" /\ ~x.charging /\ x.battery >= DispatchMinimumBattery

\* Mutant: the search does not wrap around the end of the fleet.
CandidateOnwards == Smaller(step.start + step.turn - 1, FleetSize)

Candidate == ((step.start + step.turn - 2) % FleetSize) + 1

\* Mutant: one journey too many is allowed for.
AboveTarget(n) == n > EnRouteTarget

TargetReached(n) == n >= EnRouteTarget

Looking == step.phase = "dispatch" /\ outbox = <<>>

EndDispatch ==
  /\ Looking /\ TargetReached(step.enRoute)
  /\ Go("report")
  /\ UNCHANGED <<now, vehicles, assigned, outbox, pending, held>>

\* The candidate cannot go, or has nowhere to go.
PassOver ==
  /\ Looking /\ ~TargetReached(step.enRoute)
  /\ ~Eligible(vehicles[Candidate]) \/ 0 \in Journeys
  /\ NextTurn("dispatch", "report")
  /\ UNCHANGED <<now, vehicles, assigned, outbox, pending, held>>

\* vehicle.dispatchTo
Dispatch ==
  /\ Looking /\ ~TargetReached(step.enRoute)
  /\ Eligible(vehicles[Candidate])
  /\ \E purpose \in {"toCustomer", "toParking"}, journey \in Journeys \ {0} :
       Emit(Candidate, Routed([vehicles[Candidate] EXCEPT !.leg = purpose, !.path = journey]),
            Assignment)
  /\ assigned' = assigned + 1
  /\ step' = IF step.turn < FleetSize
               THEN [step EXCEPT !.turn = @ + 1, !.enRoute = @ + 1]
               ELSE [step EXCEPT !.phase = "report", !.turn = 1]
  /\ UNCHANGED <<now, pending, held>>

-----------------------------------------------------------------------------
(* The turn of a vehicle: vehicle.replan, then vehicle.report.             *)

Turn(phase) == step.phase = phase /\ outbox = <<>>

\* Mutant: the cadence is half of what the backend expects.
HasRareTurn(v) == Slot(v) = now % (2 * TicksPerReport)

HasTurn(v) == Slot(v) = now % TicksPerReport

NotItsTurn ==
  /\ Turn("report") /\ ~HasTurn(step.turn)
  /\ NextTurn("report", "end")
  /\ UNCHANGED <<now, vehicles, assigned, outbox, pending, held>>

\* The journey is revised beyond the step being driven...
Replan ==
  /\ Turn("report") /\ HasTurn(step.turn)
  /\ LET x == vehicles[step.turn]
     IN  /\ StatusOf(x.leg) = "EN_ROUTE" /\ x.path > 0
         /\ \E rest \in Journeys \ {0} :
              Emit(step.turn, Routed([x EXCEPT !.path = 1 + rest]), Assignment)
  /\ assigned' = assigned + 1
  /\ step' = [step EXCEPT !.phase = "speak"]
  /\ UNCHANGED <<now, pending, held>>

\* ...or not.
KeepPlan ==
  /\ Turn("report") /\ HasTurn(step.turn)
  /\ step' = [step EXCEPT !.phase = "speak"]
  /\ UNCHANGED <<now, vehicles, assigned, outbox, pending, held>>

Quiet(v) == Mute(v) \/ now < vehicles[v].silentUntil

StayQuiet ==
  /\ Turn("speak") /\ Quiet(step.turn)
  /\ NextTurn("report", "end")
  /\ UNCHANGED <<now, vehicles, assigned, outbox, pending, held>>

FallSilent ==
  /\ Turn("speak") /\ ~Quiet(step.turn)
  /\ \E silence \in SilenceMin..(SilenceMax - 1) :
       vehicles' = [vehicles EXCEPT ![step.turn].silentUntil = now + silence]
  /\ NextTurn("report", "end")
  /\ UNCHANGED <<now, assigned, outbox, pending, held>>

\* Mutant: status goes with the slow signals.
StatusWithBattery(x) == StatusOf(x.leg) # x.reported /\ x.reports % BatteryEveryNReports = 0

\* Status is sent when it differs from the status last sent.
StatusChanged(x) == StatusOf(x.leg) # x.reported

Reported(x) ==
  <<Event("VehiclePosition", 0)>>
  \o (IF x.reports % BatteryEveryNReports = 0 THEN <<Event("VehicleBattery", x.battery)>> ELSE <<>>)
  \o (IF StatusChanged(x) THEN <<Event("VehicleStatus", StatusOf(x.leg))>> ELSE <<>>)

Speak ==
  /\ Turn("speak") /\ ~Quiet(step.turn)
  /\ LET x == vehicles[step.turn]
     IN  Emit(step.turn, [x EXCEPT !.reports = @ + 1,
                                   !.reported = IF StatusChanged(x) THEN StatusOf(x.leg) ELSE @],
              Reported(x))
  /\ NextTurn("report", "end")
  /\ UNCHANGED <<now, assigned, pending, held>>

EndStep ==
  /\ Turn("end")
  /\ now' = now + 1
  /\ Go("release")
  /\ UNCHANGED <<vehicles, assigned, outbox, pending, held>>

Next == \/ Release \/ EndRelease \/ Send \/ Advance
        \/ Count \/ EndDispatch \/ PassOver \/ Dispatch
        \/ NotItsTurn \/ Replan \/ KeepPlan
        \/ StayQuiet \/ FallSilent \/ Speak
        \/ EndStep

Spec == Init /\ [][Next]_vars

-----------------------------------------------------------------------------
(* Properties.                                                             *)

Legs == {"parked", "toCustomer", "withCustomer", "toParking"}

\* Every vehicle has the shape of a vehicle, and nothing stays held back beyond the
\* Step in which it is due.
TypeOK ==
  /\ now \in 0..MaxTicks
  /\ step.phase \in {"release", "advance", "count", "dispatch", "report", "speak", "end"}
  /\ step.turn \in Fleet /\ step.start \in Fleet
  /\ \A v \in Fleet :
       /\ vehicles[v].leg \in Legs
       /\ vehicles[v].path \in Nat
       /\ vehicles[v].battery \in 0..Max(StartingBattery \cup {ChargeTarget})
       /\ vehicles[v].reported \in Statuses \cup {""}
  /\ Len(pending) <= MaxPending
  /\ \A i \in DOMAIN pending : pending[i].at >= now

\* "which makes ~10 EN_ROUTE an invariant rather than an average with visible
\* excursions" (Simulator.dispatch): arrivals, replans and dispatches of one tick
\* never add up to more journeys than the target...
AtMostTarget == Cardinality(EnRoute) <= EnRouteTarget

\* ...and once a tick's dispatch is over there are no fewer, unless no vehicle is
\* fit to go, wherever in the fleet the search began.
TargetHeld ==
  step.phase = "report" /\ step.turn = 1 =>
    Cardinality(EnRoute) = EnRouteTarget \/ \A v \in Fleet : ~Eligible(vehicles[v])

\* The records that are on their way.
Transit ==
  {outbox[i] : i \in DOMAIN outbox} \cup {pending[i].record : i \in DOMAIN pending}

\* A clear that is next in line for the consumer names the route the consumer holds.
ClearsNameTheLast ==
  \A r \in Transit :
    LET last == held[r.vehicle]["route"]
    IN  r.type = "RouteCleared" /\ r.sequence = last.sequence + 1 => r.value = last.value

\* The parts of a journey stay in step: a vehicle has somewhere to drive exactly
\* when it is not parked, and a route exactly while it is driven remotely; and that
\* route is cleared by the id assigned last, however often it was replanned.
JourneyInStep ==
  /\ \A v \in Fleet :
       LET x == vehicles[v]
       IN  /\ x.path = 0 <=> x.leg = "parked"
           /\ x.routeId # 0 <=> StatusOf(x.leg) = "EN_ROUTE"
  /\ ClearsNameTheLast

OnItsWay(v, s) == \E r \in Transit : r.vehicle = v /\ SignalOf(r.type) = s

\* Whatever was duplicated, held back or overtaken, once nothing of a signal is on
\* its way the consumer holds what the vehicle last said of it, and the route the
\* vehicle is driving, or none.
ConsumerCatchesUp ==
  \A v \in Fleet :
    LET x == vehicles[v]
    IN  /\ \A s \in Tracked : ~OnItsWay(v, s) => held[v][s].sequence = x.sequences[s]
        /\ ~OnItsWay(v, "status") => held[v]["status"].value = x.reported
        /\ ~OnItsWay(v, "route") => held[v]["route"].value = x.routeId

\* A status change that a dropout kept quiet is made up for: a vehicle that is not
\* quiet has told of its status as it is when its turn is over.
StatusMadeUp ==
  \A v \in Fleet :
    step.phase = "end" /\ HasTurn(v) /\ ~Quiet(v) => vehicles[v].reported = StatusOf(vehicles[v].leg)

Reporting(v) == \A s \in Telemetry : held[v][s].sequence > 0

LastObserved(v) == Max({held[v][s].observedAt : s \in Telemetry})

\* A vehicle that speaks at each of its turns, as the last two of them were not
\* covered by a dropout, and has not been heard from for longer than StaleAfter.
StaleThoughSpeaking(v) ==
  /\ Reporting(v) /\ ~Mute(v)
  /\ vehicles[v].silentUntil <= now - StaleAfter
  /\ now - LastObserved(v) > StaleAfter

HeldBack(v) ==
  {i \in DOMAIN pending : pending[i].record.vehicle = v /\ SignalOf(pending[i].record.type) \in Telemetry}

\* "delaying one event does not delay the next" (comment on delivery.send): a late
\* report by itself never makes a vehicle that speaks look stale; it takes two.
OneDelayIsHarmless == \A v \in Fleet : StaleThoughSpeaking(v) => Cardinality(HeldBack(v)) >= 2

\* "Per-event delay on a subset is safe for staleness ... Only uniform delay would
\* trip it" (comment on delivery.send).
PartialDelayIsHarmless == \A v \in Fleet : ~StaleThoughSpeaking(v)

=============================================================================
