----------------------------- MODULE FleetStore -----------------------------
(***************************************************************************)
(* The projection and the in-memory store (backend/fleet): Projector.Apply *)
(* reads one delivery of the stream and either discards it or writes one   *)
(* last-write-wins register of one vehicle.                                *)
(*                                                                         *)
(* The stream is at-least-once and unordered: any record of Records may be *)
(* delivered at any time, any number of times.  One delivery is one step,  *)
(* because one goroutine projects and every store method holds the mutex   *)
(* from its first line to its last.                                        *)
(***************************************************************************)
EXTENDS Contract, Integers, FiniteSetsExt

CONSTANTS Vehicles,   \* the vehicle identities records may name
          Records,    \* every delivery the stream may carry, good or bad
          Zero        \* the Go zero value of a register (Route{} for a route)

VARIABLES known,      \* the keys of MemoryStore.vehicles
          registers,  \* the five registers of each vehicle
          last,       \* the delivery Apply just handled and the outcome it returned
          accepted    \* history: the records that were compared with a register

vars == <<known, registers, last, accepted>>

Outcomes == {"applied", "duplicate", "superseded", "unknown_vehicle", "uninterpretable"}

-----------------------------------------------------------------------------
(* What Apply and project require of a delivery.                           *)

\* A payload decodes and carries a value of its signal.
Plausible(type, p) ==
  /\ p.readable
  /\ CASE type = "VehicleRegistered" -> p.label # ""
       [] type = "VehiclePosition" ->
            /\ p.lng >= -180 /\ p.lng <= 180 /\ p.lat >= -90 /\ p.lat <= 90
            /\ p.heading >= 0 /\ p.heading < 360
       [] type = "VehicleBattery" -> p.percent >= 0 /\ p.percent <= 100
       [] type = "VehicleStatus"  -> p.status \in Statuses
       [] type = "RouteAssigned"  -> p.routeId # "" /\ p.points >= 2
       [] type = "RouteCleared"   -> p.routeId # ""

\* The envelope checks of Apply, then the payload checks of project.
Interpretable(r) ==
  /\ r.json
  /\ r.type \in EventTypes
  /\ r.topic = TopicOf[r.type]
  /\ r.vehicleId # ""
  /\ r.key = r.vehicleId
  /\ r.observedAt # 0
  /\ Plausible(r.type, r.payload)

Events == {r \in Records : Interpretable(r)}

EventsOf(v, s) == {r \in Events : r.vehicleId = v /\ SignalOf(r.type) = s}

\* A producer numbers the observations of one signal of one vehicle 1, 2, 3...:
\* a number names one observation, and a later observation is not dated earlier.
ASSUME RecordsAssumption ==
  /\ "" \notin Vehicles
  /\ \A r \in Events : /\ r.vehicleId \in Vehicles
                       /\ r.sequence \in Nat
                       /\ r.observedAt \in Nat
  /\ \A v \in Vehicles, s \in Signals : \A r1, r2 \in EventsOf(v, s) :
       /\ r1.sequence = r2.sequence => r1 = r2
       /\ r1.sequence <= r2.sequence => r1.observedAt <= r2.observedAt

-----------------------------------------------------------------------------
(* Registers.                                                              *)

\* Mutant: a clear stores what it carried instead of the zero route.
ValueKept(r) == r.payload

\* What an event writes: its absolute value, or no route.
ValueOf(r) == IF r.type = "RouteCleared" THEN Zero ELSE r.payload

\* The values a signal can show.
Values(s) ==
  {Zero} \cup
  {r.payload : r \in {e \in Events : SignalOf(e.type) = s /\ e.type # "RouteCleared"}}

Register(V) == [present : BOOLEAN, sequence : Nat, observedAt : Nat, value : V]

Empty == [present |-> FALSE, sequence |-> 0, observedAt |-> 0, value |-> Zero]

Holding(r) == [present    |-> TRUE,
               sequence   |-> r.sequence,
               observedAt |-> r.observedAt,
               value      |-> ValueOf(r)]

\* Mutant: a late observation overwrites a newer one.
AcceptLatestArrival(held, sequence) ==
  IF held.present /\ sequence = held.sequence THEN "duplicate" ELSE "applied"

\* register.accept: strictly newer wins.
AcceptOutcome(held, sequence) ==
  IF ~held.present \/ sequence > held.sequence THEN "applied"
  ELSE IF sequence = held.sequence THEN "duplicate" ELSE "superseded"

Return(r, outcome) == last' = [record |-> r, outcome |-> outcome]

Accept(r) ==
  LET s       == SignalOf(r.type)
      outcome == AcceptOutcome(registers[r.vehicleId][s], r.sequence)
  IN  /\ Return(r, outcome)
      /\ registers' = IF outcome = "applied"
                        THEN [registers EXCEPT ![r.vehicleId][s] = Holding(r)]
                        ELSE registers
      /\ accepted' = accepted \cup {r}

-----------------------------------------------------------------------------
(* The operations of the store.                                            *)

\* Mutant: a stray identifier brings a vehicle into existence.
WriteCreating(r) == Accept(r) /\ known' = known \cup {r.vehicleId}

\* MemoryStore.write: telemetry and routes never create a vehicle.
Write(r) ==
  \/ r.vehicleId \in known /\ Accept(r) /\ UNCHANGED known
  \/ /\ r.vehicleId \notin known
     /\ Return(r, "unknown_vehicle")
     /\ UNCHANGED <<known, registers, accepted>>

\* A registration creates the vehicle if need be.
RegisterVehicle(r) ==
  r.type = "VehicleRegistered" /\ Accept(r) /\ known' = known \cup {r.vehicleId}

SetPosition(r) == r.type = "VehiclePosition" /\ Write(r)
SetBattery(r)  == r.type = "VehicleBattery"  /\ Write(r)
SetStatus(r)   == r.type = "VehicleStatus"   /\ Write(r)
SetRoute(r)    == r.type = "RouteAssigned"   /\ Write(r)
ClearRoute(r)  == r.type = "RouteCleared"    /\ Write(r)

Project(r) ==
  /\ r \in Events
  /\ \/ RegisterVehicle(r) \/ SetPosition(r) \/ SetBattery(r)
     \/ SetStatus(r)       \/ SetRoute(r)    \/ ClearRoute(r)

Discard(r) ==
  /\ r \notin Events
  /\ Return(r, "uninterpretable")
  /\ UNCHANGED <<known, registers, accepted>>

Init == /\ known = {}
        /\ registers = [v \in Vehicles |-> [s \in Signals |-> Empty]]
        /\ last = [record |-> Zero, outcome |-> "applied"]
        /\ accepted = {}

Next == \E r \in Records : Project(r) \/ Discard(r)

Spec == Init /\ [][Next]_vars

-----------------------------------------------------------------------------
(* What a reader sees: vehicleState.snapshot.                              *)

\* Mutant: a vehicle is drawn as soon as there is somewhere to draw it.
ReportingOncePlaced(v) == registers[v]["position"].present

\* Every telemetry signal has been heard at least once.
Reporting(v) == \A s \in Telemetry : registers[v][s].present

\* Mutant: any event counts as the vehicle speaking.
LastHeardOf(v) ==
  Max({0} \cup {registers[v][s].observedAt : s \in {t \in Signals : registers[v][t].present}})

\* The newest observation among the vehicle's own telemetry; 0 when never heard from.
LastObserved(v) ==
  Max({0} \cup {registers[v][s].observedAt : s \in {t \in Telemetry : registers[v][t].present}})

-----------------------------------------------------------------------------
(* Properties.                                                             *)

\* Every register has the shape of its signal; in particular the route
\* register holds a route or none, never the payload of a clear.
TypeOK ==
  /\ known \subseteq Vehicles
  /\ accepted \subseteq Events
  /\ last \in [record : Records \cup {Zero}, outcome : Outcomes]
  /\ registers \in [Vehicles -> [Signals -> Register(UNION {Values(s) : s \in Signals})]]
  /\ \A v \in Vehicles, s \in Signals : registers[v][s].value \in Values(s)

\* A vehicle exists exactly when a registration has been applied: telemetry and
\* routes for a stray identifier leave no trace (MemoryStore.write).
OnlyRegistrationsCreate ==
  \A v \in Vehicles :
    IF v \in known THEN registers[v]["registration"].present
                   ELSE \A s \in Signals : registers[v][s] = Empty

\* Whatever the order and number of deliveries, a register holds the newest
\* observation of its signal among those that reached it (register.accept).
HoldsNewest ==
  \A v \in Vehicles, s \in Signals :
    LET seen == {r \in accepted : r.vehicleId = v /\ SignalOf(r.type) = s}
        held == registers[v][s]
    IN  IF seen = {} THEN held = Empty
        ELSE \E r \in seen : /\ held = Holding(r)
                             /\ \A o \in seen : o.sequence <= r.sequence

\* At-least-once delivery is harmless: a record that has been compared once
\* changes nothing when it is delivered again, however much later.
RedeliveryChangesNothing ==
  [][last'.record \in accepted => UNCHANGED <<known, registers>>]_vars

\* Two successive snapshots never disagree backwards: no vehicle vanishes, none
\* returns to "never reported", and none was heard from less recently than the
\* snapshot before said.
SnapshotsNeverRegress ==
  [][/\ known \subseteq known'
     /\ \A v \in known : /\ Reporting(v) => Reporting(v)'
                         /\ LastObserved(v) <= LastObserved(v)']_vars

\* Replayed registrations and route events do not make a silent vehicle look as
\* though it had just reported (comment on Vehicle.LastObserved).
OnlyTelemetryRefreshes ==
  [][\A v \in Vehicles : LastObserved(v)' # LastObserved(v) =>
       /\ last'.outcome = "applied"
       /\ last'.record.vehicleId = v
       /\ SignalOf(last'.record.type) \in Telemetry]_vars

\* A clear that takes a route off the map names that route: "a clear applies only
\* when it names the route currently held" (RouteClearedPayload, contract/events.go).
ClearNamesHeldRoute ==
  [][\A r \in Events :
       ClearRoute(r) /\ last'.outcome = "applied" =>
         LET held == registers[r.vehicleId]["route"].value
         IN  held = Zero \/ held.routeId = r.payload.routeId]_vars

\* What is shown is a function of the set of observations alone.
Fleet == INSTANCE EventSourcedFleet WITH
           roster  <- known,
           history <- accepted,
           view    <- [v \in Vehicles |-> [s \in Signals |-> registers[v][s].value]]

FleetIsEventSourced == Fleet!Spec

=============================================================================
