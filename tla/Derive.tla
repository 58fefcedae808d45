------------------------------- MODULE Derive -------------------------------
(***************************************************************************)
(* What the operator sees of one generation of the fleet: derive.Snapshot  *)
(* and derive.Routes.  Both are pure functions of the vehicles as the      *)
(* store copied them, the zones and the time of publication.               *)
(*                                                                         *)
(* A vehicle is [id, reporting, position, status, battery, routeId,        *)
(* lastObserved]; the Go zero values are "" and 0.                         *)
(***************************************************************************)
EXTENDS Contract, Geometry, FiniteSetsExt

CONSTANTS Zones,             \* contract.Zones(), in file order
          StaleAfter,        \* silence after which a vehicle counts as stale
          LowBatteryPercent  \* the threshold of the low battery flag

ASSUME DeriveAssumption ==
  /\ Zones \in Seq(Range(Zones)) /\ UsableZones(Zones)
  /\ StaleAfter \in Nat
  /\ LowBatteryPercent \in Nat

ZoneIds == {Zones[i].id : i \in DOMAIN Zones}

-----------------------------------------------------------------------------
(* One vehicle.                                                            *)

\* The first zone that contains the position.
ZoneFor(position) ==
  LET holding == {i \in DOMAIN Zones : Contains(Zones[i].boundary, position)}
  IN  IF holding = {} THEN ZoneNone ELSE Zones[Min(holding)].id

Stale(x, now) == now - x.lastObserved > StaleAfter

LowBattery(x) == x.battery < LowBatteryPercent

\* Mutant: only the condition the map shows is passed on.
DominantOnly(x, now) ==
  IF Stale(x, now) THEN {"STALE"} ELSE IF LowBattery(x) THEN {"LOW_BATTERY"} ELSE {}

\* Every condition that applies.
AttentionReasons(x, now) ==
  (IF Stale(x, now) THEN {"STALE"} ELSE {}) \cup (IF LowBattery(x) THEN {"LOW_BATTERY"} ELSE {})

\* The one the map shows: silence governs.
Attention(x, now) ==
  IF Stale(x, now) THEN "STALE" ELSE IF LowBattery(x) THEN "LOW_BATTERY" ELSE "NONE"

SilentFor(x, now) == IF now > x.lastObserved THEN now - x.lastObserved ELSE 0

\* A route is shown only for a vehicle under remote control.
RouteShown(x) == IF x.status = "EN_ROUTE" THEN x.routeId ELSE ""

Marker(x, now) ==
  [vehicleId        |-> x.id,
   status           |-> x.status,
   silentFor        |-> SilentFor(x, now),
   attention        |-> Attention(x, now),
   attentionReasons |-> AttentionReasons(x, now),
   routeId          |-> RouteShown(x),
   zoneId           |-> ZoneFor(x.position)]

-----------------------------------------------------------------------------
(* The whole fleet.                                                        *)

ReportingOf(vehicles) == {x \in vehicles : x.reporting}

InStatus(vehicles, status) == {x \in ReportingOf(vehicles) : x.status = status}

\* Only a free vehicle could serve a customer now.
AvailableIn(vehicles, zone) == {x \in InStatus(vehicles, "FREE") : ZoneFor(x.position) = zone}

CoverageState(available, minimum) ==
  IF available = 0 THEN "NONE_AVAILABLE"
  ELSE IF available < minimum THEN "BELOW_MINIMUM" ELSE "MEETING"

Coverage(vehicles) ==
  [i \in DOMAIN Zones |->
     LET available == Cardinality(AvailableIn(vehicles, Zones[i].id))
     IN  [zoneId    |-> Zones[i].id,
          available |-> available,
          minimum   |-> Zones[i].minimum,
          state     |-> CoverageState(available, Zones[i].minimum)]]

Summary(vehicles, now) ==
  LET reporting == ReportingOf(vehicles)
  IN  [total                   |-> Cardinality(vehicles),
       free                    |-> Cardinality(InStatus(vehicles, "FREE")),
       enRoute                 |-> Cardinality(InStatus(vehicles, "EN_ROUTE")),
       withCustomer            |-> Cardinality(InStatus(vehicles, "WITH_CUSTOMER")),
       lowBattery              |-> Cardinality({x \in reporting : LowBattery(x)}),
       stale                   |-> Cardinality({x \in reporting : Stale(x, now)}),
       awaitingFirstReport     |-> Cardinality(vehicles \ reporting),
       availableOutsideAnyZone |-> Cardinality(AvailableIn(vehicles, ZoneNone))]

Snapshot(vehicles, now) ==
  [vehicles            |-> {Marker(x, now) : x \in ReportingOf(vehicles)},
   awaitingFirstReport |-> {x.id : x \in vehicles \ ReportingOf(vehicles)},
   coverage            |-> Coverage(vehicles),
   summary             |-> Summary(vehicles, now)]

\* Mutant: every route still held is drawn.
RoutesHeld(vehicles) == {x.routeId : x \in ReportingOf(vehicles)} \ {""}

\* The ids of the geometry that is published beside the snapshot.
Routes(vehicles) == {x.routeId : x \in InStatus(vehicles, "EN_ROUTE")} \ {""}

=============================================================================
