---------------------------- MODULE MCFleetStore ----------------------------
(***************************************************************************)
(* Two vehicles and one small stream: a journey of "a" with its telemetry, *)
(* a relabelling and two routes, a vehicle "b" that is hardly ever heard   *)
(* from, and deliveries that each fail one check of the projection.        *)
(***************************************************************************)
EXTENDS FleetStore, TLC

MCVehicles == {"a", "b"}

\* A well-formed delivery.
Event(type, v, seq, at, payload) ==
  [json |-> TRUE, topic |-> TopicOf[type], key |-> v, type |-> type,
   vehicleId |-> v, sequence |-> seq, observedAt |-> at,
   payload |-> payload @@ [readable |-> TRUE]]

RegisteredA1 == Event("VehicleRegistered", "a", 1, 1, [label |-> "EV-01"])
PositionA1   == Event("VehiclePosition", "a", 1, 2, [lng |-> 180, lat |-> -90, heading |-> 359])
AssignedA1   == Event("RouteAssigned", "a", 1, 2, [routeId |-> "r1", points |-> 2])

Journey ==
  {RegisteredA1, PositionA1, AssignedA1,
   Event("VehicleRegistered", "a", 2, 5, [label |-> "EV-02"]),
   Event("VehiclePosition", "a", 2, 3, [lng |-> 0, lat |-> 0, heading |-> 0]),
   Event("VehicleBattery", "a", 1, 2, [percent |-> 100]),
   Event("VehicleStatus", "a", 1, 2, [status |-> "EN_ROUTE"]),
   Event("VehicleStatus", "a", 2, 4, [status |-> "WITH_CUSTOMER"]),
   Event("RouteAssigned", "a", 2, 3, [routeId |-> "r2", points |-> 3]),
   Event("RouteCleared", "a", 3, 4, [routeId |-> "r2"])}

Others ==
  {Event("VehicleRegistered", "b", 1, 1, [label |-> "EV-09"]),
   Event("VehicleBattery", "b", 1, 1, [percent |-> 0])}

\* Each differs from a good delivery in what one check looks at.
Malformed ==
  {[PositionA1 EXCEPT !.json = FALSE],
   [PositionA1 EXCEPT !.type = "VehicleRetired"],
   [PositionA1 EXCEPT !.topic = "routes"],
   [PositionA1 EXCEPT !.vehicleId = ""],
   [PositionA1 EXCEPT !.key = "b"],
   [PositionA1 EXCEPT !.observedAt = 0],
   [PositionA1 EXCEPT !.payload.readable = FALSE],
   [PositionA1 EXCEPT !.payload.lng = 181],
   [PositionA1 EXCEPT !.payload.heading = 360],
   [RegisteredA1 EXCEPT !.payload.label = ""],
   Event("VehicleBattery", "a", 3, 3, [percent |-> 101]),
   Event("VehicleStatus", "a", 3, 3, [status |-> "PARKED"]),
   [AssignedA1 EXCEPT !.payload.points = 1],
   [AssignedA1 EXCEPT !.payload.routeId = ""],
   Event("RouteCleared", "a", 9, 9, [routeId |-> ""])}

MCRecords == Journey \cup Others \cup Malformed

=============================================================================
