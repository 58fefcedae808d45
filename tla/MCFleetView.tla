---------------------------- MODULE MCFleetView ----------------------------
(***************************************************************************)
(* Three zones, of which two adjoin the first; a vehicle "a" that drives   *)
(* from one of the common edges to the other, takes a journey and is told  *)
(* of its route late; a vehicle "b" that is outside them with its battery  *)
(* exactly at the threshold; and deliveries that each fail one check of    *)
(* the projection.                                                         *)
(***************************************************************************)
EXTENDS FleetView

LOCAL INSTANCE TLC

MCVehicles == {"a", "b"}

Event(type, v, seq, at, payload) ==
  [json |-> TRUE, topic |-> TopicOf[type], key |-> v, type |-> type,
   vehicleId |-> v, sequence |-> seq, observedAt |-> at,
   payload |-> payload @@ [readable |-> TRUE]]

Place(lng, lat) == [lng |-> lng, lat |-> lat, heading |-> 0]

RegisteredA1 == Event("VehicleRegistered", "a", 1, 1, [label |-> "EV-01"])
PositionA1   == Event("VehiclePosition", "a", 1, 1, Place(2, 1))
AssignedA1   == Event("RouteAssigned", "a", 1, 2, [routeId |-> "r1", points |-> 2])

Observed ==
  {RegisteredA1, PositionA1, AssignedA1,
   Event("VehiclePosition", "a", 2, 2, Place(1, 2)),
   Event("VehicleBattery", "a", 1, 1, [percent |-> 19]),
   Event("VehicleStatus", "a", 1, 1, [status |-> "FREE"]),
   Event("VehicleStatus", "a", 2, 2, [status |-> "EN_ROUTE"]),
   Event("RouteCleared", "a", 2, 4, [routeId |-> "r1"]),
   Event("VehicleRegistered", "b", 1, 1, [label |-> "EV-02"]),
   Event("VehiclePosition", "b", 1, 3, Place(5, 5)),
   Event("VehicleBattery", "b", 1, 3, [percent |-> 20]),
   Event("VehicleStatus", "b", 1, 3, [status |-> "FREE"])}

\* Each differs from a good delivery in what one check looks at.
Malformed ==
  {[PositionA1 EXCEPT !.json = FALSE],
   [PositionA1 EXCEPT !.type = "VehicleRetired"],
   [PositionA1 EXCEPT !.topic = "routes"],
   [PositionA1 EXCEPT !.vehicleId = ""],
   [PositionA1 EXCEPT !.key = "b"],
   [PositionA1 EXCEPT !.observedAt = 0],
   [PositionA1 EXCEPT !.payload.readable = FALSE],
   [PositionA1 EXCEPT !.payload.lng = 181],
   [PositionA1 EXCEPT !.payload.heading = 360],
   [RegisteredA1 EXCEPT !.payload.label = ""],
   Event("VehicleBattery", "a", 2, 3, [percent |-> 101]),
   Event("VehicleStatus", "a", 3, 3, [status |-> "PARKED"]),
   [AssignedA1 EXCEPT !.payload.points = 1],
   [AssignedA1 EXCEPT !.payload.routeId = ""],
   Event("RouteCleared", "a", 9, 9, [routeId |-> ""])}

MCRecords == Observed \cup Malformed

Square(west, south) ==
  <<[lng |-> west, lat |-> south], [lng |-> west + 2, lat |-> south],
    [lng |-> west + 2, lat |-> south + 2], [lng |-> west, lat |-> south + 2],
    [lng |-> west, lat |-> south]>>

MCZones == <<[id |-> "west", minimum |-> 1, boundary |-> Square(0, 0)],
             [id |-> "east", minimum |-> 2, boundary |-> Square(2, 0)],
             [id |-> "north", minimum |-> 1, boundary |-> Square(0, 2)]>>

=============================================================================
