------------------------------ MODULE Contract ------------------------------
(***************************************************************************)
(* The shared vocabulary of the event stream: backend/contract.  Every     *)
(* other module reads event types, topics, signals and statuses from here. *)
(***************************************************************************)
EXTENDS Naturals

\* The three states a vehicle reports (VehicleStatus).
Statuses == {"FREE", "EN_ROUTE", "WITH_CUSTOMER"}

\* Each event type belongs on exactly one topic (EventType.Topic).
TopicOf ==
  [VehicleRegistered |-> "lifecycle",
   VehiclePosition   |-> "telemetry",
   VehicleBattery    |-> "telemetry",
   VehicleStatus     |-> "telemetry",
   RouteAssigned     |-> "routes",
   RouteCleared      |-> "routes"]

\* The six event types the backend consumes (EventType).
EventTypes == {"VehicleRegistered", "VehiclePosition", "VehicleBattery",
               "VehicleStatus", "RouteAssigned", "RouteCleared"}

\* The last-write-wins registers of one vehicle (Signal).
Signals == {"registration", "position", "battery", "status", "route"}

\* The signals that are the vehicle itself speaking.
Telemetry == {"position", "battery", "status"}

\* The register an event writes to; an assignment and a clear share one
\* (EventType.Signal).
SignalOf(type) ==
  CASE type = "VehicleRegistered" -> "registration"
    [] type = "VehiclePosition"   -> "position"
    [] type = "VehicleBattery"    -> "battery"
    [] type = "VehicleStatus"     -> "status"
    [] type \in {"RouteAssigned", "RouteCleared"} -> "route"

=============================================================================
