------------------------------ MODULE MCClient ------------------------------
(***************************************************************************)
(* A backend that fills up with two vehicles, one of which falls silent    *)
(* and runs low; in steps of 50 ms a tick is 4 and a look of the watchdog  *)
(* 5, as in the code.                                                      *)
(***************************************************************************)
EXTENDS Client

Vehicle(id, status, reasons) ==
  [vehicleId |-> id, status |-> status, attentionReasons |-> reasons]

A == Vehicle("a", "FREE", {})
B == Vehicle("b", "EN_ROUTE", {"LOW_BATTERY"})

Sent(lifecycle, vehicles, awaiting) ==
  [lifecycle |-> lifecycle, vehicles |-> vehicles, awaiting |-> awaiting]

MCSnapshots ==
  {Sent("STARTING", {}, {}), Sent("STARTING", {}, {"a"}),
   Sent("READY", {}, {"a", "b"}), Sent("READY", {A}, {"b"}), Sent("READY", {A, B}, {}),
   Sent("READY", {A, Vehicle("b", "EN_ROUTE", {"STALE", "LOW_BATTERY"})}, {})}

=============================================================================
