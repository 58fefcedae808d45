------------------------- MODULE EventSourcedFleet -------------------------
(***************************************************************************)
(* What the backend promises about fleet state, without registers, without *)
(* sequence comparisons on arrival and without discards: the state is a    *)
(* function of the set of observations it has been told of.  The order in  *)
(* which they arrived, and how often, cannot be read off it.               *)
(***************************************************************************)
EXTENDS Contract

CONSTANTS Vehicles, Events, Zero

VARIABLES roster,   \* the vehicles a registration has announced
          history,  \* the observations made of them
          view      \* what is shown of each signal of each vehicle

vars == <<roster, history, view>>

About(v, s, H) == {e \in H : e.vehicleId = v /\ SignalOf(e.type) = s}

\* The newest observation of a non-empty set.
Newest(H) == CHOOSE e \in H : \A o \in H : o.sequence <= e.sequence

\* A cleared route is shown as no route at all.
Shown(H) ==
  IF H = {} \/ Newest(H).type = "RouteCleared" THEN Zero ELSE Newest(H).payload

ViewOf(H) == [v \in Vehicles |-> [s \in Signals |-> Shown(About(v, s, H))]]

Init == roster = {} /\ history = {} /\ view = ViewOf({})

Announced(e) == IF e.type = "VehicleRegistered" THEN {e.vehicleId} ELSE {}

\* An observation of a vehicle nobody has announced is not recorded.
Observe(e) ==
  /\ roster' = roster \cup Announced(e)
  /\ e.vehicleId \in roster'
  /\ history' = history \cup {e}
  /\ view' = ViewOf(history')

Next == \E e \in Events : Observe(e)

Spec == Init /\ [][Next]_vars

=============================================================================
