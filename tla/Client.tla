------------------------------- MODULE Client -------------------------------
(***************************************************************************)
(* The browser (web/src): a store that keeps the last snapshot it was      *)
(* sent, a watchdog that notices when snapshots stop, a filter, and the    *)
(* one notice that tells the operator how far the map can be trusted.      *)
(*                                                                         *)
(* Time is counted in steps that divide both the tick and the interval of  *)
(* the watchdog.  The code keeps the time the last snapshot came and only  *)
(* ever reads how long ago that is, so the model keeps that age, and lets  *)
(* it stop growing at Longest, past every comparison.                      *)
(***************************************************************************)
EXTENDS Integers, FiniteSets

CONSTANTS Snapshots,      \* what the backend may send: [lifecycle, vehicles, awaiting]
          Nothing,        \* no snapshot, no age
          TickInterval, WatchInterval, MissedTicks,
          StatusChoices, ReasonChoices   \* the figures an operator may select

ASSUME ClientAssumption ==
  /\ {TickInterval, WatchInterval, MissedTicks} \subseteq Nat \ {0}
  /\ Nothing \notin Snapshots \cup Nat \cup {"STARTING", "READY"}
  /\ \A s \in Snapshots : s.lifecycle \in {"STARTING", "READY"}

VARIABLES stream,          \* EventSource: "opening" or "open"
          configured,      \* state.config has arrived
          snapshot,        \* state.snapshot
          silence,         \* how long ago state.lastSnapshotAt is
          transportFailed, \* state.transportFailed
          trusted,         \* connection.current, as the watchdog last found it
          checkIn,         \* until the watchdog looks again
          filter           \* App: what the operator has narrowed to

storeVars == <<configured, snapshot, silence, transportFailed>>
watchVars == <<trusted, checkIn>>
vars == <<stream, storeVars, watchVars, filter>>

\* Three ticks of silence, and the watchdog looks a whole interval later.
Patience == MissedTicks * TickInterval
Longest  == Patience + WatchInterval + 1

WholeFleet == [statuses |-> {}, reasons |-> {}]

Narrowed == filter # WholeFleet

-----------------------------------------------------------------------------
(* What is on the screen.                                                  *)

Matches(vehicle) ==
  /\ filter.statuses = {} \/ vehicle.status \in filter.statuses
  /\ filter.reasons = {} \/ filter.reasons \cap vehicle.attentionReasons # {}

Vehicles  == IF snapshot = Nothing THEN {} ELSE snapshot.vehicles
Shown     == {x \in Vehicles : Matches(x)}
Lifecycle == IF snapshot = Nothing THEN Nothing ELSE snapshot.lifecycle

\* The transport speaks sooner than the watchdog, which stays authoritative.
Current == trusted /\ ~transportFailed

\* Mutant: a filter that leaves something on the map goes without saying.
NoticeOfEmptiness ==
  IF ~Current THEN "notCurrent"
  ELSE IF Lifecycle = "STARTING" THEN "filling"
  ELSE IF Narrowed /\ Shown = {} /\ Vehicles # {} THEN "nothingMatches"
  ELSE IF Vehicles = {} THEN "empty" ELSE "none"

\* ViewNotice: the order is the order of authority.
Notice ==
  IF ~Current THEN "notCurrent"
  ELSE IF Lifecycle = "STARTING" THEN "filling"
  ELSE IF Narrowed /\ Shown = {} /\ Vehicles # {} THEN "nothingMatches"
  ELSE IF Vehicles = {} THEN "empty"
  ELSE IF Narrowed THEN "narrowed" ELSE "none"

-----------------------------------------------------------------------------
Loaded ==
  /\ stream = "opening" /\ configured = FALSE
  /\ snapshot = Nothing /\ silence = Nothing /\ transportFailed = FALSE
  /\ trusted = TRUE /\ checkIn = WatchInterval
  /\ filter = WholeFleet

Init == Loaded

\* The page is loaded again: of all this nothing is remembered.
Reload ==
  /\ stream' = "opening" /\ configured' = FALSE
  /\ snapshot' = Nothing /\ silence' = Nothing /\ transportFailed' = FALSE
  /\ trusted' = TRUE /\ checkIn' = WatchInterval
  /\ filter' = WholeFleet

-----------------------------------------------------------------------------
(* The stream.  The server sends the config before anything else.          *)

OnConfig ==
  /\ stream = "opening"
  /\ stream' = "open" /\ configured' = TRUE
  /\ UNCHANGED <<snapshot, silence, transportFailed, watchVars, filter>>

\* Mutant: only the watchdog is told that contact is back.
OnSnapshotUnnoticed ==
  /\ stream = "open"
  /\ \E s \in Snapshots : snapshot' = s
  /\ silence' = 0
  /\ UNCHANGED <<stream, configured, transportFailed, watchVars, filter>>

OnSnapshot ==
  /\ stream = "open"
  /\ \E s \in Snapshots : snapshot' = s
  /\ silence' = 0 /\ transportFailed' = FALSE
  /\ UNCHANGED <<stream, configured, watchVars, filter>>

\* EventSource reports the error and opens the stream again by itself.
OnTransportError ==
  /\ stream' = "opening" /\ transportFailed' = TRUE
  /\ UNCHANGED <<configured, snapshot, silence, watchVars, filter>>

-----------------------------------------------------------------------------
(* The watchdog.                                                           *)

\* Mutant: the interval of the watchdog stands in for the tick.
PatienceUnconfigured == MissedTicks * WatchInterval

\* state.config?.tickIntervalMs ?? watchInterval
PatienceConfigured == MissedTicks * (IF configured THEN TickInterval ELSE WatchInterval)

\* Mutant: the third missed tick is one too many.
WithinStrictly == silence # Nothing => silence < PatienceConfigured

\* assess
Within == silence # Nothing => silence <= PatienceConfigured

\* A timer that is due goes off before any more time passes.
Check ==
  /\ checkIn = 0
  /\ trusted' = Within /\ checkIn' = WatchInterval
  /\ UNCHANGED <<stream, storeVars, filter>>

Pass ==
  /\ checkIn > 0
  /\ checkIn' = checkIn - 1
  /\ silence' = IF silence = Nothing \/ silence = Longest THEN silence ELSE silence + 1
  /\ UNCHANGED <<stream, configured, snapshot, transportFailed, trusted, filter>>

-----------------------------------------------------------------------------
(* The operator.  The header is inert while the view is not current, and   *)
(* has no figures before the first snapshot.                               *)

Toggled(chosen, c) == (chosen \ {c}) \cup ({c} \ chosen)

ToggleFigure ==
  /\ Current /\ snapshot # Nothing
  /\ \/ \E s \in StatusChoices : filter' = [filter EXCEPT !.statuses = Toggled(@, s)]
     \/ \E r \in ReasonChoices : filter' = [filter EXCEPT !.reasons = Toggled(@, r)]
  /\ UNCHANGED <<stream, storeVars, watchVars>>

\* The notices that a filter causes carry the button that undoes it.
ClearFilter ==
  /\ Notice \in {"nothingMatches", "narrowed"}
  /\ filter' = WholeFleet
  /\ UNCHANGED <<stream, storeVars, watchVars>>

Next == \/ OnConfig \/ OnSnapshot \/ OnTransportError
        \/ Check \/ Pass
        \/ ToggleFigure \/ ClearFilter \/ Reload

Spec == Init /\ [][Next]_vars

\* Time passes and the timer goes off; nothing is promised of the backend, the
\* network or the operator.
FairSpec == Spec /\ WF_vars(Check) /\ WF_vars(Pass)

-----------------------------------------------------------------------------
(* Properties.                                                             *)

\* "without leaving the operator looking at a frozen map that appears live"
\* (missedTicks): a view that says it is current shows a snapshot no older than
\* the ticks that may be missed and one look of the watchdog.
FrozenMapIsCalledOut ==
  Current /\ snapshot # Nothing => silence <= Patience + WatchInterval

\* No notice means that the map is the whole of a fleet that is itself complete:
\* everything that has reported is drawn, now, by a backend that is READY.
NoNoticeMeansWholeFleet ==
  Notice = "none" =>
    /\ snapshot # Nothing /\ snapshot.lifecycle = "READY"
    /\ Shown = snapshot.vehicles
    /\ silence <= Patience + WatchInterval

\* The contact was lost only for a reason: the transport said so, or more ticks
\* than MissedTicks went by since the last snapshot.
TrustIsLostForAReason ==
  [][Current /\ ~Current' => transportFailed' \/ (silence # Nothing /\ silence > Patience)]_vars

\* Once the stream stays open and snapshots keep coming, the view is current again
\* and stays so, whatever the outage left behind in the store and the watchdog.
ContactIsRegained ==
  <>[](stream = "open" /\ silence # Nothing /\ silence <= Patience) => <>[]Current

\* "connected, current, and there genuinely are no vehicles" (ViewNotice.tsx).
EmptyMeansNoVehicles ==
  Notice = "empty" =>
    /\ snapshot # Nothing /\ snapshot.lifecycle = "READY"
    /\ snapshot.vehicles = {} /\ snapshot.awaiting = {}

=============================================================================
