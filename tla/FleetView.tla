----------------------------- MODULE FleetView -----------------------------
(***************************************************************************)
(* The store and the derivation together: what a publication at any moment *)
(* of any stream would show.  A publication reads the store in one         *)
(* critical section and derives from that copy, so View is an operator on  *)
(* the state and not a state of its own.  Time passes between deliveries,  *)
(* and observations may be dated ahead of it (the producer's clock rules). *)
(***************************************************************************)
EXTENDS FleetStore, Derive

CONSTANT MaxNow   \* bound on the clock of the publisher

ASSUME ViewAssumption == IsFiniteSet(Vehicles) /\ MaxNow \in Nat

VARIABLE now      \* the publisher's clock

viewVars == <<vars, now>>

\* vehicleState.snapshot: the registers of one vehicle, zero values where empty.
StoredVehicle(v) ==
  LET held == registers[v]
  IN  [id           |-> v,
       reporting    |-> Reporting(v),
       position     |-> held["position"].value,
       status       |-> IF held["status"].present THEN held["status"].value.status ELSE "",
       battery      |-> IF held["battery"].present THEN held["battery"].value.percent ELSE 0,
       routeId      |-> IF held["route"].value = Zero THEN "" ELSE held["route"].value.routeId,
       lastObserved |-> LastObserved(v)]

\* MemoryStore.Snapshot
StoreSnapshot == {StoredVehicle(v) : v \in known}

View == Snapshot(StoreSnapshot, now)

\* The client's filter: any of the statuses chosen and any of the conditions
\* chosen; an empty choice restricts nothing.
Matches(filter, marker) ==
  /\ filter.statuses = {} \/ marker.status \in filter.statuses
  /\ filter.attention = {} \/ filter.attention \cap marker.attentionReasons # {}

ViewInit == Init /\ now = 0

Deliver == Next /\ UNCHANGED now

Tick == now < MaxNow /\ now' = now + 1 /\ UNCHANGED vars

ViewNext == Deliver \/ Tick

ViewSpec == ViewInit /\ [][ViewNext]_viewVars

-----------------------------------------------------------------------------
(* Properties.                                                             *)

\* The total is the sum of the status counts and those awaiting a first report,
\* and total minus awaiting is the number of markers (comment on Summary.Total);
\* a drawn vehicle whose status never arrived would be counted nowhere.
SummaryReconciles ==
  LET view == View
      s    == view.summary
  IN  /\ s.total = s.free + s.enRoute + s.withCustomer + s.awaitingFirstReport
      /\ s.total - s.awaitingFirstReport = Cardinality(view.vehicles)
      /\ s.awaitingFirstReport = Cardinality(view.awaitingFirstReport)

\* The zones' available vehicles and those outside any zone make up the free ones
\* (comment on Summary.AvailableOutsideAnyZone), however the zones lie.
FreeAddUp ==
  LET view         == View
      available(i) == view.coverage[i].available
  IN  view.summary.free =
        MapThenSumSet(available, DOMAIN Zones) + view.summary.availableOutsideAnyZone

\* The position is on an edge that the two boundaries share, between its ends.
OnCommonEdge(one, other, position) ==
  \E e \in Edges(one), f \in Edges(other) :
    LET from == one[e]
        to   == one[e + 1]
    IN  /\ {from, to} = {other[f], other[f + 1]}
        /\ (from.lng - position.lng) * (to.lat - position.lat)
             = (to.lng - position.lng) * (from.lat - position.lat)
        /\ (from.lng - position.lng) * (to.lng - position.lng)
             + (from.lat - position.lat) * (to.lat - position.lat) < 0

\* No free vehicle is lost between the zones or counted in two of them: the figures
\* add up, and a vehicle on an edge that two zones share is in exactly one of the two.
CoverageReconciles ==
  /\ FreeAddUp
  /\ \A x \in ReportingOf(StoreSnapshot), i, j \in DOMAIN Zones :
       LET one   == Zones[i].boundary
           other == Zones[j].boundary
       IN  i < j /\ OnCommonEdge(one, other, x.position) =>
             (Contains(one, x.position) # Contains(other, x.position))

\* How many markers of a view a filter leaves on the map.
Showing(view, statuses, attention) ==
  Cardinality({m \in view.vehicles :
                 Matches([statuses |-> statuses, attention |-> attention], m)})

\* Each figure is the number of markers left on the map by the filter it applies
\* (comment on Summary.LowBattery and on matches in state.ts).
FiguresMatchFilters ==
  LET view == View
  IN  /\ view.summary.free         = Showing(view, {"FREE"}, {})
      /\ view.summary.enRoute      = Showing(view, {"EN_ROUTE"}, {})
      /\ view.summary.withCustomer = Showing(view, {"WITH_CUSTOMER"}, {})
      /\ view.summary.stale        = Showing(view, {}, {"STALE"})
      /\ view.summary.lowBattery   = Showing(view, {}, {"LOW_BATTERY"})

\* The geometry published beside a snapshot is that of the routes it references,
\* no more and no less: a route left over from a finished journey, or one that
\* outran its vehicle's status, is in neither (derive.Routes).
RoutesMatchMarkers == Routes(StoreSnapshot) = {m.routeId : m \in View.vehicles} \ {""}

Condition(v) == Attention(StoredVehicle(v), now)
Silence(v)   == SilentFor(StoredVehicle(v), now)

\* A vehicle stops counting as silent, or appears to have spoken more recently,
\* only because it has spoken: no replay, relabelling or route event does it, and
\* the passing of time only ever makes the silence longer.
SilenceEndsOnlyByReport ==
  [][\A v \in Vehicles :
       Reporting(v) /\ (\/ Condition(v) = "STALE" /\ Condition(v)' # "STALE"
                        \/ Silence(v)' < Silence(v)) =>
         /\ last'.outcome = "applied"
         /\ last'.record.vehicleId = v
         /\ SignalOf(last'.record.type) \in Telemetry]_viewVars

=============================================================================
