# Fleet Radar in TLA+

Fleet Radar shows one operational view of a fleet of remotely driven vehicles. Events come in at
least once and in no particular order; a projection keeps the newest observation of each signal of
each vehicle; five times a second a publisher derives one generation of operator state and offers it
to every connected viewer; the browser replaces what it shows with what it receives.

This directory models the parts of that program in which order, concurrency, failure or a boundary
value can go wrong, checks them with TLC on small instances, and proves with TLAPS what holds for
every instance. Every definition is translated from the code; `PROJECT.json` gives, for each one, the
lines it stands for.

## 1. Inventory

### Components, their state and their operations

| Component | Source | State | Operations |
|---|---|---|---|
| Event contract | `backend/contract/events.go`, `constants.go`, `wire.go` | none | types, topics, signals, thresholds, wire types |
| Projection and store | `backend/fleet/project.go`, `store.go` | per vehicle five last-write-wins registers | `Apply`; `Register`, `SetPosition`, `SetBattery`, `SetStatus`, `SetRoute`, `ClearRoute`; `Snapshot` |
| Ingest queue | `backend/fleet/ingest.go` | a bounded channel, one goroutine | `Consume`, `Barrier`, `Run` |
| Process | `backend/cmd/fleetradar/main.go` | where `main` is, the signal context | replay, wait, mark ready, serve, shut down |
| Derivation | `backend/derive/derive.go` | none | `Snapshot`, `Routes` |
| Publisher and streams | `backend/api/publisher.go`, `stream.go` | lifecycle, last rendered routes, subscribers; per viewer two one-frame channels, a `done` channel and a stall counter | `MarkReady`, `Publish`, `subscribe`, `unsubscribe`, `disconnect`, `closeAll`, `Stream` |
| Simulator | `backend/sim/sim.go`, `vehicle.go`, `delivery.go`, `params.go` | vehicles with a leg, a battery, per-signal sequence numbers; held-back deliveries | `Replay`, `Step`: release, advance, dispatch, replan, report |
| Road graph | `backend/sim/graph.go`, `vehicle.go` | immutable graph, binary heap; per vehicle the roads still to drive | `mustLoadGraph`, `reachable`, `Path`; `plan`, `replan`, `advance`, `arrive` along the roads |
| Road network | `backend/cmd/roadgen` | none, run once by hand | `parse`, `simplify`, `build`, `strongest`, `validate` |
| Zone geometry | `backend/contract/geometry.go` | immutable polygons | `Contains` |
| Web client | `web/src/store.ts`, `stream.ts`, `connection.ts`, `state.ts`, `App.tsx`, `components/ViewNotice.tsx` | last snapshot and routes, transport state, filters | replace on message, watchdog, filter, notice |
| Web rendering | `web/src/map/*`, `components/*` | none of its own | draw what the store holds |
| Type generator | `backend/cmd/tsgen` | none | prints TypeScript types at build time |

### How they interact

```
Simulator.Replay / Run ──Consume──▶ Ingest queue ──Run──▶ Projector.Apply ──▶ MemoryStore
                                         ▲                                        │ Snapshot()
main: Replay; <-Barrier; MarkReady ──────┘                                        ▼
                     └────────────── lifecycle ─────────▶ Publisher.Publish (derive) ──▶ per-viewer
                                                                  slots ──▶ Stream ──SSE──▶ client
```

Goroutines: `main`, the projecting goroutine (`Ingest.Run`), the source (`Simulator.Run`), the
publisher (`Publisher.Run`), one handler per viewer (`Stream`), and the one that shuts the server
down. They share the queue (a channel), the store (its mutex), the publisher (its mutex) and the
channels of each viewer.

### What is hard, and what makes each component correct

* **Projection and store**: duplicates, reordering, telemetry of vehicles nobody registered, two
  event types that share the route register. Correct when what is shown is a function of the *set*
  of observations received; when a redelivery is harmless; when nothing shown goes backwards; when
  only a vehicle's own telemetry makes it look alive.
* **Ingest, startup, shutdown**: a queue that may be smaller than the roster; readiness defined as a
  position in the stream; an interrupt at any moment, with the queue full or a producer blocked.
  Correct when READY implies a projected roster, when nothing is lost or reordered, when startup
  ends, and when an interrupt of a ready process ends it.
* **Publisher and streams**: publication interleaved with subscription, leaving, slow clients and
  shutdown; routes that are sent only on change; a snapshot taken in several critical sections.
  Correct when clients only move forward, when a viewer that has caught up draws the published
  routes, when only laggards are dropped and each once, and when a slow client delays nobody.
* **Derivation**: counts computed along different paths must reconcile; stale dominates low battery.
* **Simulator**: legs, routes and reports in step; delays, duplicates and silences.
* **Road network**: a pruning in two passes over one-way streets, on which the simulator relies to find
  its way from anywhere to anywhere. Correct when what is kept is the largest part of the city whose
  intersections reach one another.
* **Road graph**: entries left behind in the heap, an early stop at the limit, roads driven against the
  way their shape is stored, a journey revised in the middle of a road. Correct when the search is exact
  and a vehicle never leaves the streets.
* **Geometry**: points on boundaries.
* **Client**: no answer yet, a late answer and an empty answer must look different.

`PROJECT.json` lists each hazard at the line where it bites, with the properties that cover it.

## 2. Modules

| Module | Models | Status |
|---|---|---|
| `Contract` | event types, topics, signals, statuses | checked through `FleetStore` |
| `FleetStore` | `Projector.Apply`, the store, what `Snapshot` shows | checked and proved |
| `EventSourcedFleet` | the abstract promise: state is a function of the set of observations | implemented by `FleetStore` (checked and proved) |
| `MCFleetStore` | the stream TLC explores | |
| `Geometry` | `Contains`, the shape of zones | checked through `FleetView` |
| `Derive` | `derive.Snapshot`, `derive.Routes` as operators | checked through `FleetView` |
| `FleetView` | store and derivation together, on a clock: what a publication at any moment would show | checked and proved |
| `FleetProofs` | the theorems about `FleetStore` and about what is shown of it | proved |
| `MCFleetView` | the stream and the zones TLC explores | |
| `Simulator` | `Simulator.Step`, vehicles, dispatch, reports, delivery | checked and proved |
| `SimulatorProofs` | the theorems about the fleet | proved |
| `Client` | the browser's store, watchdog, filter and notices | checked and proved |
| `ClientProofs`, `MCClient` | the theorems about the client; the snapshots TLC sends it | proved |
| `Startup` | queue, barrier, `main`, source loop, interrupt | checked and proved |
| `StartupProofs` | the theorems about readiness and the queue | proved |
| `Publisher` | `Publish`, the viewers' channels, `Stream`, shutdown of the viewers | checked and proved |
| `PublisherProofs` | the theorems about what viewers are given | proved |
| `Roadgen` | the pipeline from an OpenStreetMap extract to the road network | checked through `Journeys`, proved |
| `RoadgenProofs` | the lemmas about the network that is made of an extract | proved |
| `Journeys` | loading the network, the search with its heap, driving and revising a journey | checked and proved |
| `JourneysProofs` | the theorems about the heap, the search, the routes, the streets they follow and the network they lie on | proved |
| `MCJourneys` | six small extracts | |
| `Search` | the search on any graph, with a set where the code has a heap | implemented by `Journeys` (checked and proved), proved exact |
| `SearchProofs` | the theorems about the search | proved |

`FleetView` extends `FleetStore` and instantiates `Derive` and `Geometry`; `Journeys` extends `Roadgen`,
which instantiates `Geometry`, and instantiates `Search`; `Simulator`, `Startup`, `Publisher` and `Client`
stand alone, each with the smallest environment it needs. `MC` modules hold only values for TLC.

### FleetStore

A delivery is a record with the fields the projection looks at: whether the envelope is JSON, topic,
key, type, vehicle, sequence number, observation time and payload. `Interpretable` is the checks of
`Apply` followed by those of `project`; a delivery that fails one is a `Discard` and changes nothing.
Otherwise exactly one store method runs. `RegisterVehicle` may create a vehicle; the other five go
through `Write`, which refuses an unknown vehicle. `Accept` is `register.accept`: empty or strictly
older registers are overwritten, an equal number is a duplicate, a smaller one is superseded.

One delivery is one step because one goroutine projects and each store method holds the store's
mutex from its first to its last line. A vehicle that is not in `known` keeps five empty registers,
which is what an absent map entry means. `accepted` is a history variable: the records that reached
a register comparison. Nothing reads it except the properties and the refinement mapping.

`RecordsAssumption` is what the source guarantees about a stream: within one signal of one vehicle a
sequence number names one observation, and a later number does not carry an earlier time
(`vehicle.next` in `sim/vehicle.go` counts up, `record` in `sim/sim.go` stamps the time of the tick).
Malformed records are under no assumption.

### Startup

`main` replays registrations one `Consume` at a time, posts the barrier behind them, waits for it,
marks the publisher ready, starts the source and serves. `Full` blocks every producer. The
projecting goroutine takes records or the barrier; because Go's `select` takes any ready case, it may
stop with records still queued. The source looks at the context only between steps, so it can be
blocked in `Consume` when the interrupt comes. Nothing runs after `main` has returned: the shutdown
goroutine and the handlers may still have work to do, and the process does not wait for them.

### Publisher

`Publish` is cut where another goroutine can get in: reading the store (its mutex), reading the
lifecycle (the publisher's mutex), rendering routes if the set of ids changed, taking the mutex for
the round, and each channel operation of `offer`, which tries, drains and sends again. The mutex is
held from `Lock` to `EndRound`, so `Subscribe`, `Unsubscribe` and `MarkReady` wait (`Unlocked`);
handlers receive from their channels at any time. A snapshot frame carries its generation, the
lifecycle, the vehicles and the route ids it references; a route frame its generation and ids.
`behind` (how many ticks running the viewer's slot was still full when a publication began) and
`given` are history variables.

The store and `main` are the environment: vehicles are registered one at a time, routes are assigned
once and end, `MarkReady` comes once all are registered.

### Geometry, Derive and FleetView

`derive.Snapshot` and `derive.Routes` are pure, so they are operators: from a set of vehicles and a
time to the record an operator is shown. `FleetView` adds a clock to `FleetStore`; `StoredVehicle` is
`vehicleState.snapshot` and `View` is what a publication would derive in the current state. That is
faithful because a publication copies the store in one critical section and derives from the copy
(that the lifecycle is read later is the subject of `Publisher`). Observations may be dated ahead of
the clock, as a producer's clock may be. Markers carry what the properties compare; names, labels and
coordinates stay behind. `Contains` multiplies out the quotient that the code computes in floating
point, so rounding is not modelled.

### Simulator

One tick is `Simulator.Step`, cut at its loops: `Release` for each record that is due and `EndRelease`, then
`Advance` for each vehicle, `Count` and
`Dispatch` or `PassOver` for each candidate, then for each vehicle `NotItsTurn` or `Replan`/`KeepPlan`
followed by `Speak`, `FallSilent` or `StayQuiet`, and `EndStep`. What a vehicle emits is numbered at
once (`Emit`) and handed over record by record (`Send`), where a record goes out, goes out twice, or
is held back. Every draw from the random source is a choice. A path is the number of steps left to
drive. `Journeys` leaves out 0 (no path) in the run because a plan always comes to something on a network
roadgen makes, if only two of its intersections are inside (`NobodyIsStranded`); `PassOver` still covers the
case. The consumer is reduced to
the newest record of each signal, which is what `FleetStore` shows it to be.

Where a vehicle is on the map plays no part in when it reports and when it is sent out, so the two are
apart: `Simulator` counts steps and `Journeys` drives them.

### Roadgen, Journeys and Search

`Roadgen` is a pipeline of pure functions and modelled as operators: `Parse` cuts an element of the
extract into the stretches whose coordinates came back and turns around what is listed against its
direction; `Build` cuts those at the nodes that are passed twice, drops loops and simplifies shapes
(`DouglasPeucker`); `Strongest` is Kosaraju's algorithm as it is written, a depth-first order of finishing
and a gathering against the roads, then a renumbering; `Usable` is `validate`. The explicit stacks of
the code are sequences, and their loops recursive functions on them (`Walk`, `Widen`), with the same order of
visits. Distances off a line are compared squared
and multiplied out, so nothing is rounded.

`Journeys` starts from any of its extracts, generates the network, loads it (`Load`, with the checks of
`mustLoadGraph` in `Loadable`) and lets one vehicle live on it: `Dispatch`, the calls of `Path` it takes
(`Plan`, `Exit`), the search road by road (`Begin` to `Finish`, with `Push` and `Pop` sifting the heap as
`graph.go` does), `SetOut`, then `Move`, `PassPoint`, `EndRoad`, `Handover` and `Park`, with `Replan` possible at
any point of a road. A search runs to its end before anything else moves, as it does in the code. The
draw of a destination is a choice among those that qualify.

`Search` is the abstract search: the frontier is a set and any nearest entry may be taken. `Journeys`
implements it (`SearchesNearestFirst`, with the heap read as the set of its entries), and `SearchProofs`
shows that whatever implements it is exact.

### Client

`Client` keeps the state of `store.ts`, the watchdog's last verdict and its timer, and the filter; the
screen is operators on that state (`Current`, `Shown`, `Notice`). The code stores when the last snapshot
came and only ever subtracts it from the clock; the model stores the difference, which stops growing
once it is past every comparison, so behaviours are unbounded. A timer that is due goes off before
more time passes, and React renders at once. Snapshots, transport errors, reloads and the operator's
clicks come in any order; the server sends its config first on every connection (`stream.go`).

## 3. Runs

| Run | What it explores | Bounds | Shows |
|---|---|---|---|
| `startup` | every interleaving of `main`, projection, source and interrupt | roster 3, queue 2, 4 reports | readiness, queue integrity, termination |
| `publisher` | every interleaving of publications with one viewer | 1 vehicle, 1 route, 4 publications, `maxStalledTicks` 1 | ordering, completeness of routes, dropping, leaving |
| `slow_viewer` | two viewers, one of which never reads | 2 publications, `maxStalledTicks` 0 | a slow client delays nobody |
| `clear_route` | every order of the deliveries of `MCFleetStore` | 2 vehicles; a journey with two routes and a clear | finding 1 |
| `ready_snapshot` | publication around `MarkReady` | 1 vehicle, 2 publications | finding 2 |
| `route_reference` | a viewer one publication behind | 2 routes, 2 publications | finding 3 |
| `view` | every order and repetition of 27 deliveries with time passing between them | 2 vehicles, 3 zones, two of which adjoin the first; 12 observations, 15 deliveries that fail one check each; 4 ticks of the clock | the store holds the newest of each signal, and what is shown of it adds up |
| `simulator` | every draw of the random source over 6 ticks | 2 vehicles (one mute), target 1, 2 records held back | the fleet, its journeys and its reports stay in step |
| `client` | every timing of snapshots, errors, clicks and reloads | 6 snapshots, steps of 50 ms | what the screen claims is true |
| `roads` | every search, journey and revision on six extracts | up to 9 streets each, trips of 5 to 14 units | the network is connected, routes are shortest and stay on streets |
| `staleness` | two delayed reports in a row | as `simulator` | finding 4 |
| `empty_view` | a page before its first snapshot | as `client` | finding 5 |

Why the bounds are enough. In `view`, registers of different vehicles and signals never meet, so two
vehicles and two observations per signal contain every pair an ordering bug needs; the state
space is the set of all subsets and orders of those deliveries; each malformed delivery differs from a
good one in what a single check looks at. In `startup`, the roster does not fit
in the queue, so replay, barrier and source are all held up at least once. In `publisher`, four
publications with a limit of one stall cover falling behind, recovering and being dropped; one route
gives a route set that appears and goes. `slow_viewer` uses the smallest limit, so the slow viewer is
dropped in the run. Also in `view`, a vehicle drives from a vertical
edge that two zones share to a horizontal one, another stands outside all of them with its battery exactly at the threshold, and an assignment can
outrun the status it belongs with; each count of the summary takes at least two values. In
`simulator`, a report is due every 2 ticks, a vehicle is stale after 4 and a record is held back for 3
or 4, the proportions of the code (1 s, 2 s, 1.5 to 2.5 s); levels of the battery from 0 to 3 cover
draining, charging and being too low to be sent; the target of 1 of 2 vehicles makes the search pass
over one, wrap around and stop. In `roads`, the towns hold what the pipeline and the search make a
difference of: bends that are seen and one that is not, one-way streets listed in and against their
direction, a dead end, a roundabout, a loop and parallel roads of one length, elements without
coordinates, three components of which the largest is neither first nor last, a junction at which the
heap grows and entries are improved on, a town with nothing outside the service area, of which no
network comes, and two towns apart in either of which a vehicle could live, so that their sizes decide. `roads` is not bounded in time: a vehicle drives for ever and the state space is finite
(57,128 states). In `client`, 50 ms divides the tick (4 steps) and the watchdog's
interval (5 steps), so every relative position of the two is met. Bounds on counters (`MaxReports`,
`MaxTicks`, `MaxNow`, `MaxPending`) are guards of the actions that
count; when they are exhausted the system stops, which is why deadlock is not checked there. In `roads`
it is: there is always something to drive or to plan.

Properties of the store:

* `HoldsNewest`: a register holds the newest observation among those that reached it.
* `RedeliveryChangesNothing`: a record compared once never changes anything again.
* `SnapshotsNeverRegress`: no vehicle vanishes, stops having reported or was heard from less recently.
* `FleetIsEventSourced`: `FleetStore` implements `EventSourcedFleet`; telemetry and routes of a stray identifier
  leave no trace, and the rest shows the newest of what was accepted.

Properties of startup: `ReadyMeansWholeFleet` (a ready process has projected every registration),
`NothingLostOrReordered` (what was projected and what is queued are, in order, what was accepted, and the
barrier stands behind all of it), `ReportsFindTheirVehicle`, `StartupCompletes` (unless interrupted),
`InterruptEndsReadyProcess`.

Properties of the read path: `ClientMovesForward`, `SettledViewerHasPublishedRoutes`,
`OnlyLaggardsAreDropped` (who lets no more than `maxStalledTicks` publications go by is not dropped, and who
lets more go by is), `NeverClosedTwice`, `DroppedViewersLeave`, `PublicationReachesReaders`.

Properties of what is shown:

* `SummaryReconciles`: total, status counts, markers and vehicles awaiting a report add up.
* `CoverageReconciles`: the zones' available vehicles and those outside make up the free ones, and a vehicle on
  an edge that two zones share is in exactly one of them.
* `FiguresMatchFilters`: a figure is the number of markers left by the filter it applies.
* `RoutesMatchMarkers`: the geometry published is that of the routes the markers reference.
* `SilenceEndsOnlyByReport`: a silent vehicle stops looking silent only because it spoke.

Properties of the simulator: `AtMostTarget` and `TargetHeld` (the number of journeys is the target
whenever a vehicle is fit to go), `JourneyInStep` (a path and a route exactly on the legs that have
one, and a clear that is next in line names the route the consumer holds), `ConsumerCatchesUp` (duplicates, delays and overtaking leave the consumer with the last word),
`StatusMadeUp` (a change kept quiet by a dropout is reported later), `OneDelayIsHarmless`.

Properties of the roads:

* `IntersectionsReachEachOther`: what the pruning keeps is a largest set of intersections that can all reach
  one another by the streets of the extract, and still do by the roads of the loaded graph.
* `JourneysAreShortest`: `Path` offers exactly the intersections in range, each by a shortest route.
* `StaysOnStreets`: what a vehicle has yet to drive follows streets, in a direction they may be driven in.
* `ShownRouteIsDriven`: the route an operator is shown starts where the vehicle was and ends with exactly
  what it has yet to drive.
* `SearchesNearestFirst`: the search with its heap implements `Search`.
* `NobodyIsStranded`: a plan comes to nothing only where the vehicle is at the only intersection inside the
  service area. It takes the widened call of `plan`, the search without a limit and the pruning together.

The first three are judged by the extract and the network, never by the graph the code loads.

Properties of the client: `FrozenMapIsCalledOut`, `NoNoticeMeansWholeFleet`, `TrustIsLostForAReason`,
`ContactIsRegained`.

### Fairness

`Startup`: weak fairness of each goroutine (the Go scheduler runs what can run), and weak fairness of
`StopIngest` by itself: a `select` whose `ctx.Done()` case stays ready takes it in the end, because
`select` chooses among ready cases at random. Nothing is assumed of the signal or of how much the source
publishes.

`Publisher`: weak fairness of a publication once it can take a step, of stopping, and of the handlers.
Strong fairness of `Unsubscribe`, because it waits for a mutex that the publisher takes and releases
every tick, and Go's mutex hands itself over to a waiter it has starved. A write to a client has no
deadline in the code, so only the clients in `Readers` are assumed to read.

`Client`: weak fairness of time and of the timer that is due. Nothing is assumed of the network or the
operator; `ContactIsRegained` states in its premise that the stream holds and snapshots keep coming.

## 4. Findings

1. **A clear can wipe a route it does not name.** `contract/events.go:154` says a clear applies only
   when it names the route held. `ClearRoute` compares sequence numbers only: when an assignment is
   delayed past its own clear, the clear takes the previous route off the map, and the late
   assignment is then superseded. (`ClearNamesHeldRoute`)
2. **A READY snapshot can show part of the fleet.** `Publish` copies the store first and reads the
   lifecycle later; the last registrations and `MarkReady` fit in between. (`ReadySnapshotIsWholeFleet`)
3. **A snapshot can reference a route the viewer was not given.** The handler takes snapshot *N*, and
   before it drains pending geometry the publisher replaces route frame *N* by *N+1*, from which a
   finished route is gone. The next frames repair it. (`ReferencedRoutesWereGiven`)
4. **Two delayed reports make a healthy vehicle stale.** `delivery.go:30` says that delaying a subset of
   events is safe for staleness and only uniform delay would trip it. Each record is held back for 1.5
   to 2.5 intervals independently, and a vehicle is stale after 2: two consecutive reports held back are
   enough. One is not (`OneDelayIsHarmless`). (`PartialDelayIsHarmless`)
5. **"There are no vehicles in this fleet" is shown before anything is known.** `ViewNotice` tests for
   `total === 0`, which is also true before the first snapshot, where `connection.ts:39` promises that the
   operator is told the view is still opening, and while every vehicle awaits its first report. On a
   stream that opens and stays silent it is shown for ever. (`EmptyMeansNoVehicles`)

More observations are not run. An interrupt before
the barrier is reached can stop the projecting goroutine and leave `main` waiting at `main.go:61` for
ever (`StartupCompletes` and `InterruptEndsReadyProcess` exclude this window in so many words). And
`main` returns as soon as `Shutdown` has been *called*, because `ListenAndServe` returns then, so the
two-second grace given to open streams is not waited for. A viewer that
subscribes after `closeAll` is listed by a publisher that will never close it, so its stream is not
released by the interrupt; `DroppedViewersLeave` speaks of the viewers that were there before.

One concerns the roads. `graph.go:54` and ADR-0007 have a vehicle leave the service area only when a
customer drives it. Destinations are drawn inside, but the shortest way between two intersections inside
may run outside, where a remotely driven vehicle is then routed. On the checked-in network this is so of
about 1.8 % of the journeys of 2 to 6 km between intersections inside. No property is checked of it: what
the area means for the roads in between is a question for its owners.

## 5. Proofs

`FleetProofs` proves of `FleetStore`, for every set of vehicles and every stream that satisfies
`RecordsAssumption`:

| Theorem | States |
|---|---|
| `TypeCorrect` | `Spec => []TypeOK` |
| `Creation` | `Spec => []OnlyRegistrationsCreate` |
| `LastWriterWins` | `Spec => []HoldsNewest` |
| `Idempotence` | `Spec => RedeliveryChangesNothing` |
| `ForwardOnly` | `Spec => SnapshotsNeverRegress` |
| `FreshnessIsTelemetry` | `Spec => OnlyTelemetryRefreshes` |
| `Refinement` | `Spec => FleetIsEventSourced` |

The inductive invariant is `TypeOK /\ OnlyRegistrationsCreate /\ HoldsNewest`. `HoldsNewest` by itself is
not inductive: that an empty register belongs to a vehicle nothing was accepted for needs
`OnlyRegistrationsCreate`, and comparing sequence numbers needs the types. The preservation proof has
one case per kind of step (an applied record, a rejected one, an unknown vehicle, a discard), since
the six store methods share `Accept`. `Idempotence` follows from it because a record in `accepted` is
never newer than what is held. `ForwardOnly` needs the second half of `RecordsAssumption`: without it
a newer number could carry an older time and a vehicle would appear to have been silent longer.
`Refinement` is `HoldsNewest` read through the mapping of `FleetStore`: the register holds the one
record `Newest` chooses.

`FleetProofs` proves of `FleetView`, for every set of vehicles that is finite, every stream, any zones and any
thresholds: `Reconciles` (`SummaryReconciles`), `RoutesAreReferenced` (`RoutesMatchMarkers`),
`FiguresAgree` (`FiguresMatchFilters`), `CoverageAddsUp` (`FreeAddUp`, the first half of `CoverageReconciles`) and `OnlyReportsEndSilence`
(`SilenceEndsOnlyByReport`). The
invariant is the store's, since time passing does not touch the store. The argument of `Reconciles` is
that a reporting vehicle has one of the three statuses: `HoldsNewest` says its status register holds a
record that was accepted, and `Plausible` what such a record may say. Counting markers instead of
vehicles needs a bijection, which the vehicle id gives. `CoverageAddsUp` is a sum over any number of zones.
`ZoneFor` puts a vehicle in one zone or none (`InAZoneOrNone`), so the available vehicles in the first *n*
zones number the sum of the first *n* figures (`Accumulates`, by induction on *n*), and whatever order a fold
takes the zones in, it comes to that sum (`SumsTo`).

`ClientProofs` proves, for every tick, watchdog interval and number of missed ticks: `FreshWhenCurrent`
(`FrozenMapIsCalledOut`), `NoNoticeIsTrue` (`NoNoticeMeansWholeFleet`) and `TrustLostForAReason`
(`TrustIsLostForAReason`). `FrozenMapIsCalledOut` is not inductive; the invariant adds the time left on the
timer to the age of the snapshot: while the watchdog is content their sum stays within `Patience` and
one interval, because age and timer move together.

`StartupProofs` proves, for every roster and every size of the queue: `TypeCorrect` (`TypeOK`),
`NothingIsLost` (`NothingLostOrReordered`), `ReadyIsAPosition` (`ReadyMeansWholeFleet`) and
`RegistrationsComeFirst` (`ReportsFindTheirVehicle`). None is inductive. The argument is one of
positions in one stream: what was projected followed by what is queued is what was accepted, and then
the barrier while it is on its way (`Flow`); the first `RosterSize` records accepted are the
registrations in roster order (`Roster`); the barrier is posted behind them, so once it is reached they
have been projected (`Progress`). A `select` that stops with records queued, or an interrupt anywhere, cuts
the stream short and changes nothing about the positions.

`PublisherProofs` proves, for any number of viewers, vehicles, routes and publications: `TypeCorrect`
(`TypeOK`: the drain and send of `offer` never overfill a channel of one frame), `ClosedAtMostOnce`
(`NeverClosedTwice`), `ForwardOnly` (`ClientMovesForward`), `SettledViewersAreUpToDate`
(`SettledViewerHasPublishedRoutes`) and `LaggardsOnly` (`OnlyLaggardsAreDropped`). The invariant has a part
for each argument. That a client moves forward needs the generations of what it shows, of the frame in
its handler's hands, of the frame in its slot and of the publication under way to be in that order, with
a gap for the viewers the round has not come to yet (`Snapshots`, `Geometry`). That a settled viewer draws
the published routes needs what it *will* draw last (`LastRoutes`): the frame in its slot, else the one in
hand, else what it drew; a publication owes a frame to the viewers it has not come to, and the one
subscribed in between was given the current frame (`Drawing`). That only laggards are dropped needs the
stalls counted to stay behind the ticks begun behind (`Stalls`); that every laggard is needs the publications a
viewer has let go by since it last took a snapshot to be no more than the stalls counted (`Overdue`), because
the counter goes back to nothing only when the slot was found empty.

`SimulatorProofs` proves, for every fleet, target and cadence: `TargetIsKept` (`AtMostTarget`),
`DropoutsAreMadeUpFor` (`StatusMadeUp`), and, on the assumption `0 \notin Journeys` (a journey is always
found, which `PlansLeadSomewhere` below proves of any network with two intersections inside the area),
`SearchLeavesNobodyOut` (`TargetHeld`) and `PartsAgree` (`JourneyInStep`). The target is kept because a dispatch
goes by a count that equals the journeys under way throughout the loop (`Counted`); nobody is left
out because whoever was looked at stays unfit until the loop ends (`Sought`) and the indices of the loop,
taken modulo the fleet, meet every vehicle from any start (`EveryoneIsSeen`). A status is made up for
because a vehicle whose turn is over has either told of it or is quiet, and no step in between lifts a
dropout or changes a leg (`Made`). But for the clears in `PartsAgree`, these four leave the records on their way
out of account; the other three are about them.
`TypesHold` (`TypeOK`) has the battery never above the largest level there is, and nothing kept past the tick
in which it is due (`Kept`). `ConsumerFollows` (`ConsumerCatchesUp`) rests on `Follows`: of each signal, the last
word the vehicle numbered is held by the consumer or on its way, it is still what the vehicle would say, and
no record on its way has a later number; and a clear names the route of the word before it, which is the part
that `PartsAgree` needs. Handing over, holding back, doubling and overtaking keep that, because the
consumer keeps the larger number. `OneLateReportIsHarmless` (`OneDelayIsHarmless`) is an argument about two turns.
What a vehicle said in a turn is on its way, or the consumer has heard something as new (`Observed`, kept over
the ticks by `Past`). A turn comes once in any `TicksPerReport` ticks (`OneInARow`), so twice within the time after which a
vehicle is stale (`TwoTurns`): if it looks stale although it spoke, both of these reports are held back.

`SearchProofs` proves, on every graph and for every limit: `SearchIsExact` (`ExactWithinLimit`: when the search
ends, every intersection within the limit has been reached, at the length of a shortest walk) and
`SearchLeadsBack` (`ArrivesByShortestWalk`: following the recorded roads back leads to the origin along
those distances). Walks are not spelled out: `Walks` is the least set of (intersection, length) that holds the
origin at 0 and is closed under driving on. That every distance found is a walk is kept step by step; that no
walk is shorter follows at the end, because the lengths no shorter than what was found form a closed
set. The early stop and the entries left behind in the heap are in `RestIsBeyond`, `FrontierIsLate` and
`FrontierIsComplete`. Together with `HeapSearchesNearestFirst`, by which the heap of the code implements
`Search`, this is the exactness of `reachable`.

`RoadgenProofs` is about the pipeline, for every extract, every map with integer coordinates and any tolerance.
It has no specification of its own; its lemmas are what the theorems about `Journeys` are made of.

* Recursive functions are what they say they are: each is shown to exist, from an iteration that comes to an
  end (`Iteration`, `Recursion`, `Branching`), before it is unfolded.
* What `Parse` and `Build` make: a way is a run of known points of one element, listed in the direction it may be
  driven in (`ParseFacts`); a road is a piece of one way from one junction to the next, a junction being a point that
  is passed twice or ends a way (`SegmentsFacts`, `PassedOnce`), with a shape in which the points left out are those that
  could not be seen (`DouglasPeuckerOutlines`).
* The first pass of `strongest`: whichever intersection is left last leads to all that were left since some
  other, and no road leads into these from the ones left before (`Spans`, for each of the order in `Ranged`). While the
  walk is on, the same is said of the intersections on the stack (`Marks`), and `WalkKeeps` carries it from
  step to step.
* The second pass: what `Gather` collects against the roads, root by root from the end of that order, is the
  class of the root, those it can reach and that can reach it (`GatherIsClass`); classes are disjoint, so the
  largest gathered is a largest there is (`LargestIsClass`).
* The renumbering keeps roads between intersections that are kept and loses no road of the class
  (`KeptLeads`), and `GenerateFacts` sums up what the loader is given.

`JourneysProofs` proves, for every extract, map and zones that satisfy `RoadgenAssumption` and `JourneysAssumption`:

| Theorem | States |
|---|---|
| `GeneratedCanBeDriven` | what `validate` lets pass, the loader accepts, and its roads lead from anywhere to everywhere |
| `HeapSearchesNearestFirst` | `Spec => SearchesNearestFirst` |
| `ShownRouteHolds` | `Spec => []ShownRouteIsDriven` |
| `JourneysShortest` | `Spec => []JourneysAreShortest` |
| `StreetsKeptTo` | `Spec => []StaysOnStreets` |
| `IntersectionsConnected` | `Spec => []IntersectionsReachEachOther` |
| `VehiclesSentInside` | `Spec => []OnlyCustomersLeave` |
| `PlansLeadSomewhere` | `Spec => []NobodyIsStranded` |

The invariant `JInv` has three parts. `SearchInv` is the invariant of `SearchProofs` read through the refinement
mapping, with what the mapping forgets: the heap is in order, and it holds an entry once, so that taking the first
entry takes it out of the set. `Ranked` says that every settled intersection was reached from one settled
before it, so following the arrivals back ends (`WayBack`) and `RouteTo`, which recurs along them, is what it
says. `VehicleInv` relates the route shown to what lies ahead: what lies ahead is the end of what is shown, and
the vehicle has just passed the point before it (`Shows`).

* The heap: `push` and `pop` reorder what they are given and leave it in order (`SiftUpOrders`,
  `SiftDownOrders`). An entry on its way up may be out of order with its parent only, one on its way down
  with its children only (`Rising`, `Sinking`). The first entry of a heap is then a nearest one
  (`FirstIsNearest`), which is all `Search` asks of `Settle`.
* The route shown: a revised journey keeps the road under way, with the points still ahead of it, as the first
  piece of both the new path and the new route, and passing a point drops one point of what lies ahead and
  nothing of what is shown.
* Shortest journeys: `Far` knows nothing of the search. It extends, once for every intersection, what may be
  reached by one road more. Whatever it knows is the length of a walk, so no distance found is longer
  (`FarIsDriven`), and it has come along the way back of everything found (`FoundIsFar`), so none is shorter. That the
  points of the route add up to that distance needs the length of a shape to be the sum of its two halves
  wherever it is cut (`AlongBoth`), and the same in both directions (`AlongReverse`): a road is measured one
  way when the network is loaded and driven either way.
* Along the streets: the shape of a road follows the street it was cut from (`RoadOnStreets`), so does a road
  driven either way if it may be (`LinkOnStreets`), and so does a route, by induction on the way back
  (`RouteOnStreets`). `StaysOnStreets` is not inductive: where a vehicle is going may be replaced at any
  moment by a route planned from somewhere else. `StreetInv` adds where the vehicle is (`Whereabouts`) and that whatever
  is being planned starts where the vehicle stands or where the road it is on ends (`PlansFromOrigin`).
* The network against the streets: `IntersectionsReachEachOther` measures the pruning by `Streets`, point by
  point, not by the roads `Build` cut. The ways take up exactly the streets (`RunAround`, `StretchStreets`); a point
  inside a piece between two junctions is passed once (`InsideOnce`), so whoever follows the streets is on a
  piece he entered at a junction, and comes out at the end the road leads to. What roads sweep over is
  therefore closed under streets (`SweptIsClosed`), and streets carry a vehicle along every road
  (`CarriedAlong`). Intersections reach one another by streets exactly if they do by roads
  (`StreetsAndRoads`, `MutualIsClass`), and `strongest` keeps a largest class of the latter.
* Where vehicles are sent: a plan under way has yet to make its widened call or is making it, and all calls of a plan
  other than a customer's ask for what is inside (`PlanWidensLast`). The widened call finds all of
  `Nodes` (`AllFound`), so only the origin itself can be missing from its answer.

Some proved facts have no run of their own: of the store, `OnlyRegistrationsCreate` (a vehicle exists exactly when
one of its registrations was applied) and `OnlyTelemetryRefreshes` (a replayed registration or a late route event
does not freshen a silent vehicle); the exactness of `Search`; `GeneratedCanBeDriven`; and `OnlyCustomersLeave` (a
vehicle driven remotely is on its way to an intersection inside the service area, however often its journey
was revised; where it drives in between is another matter, see section 4).

Induction over the naturals is available as a fact about sets (`Naturally`, in `RoadgenProofs`, `FleetProofs` and
`SimulatorProofs`: a set that holds zero and the successor of each of its naturals holds them all), which the
library's induction theorems, whose hypothesis is an operator, are not to the installed provers.

The constants are assumed to be what the code makes them. `RecordsAssumption` is described above.
`SimulatorAssumption` has the fleet start with finitely many battery levels and a vehicle go stale after no
less than two reports: `contract.StaleAfterMissedReports` is 2. `DeriveAssumption` has the zones in a sequence,
as `contract.Zones` returns them. `RoadgenAssumption` has coordinates integers, as a map of finite precision can
be scaled to have them, and a natural tolerance. `JourneysAssumption` has the extracts sequences of elements, as they
are decoded, distances natural numbers and the same both ways, which those of `metresBetween` are but for being
real, and `NoLink` something no road is. Nothing is assumed of what roadgen makes of an extract: that the loader
accepts it and that its roads lead everywhere, which the search without a limit needs (`AllFound`), is
`GeneratedCanBeDriven`. TLC evaluates all of the assumptions on the runs.

What stays with TLC are the liveness properties, since fairness and `ENABLED` are outside the proof system's
reach: `StartupCompletes`, `InterruptEndsReadyProcess`, `DroppedViewersLeave`, `PublicationReachesReaders` and
`ContactIsRegained`. So does the second half of
`CoverageReconciles`: that two zones divide their common edge between them is a matter of the zones and of the
arithmetic, of which the theorems assume nothing. Every other invariant and action property that a passing run checks is also
a theorem.

## 6. Not modelled, and why

* Rendering, layout and wording; log lines; JSON encoding beyond whether a payload decodes.
* The HTTP server, TCP buffering and the browser's `EventSource`: a frame is written or the client is lost.
* Values of coordinates and times beyond the comparisons made on them.
* `tsgen`, which prints types; of `roadgen`, the download and the formatting of the file.
* Of the road graph, bearings and names, and the interpolation along a road: a vehicle is at a point of a
  shape or between two.
* Floating-point rounding: lengths and areas are exact.
* `web/src/map`: drawing from the store's last value, with no state the properties tell apart.
* A clock of the browser that steps back: `assess` then takes a dead stream for a live one until the
  clock catches up, and the model's age of a snapshot only grows.

## 7. What could come next

* `Startup`, `Publisher` and the store composed. Their interfaces are narrow (the queue's order, one snapshot
  under one lock, one lifecycle flag), and what crosses them is already the subject of
  `ReportsFindTheirVehicle` and of finding 2.
* `Simulator` shown to meet `RecordsAssumption`, the assumption `FleetStore` makes of its stream: a
  history of what was sent, and one number per signal and observation.
* `Contains` against a definition of the interior that does not depend on where a ring starts.
