----------------------------- MODULE Publisher -----------------------------
(***************************************************************************)
(* The read path (backend/api): the publisher goroutine derives one        *)
(* generation of state per tick and offers it to every viewer, and one     *)
(* goroutine per viewer (Stream) writes what it is offered to its client.  *)
(*                                                                         *)
(* A step is what happens between two points where another goroutine can   *)
(* get in: the store's mutex, the publisher's mutex (held from Lock to the *)
(* end of the round of viewers) and each channel operation of a viewer.    *)
(* The store and main appear as the environment: vehicles are registered,  *)
(* routes come and go, main marks the fleet ready.                         *)
(***************************************************************************)
EXTENDS Integers, Sequences, FiniteSets

CONSTANTS Vehicles,         \* the roster
          RouteIds,         \* journeys; an id is assigned once and never again
          Viewers,          \* connections; a reconnecting client is a new one
          Readers,          \* the viewers whose clients read what is written to them
          Nobody,           \* not a viewer: the publisher is between viewers
          MaxStalledTicks,  \* maxStalledTicks
          MaxTicks          \* bound on the publications of a behaviour

ASSUME PublisherAssumption ==
  Readers \subseteq Viewers /\ Nobody \notin Viewers /\ MaxStalledTicks \in Nat /\ MaxTicks \in Nat

VARIABLES fleet,        \* vehicles registered in the store
          enRoute,      \* routes of reporting EN_ROUTE vehicles in the store
          issued,       \* routes assigned so far
          lifecycle,    \* Publisher.lifecycle
          cancelled,    \* the process context is done
          pub,          \* the publisher goroutine: where it is, and its locals
          published,    \* Publisher.routes and routeIDs; generation 0 is nil
          subscribers,  \* Publisher.subscribers
          snapshots,    \* subscriber.snapshots, a channel of capacity 1
          routes,       \* subscriber.routes, a channel of capacity 1
          done,         \* subscriber.done is closed
          stalled,      \* subscriber.stalled
          handler,      \* where the viewer's Stream goroutine is
          hand,         \* the frames it has yet to write
          shown,        \* the last snapshot the client was sent
          drawn,        \* the route frame the client draws from
          given,        \* history: every route the client was ever given
          behind        \* history: consecutive ticks begun with a snapshot still pending

storeVars   == <<fleet, enRoute, issued>>
processVars == <<lifecycle, cancelled>>
slotVars    == <<snapshots, routes>>
handlerVars == <<handler, hand>>
clientVars  == <<shown, drawn, given>>
viewerVars  == <<subscribers, done, stalled, behind>>

vars == <<storeVars, processVars, pub, published, slotVars, handlerVars, clientVars, viewerVars>>

Snapshot(g, l, f, r) == [kind |-> "snapshot", gen |-> g, lifecycle |-> l, fleet |-> f, refs |-> r]
Routes(g, r)         == [kind |-> "routes", gen |-> g, ids |-> r]

Init == /\ fleet = {} /\ enRoute = {} /\ issued = {}
        /\ lifecycle = "STARTING" /\ cancelled = FALSE
        /\ pub = [pc |-> "idle", gen |-> 0, fleet |-> {}, refs |-> {}, lifecycle |-> "STARTING",
                  changed |-> FALSE, todo |-> {}, at |-> Nobody]
        /\ published = Routes(0, {})
        /\ subscribers = {}
        /\ snapshots = [v \in Viewers |-> <<>>]
        /\ routes = [v \in Viewers |-> <<>>]
        /\ done = [v \in Viewers |-> FALSE]
        /\ stalled = [v \in Viewers |-> 0]
        /\ handler = [v \in Viewers |-> "absent"]
        /\ hand = [v \in Viewers |-> <<>>]
        /\ shown = [v \in Viewers |-> Snapshot(0, "STARTING", {}, {})]
        /\ drawn = [v \in Viewers |-> Routes(0, {})]
        /\ given = [v \in Viewers |-> {}]
        /\ behind = [v \in Viewers |-> 0]

\* Mutant: the list of viewers is only touched while the publisher waits for a tick.
BetweenTicks == pub.pc = "idle"

\* Publish holds the publisher's mutex while it goes round the viewers.
Unlocked == pub.pc \notin {"next", "routes", "routesFull", "snapshot", "snapshotFull"}

-----------------------------------------------------------------------------
(* The store and main.                                                     *)

RegisterVehicle(x) ==
  /\ x \notin fleet
  /\ fleet' = fleet \cup {x}
  /\ UNCHANGED <<enRoute, issued, processVars, pub, published, slotVars, handlerVars, clientVars, viewerVars>>

AssignRoute(r) ==
  /\ lifecycle = "READY" /\ r \notin issued
  /\ issued' = issued \cup {r}
  /\ enRoute' = enRoute \cup {r}
  /\ UNCHANGED <<fleet, processVars, pub, published, slotVars, handlerVars, clientVars, viewerVars>>

EndRoute(r) ==
  /\ r \in enRoute
  /\ enRoute' = enRoute \ {r}
  /\ UNCHANGED <<fleet, issued, processVars, pub, published, slotVars, handlerVars, clientVars, viewerVars>>

\* main calls MarkReady once the roster has been projected.
MarkReady ==
  /\ lifecycle = "STARTING" /\ fleet = Vehicles /\ Unlocked
  /\ lifecycle' = "READY"
  /\ UNCHANGED <<cancelled, storeVars, pub, published, slotVars, handlerVars, clientVars, viewerVars>>

Interrupt ==
  /\ ~cancelled
  /\ cancelled' = TRUE
  /\ UNCHANGED <<lifecycle, storeVars, pub, published, slotVars, handlerVars, clientVars, viewerVars>>

-----------------------------------------------------------------------------
(* Publisher.Publish.                                                      *)

\* vehicles := p.store.Snapshot()
ReadStore ==
  /\ pub.pc = "idle" /\ pub.gen < MaxTicks
  /\ pub' = [pub EXCEPT !.pc = "read", !.gen = @ + 1, !.fleet = fleet, !.refs = enRoute]
  /\ behind' = [v \in Viewers |-> IF v \notin subscribers THEN behind[v]
                                  ELSE IF snapshots[v] = <<>> THEN 0 ELSE behind[v] + 1]
  /\ UNCHANGED <<storeVars, processVars, published, slotVars, handlerVars, clientVars,
                 subscribers, done, stalled>>

\* lifecycle := p.lifecycle, under the lock but after the store was read.
ReadLifecycle ==
  /\ pub.pc = "read"
  /\ pub' = [pub EXCEPT !.pc = "derived", !.lifecycle = lifecycle]
  /\ UNCHANGED <<storeVars, processVars, published, slotVars, handlerVars, clientVars, viewerVars>>

\* routesIfChanged.
RoutesIfChanged ==
  /\ pub.pc = "derived"
  /\ LET changed == pub.refs # published.ids
     IN  /\ pub' = [pub EXCEPT !.pc = "rendered", !.changed = changed]
         /\ published' = IF changed THEN Routes(pub.gen, pub.refs) ELSE published
  /\ UNCHANGED <<storeVars, processVars, slotVars, handlerVars, clientVars, viewerVars>>

Lock ==
  /\ pub.pc = "rendered"
  /\ pub' = [pub EXCEPT !.pc = "next", !.todo = subscribers]
  /\ UNCHANGED <<storeVars, processVars, published, slotVars, handlerVars, clientVars, viewerVars>>

\* for viewer := range p.subscribers
NextViewer(v) ==
  /\ pub.pc = "next" /\ v \in pub.todo
  /\ pub' = [pub EXCEPT !.pc = IF pub.changed THEN "routes" ELSE "snapshot",
                        !.at = v, !.todo = @ \ {v}]
  /\ UNCHANGED <<storeVars, processVars, published, slotVars, handlerVars, clientVars, viewerVars>>

EndRound ==
  /\ pub.pc = "next" /\ pub.todo = {}
  /\ pub' = [pub EXCEPT !.pc = "idle", !.at = Nobody]
  /\ UNCHANGED <<storeVars, processVars, published, slotVars, handlerVars, clientVars, viewerVars>>

\* Mutant: the channels are made with room for two frames.
RoomForTwo(slot) == Len(slot) < 2

\* The channels are made with room for one frame.
Room(slot) == Len(slot) < 1

\* Mutant: what is pending is not drained first.
Undrained(slot) == slot

\* offer drains the slot before it sends again.
Drained(slot) == <<>>

\* viewer.offer(viewer.routes, routes): try, and find the slot free or taken...
OfferRoutes(v) ==
  /\ pub.pc = "routes" /\ v = pub.at
  /\ IF Room(routes[v])
       THEN /\ routes' = [routes EXCEPT ![v] = Append(@, Routes(pub.gen, pub.refs))]
            /\ pub' = [pub EXCEPT !.pc = "snapshot"]
       ELSE pub' = [pub EXCEPT !.pc = "routesFull"] /\ UNCHANGED routes
  /\ UNCHANGED <<storeVars, processVars, published, snapshots, handlerVars, clientVars, viewerVars>>

\* ...and replace what is pending, if the viewer has not taken it meanwhile.
ReplaceRoutes(v) ==
  /\ pub.pc = "routesFull" /\ v = pub.at
  /\ Room(Drained(routes[v]))
  /\ routes' = [routes EXCEPT ![v] = Append(Drained(@), Routes(pub.gen, pub.refs))]
  /\ pub' = [pub EXCEPT !.pc = "snapshot"]
  /\ UNCHANGED <<storeVars, processVars, published, snapshots, handlerVars, clientVars, viewerVars>>

Frame == Snapshot(pub.gen, pub.lifecycle, pub.fleet, pub.refs)

\* Mutant: one tick taken in time does not make up for those missed.
NeverForgiven(n) == n

\* viewer.stalled = 0
Forgiven(n) == 0

\* viewer.offer(viewer.snapshots, snapshot).
OfferSnapshot(v) ==
  /\ pub.pc = "snapshot" /\ v = pub.at
  /\ IF Room(snapshots[v])
       THEN /\ snapshots' = [snapshots EXCEPT ![v] = Append(@, Frame)]
            /\ stalled' = [stalled EXCEPT ![v] = Forgiven(@)]
            /\ pub' = [pub EXCEPT !.pc = "next"]
       ELSE pub' = [pub EXCEPT !.pc = "snapshotFull"] /\ UNCHANGED <<snapshots, stalled>>
  /\ UNCHANGED <<storeVars, processVars, published, routes, handlerVars, clientVars,
                 subscribers, done, behind>>

\* Mutant: a disconnected viewer stays on the list.
DisconnectedOnly(S) == done' = [v \in Viewers |-> done[v] \/ v \in S] /\ UNCHANGED subscribers

\* disconnect, for each viewer of S.
Disconnect(S) ==
  /\ done' = [v \in Viewers |-> done[v] \/ v \in S]
  /\ subscribers' = subscribers \ S

\* The viewer had not taken the previous snapshot: replace it, count, and drop
\* the viewer when it has missed too many.
ReplaceSnapshot(v) ==
  /\ pub.pc = "snapshotFull" /\ v = pub.at
  /\ Room(Drained(snapshots[v]))
  /\ snapshots' = [snapshots EXCEPT ![v] = Append(Drained(@), Frame)]
  /\ stalled' = [stalled EXCEPT ![v] = @ + 1]
  /\ Disconnect(IF stalled[v] + 1 > MaxStalledTicks THEN {v} ELSE {})
  /\ pub' = [pub EXCEPT !.pc = "next"]
  /\ UNCHANGED <<storeVars, processVars, published, routes, handlerVars, clientVars, behind>>

\* Run ends between two publications and closes every viewer.
Stop ==
  /\ pub.pc = "idle" /\ cancelled
  /\ pub' = [pub EXCEPT !.pc = "stopped"]
  /\ Disconnect(subscribers)
  /\ UNCHANGED <<storeVars, processVars, published, slotVars, handlerVars, clientVars, stalled, behind>>

-----------------------------------------------------------------------------
(* Publisher.Stream.                                                       *)

\* subscribe: the viewer is listed and owed the current routes, in one critical
\* section.  main serves only after MarkReady.
Subscribe(v) ==
  /\ handler[v] = "absent" /\ lifecycle = "READY" /\ Unlocked
  /\ subscribers' = subscribers \cup {v}
  /\ handler' = [handler EXCEPT ![v] = "writing"]
  /\ hand' = [hand EXCEPT ![v] = IF published.gen = 0 THEN <<>> ELSE <<published>>]
  /\ UNCHANGED <<storeVars, processVars, pub, published, slotVars, clientVars, done, stalled, behind>>

\* One successful Write.
WriteFrame(v) ==
  /\ handler[v] = "writing" /\ hand[v] # <<>>
  /\ LET f == Head(hand[v])
     IN  IF f.kind = "routes"
           THEN /\ drawn' = [drawn EXCEPT ![v] = f]
                /\ given' = [given EXCEPT ![v] = @ \cup f.ids]
                /\ UNCHANGED shown
           ELSE /\ shown' = [shown EXCEPT ![v] = f]
                /\ UNCHANGED <<drawn, given>>
  /\ hand' = [hand EXCEPT ![v] = Tail(@)]
  /\ UNCHANGED <<storeVars, processVars, pub, published, slotVars, handler, viewerVars>>

Flushed(v) ==
  /\ handler[v] = "writing" /\ hand[v] = <<>>
  /\ handler' = [handler EXCEPT ![v] = "select"]
  /\ UNCHANGED <<storeVars, processVars, pub, published, slotVars, hand, clientVars, viewerVars>>

\* The client went away: a write fails or its request context ends.
LoseClient(v) ==
  /\ handler[v] \in {"writing", "select"}
  /\ handler' = [handler EXCEPT ![v] = "leaving"]
  /\ hand' = [hand EXCEPT ![v] = <<>>]
  /\ UNCHANGED <<storeVars, processVars, pub, published, slotVars, clientVars, viewerVars>>

\* case <-viewer.done
TakeDone(v) ==
  /\ handler[v] = "select" /\ done[v]
  /\ handler' = [handler EXCEPT ![v] = "leaving"]
  /\ UNCHANGED <<storeVars, processVars, pub, published, slotVars, hand, clientVars, viewerVars>>

\* Mutant: the frame that was read stays pending.
StillPending(slot) == slot

\* A receive empties the channel.
Received(slot) == Tail(slot)

\* case rendered := <-viewer.routes
TakeRoutes(v) ==
  /\ handler[v] = "select" /\ routes[v] # <<>>
  /\ hand' = [hand EXCEPT ![v] = <<Head(routes[v])>>]
  /\ routes' = [routes EXCEPT ![v] = Received(@)]
  /\ handler' = [handler EXCEPT ![v] = "writing"]
  /\ UNCHANGED <<storeVars, processVars, pub, published, snapshots, clientVars, viewerVars>>

\* case rendered := <-viewer.snapshots
TakeSnapshot(v) ==
  /\ handler[v] = "select" /\ snapshots[v] # <<>>
  /\ hand' = [hand EXCEPT ![v] = <<Head(snapshots[v])>>]
  /\ snapshots' = [snapshots EXCEPT ![v] = Received(@)]
  /\ handler' = [handler EXCEPT ![v] = "draining"]
  /\ UNCHANGED <<storeVars, processVars, pub, published, routes, clientVars, viewerVars>>

\* Mutant: pending geometry is taken and dropped in favour of the snapshot.
GeometryDropped(geometry, rendered) == rendered

\* Geometry goes first when both are pending.
GeometryFirst(geometry, rendered) == geometry \o rendered

DrainRoutes(v) ==
  /\ handler[v] = "draining"
  /\ hand' = [hand EXCEPT ![v] = GeometryFirst(routes[v], @)]
  /\ routes' = [routes EXCEPT ![v] = <<>>]
  /\ handler' = [handler EXCEPT ![v] = "writing"]
  /\ UNCHANGED <<storeVars, processVars, pub, published, snapshots, clientVars, viewerVars>>

\* defer p.unsubscribe(viewer)
Unsubscribe(v) ==
  /\ handler[v] = "leaving" /\ Unlocked
  /\ subscribers' = subscribers \ {v}
  /\ handler' = [handler EXCEPT ![v] = "gone"]
  /\ UNCHANGED <<storeVars, processVars, pub, published, slotVars, hand, clientVars, done, stalled, behind>>

-----------------------------------------------------------------------------
Environment == \/ \E x \in Vehicles : RegisterVehicle(x)
               \/ \E r \in RouteIds : AssignRoute(r) \/ EndRoute(r)
               \/ MarkReady \/ Interrupt

\* One publication once it has begun.
Publish == \/ ReadLifecycle \/ RoutesIfChanged \/ Lock \/ EndRound
           \/ \E v \in Viewers : \/ NextViewer(v)
                                 \/ OfferRoutes(v)   \/ ReplaceRoutes(v)
                                 \/ OfferSnapshot(v) \/ ReplaceSnapshot(v)

\* The steps of a handler that wait for no client.
Stream(v) == \/ Flushed(v)
             \/ TakeDone(v) \/ TakeRoutes(v) \/ TakeSnapshot(v) \/ DrainRoutes(v)
             \/ Unsubscribe(v)

Next == \/ Environment
        \/ ReadStore \/ Publish \/ Stop
        \/ \E v \in Viewers : Subscribe(v) \/ Stream(v) \/ WriteFrame(v) \/ LoseClient(v)

Spec == Init /\ [][Next]_vars

\* The publisher and the handlers run whenever they can; the mutex is released
\* every tick and Go's does not starve a waiter.  A write has no deadline, so it
\* ends only if the client reads.
FairSpec ==
  /\ Spec
  /\ WF_vars(ReadStore \/ Publish) /\ WF_vars(Stop)
  /\ \A v \in Viewers : WF_vars(Stream(v)) /\ SF_vars(Unsubscribe(v))
  /\ \A v \in Readers : WF_vars(WriteFrame(v))

-----------------------------------------------------------------------------
(* Properties.                                                             *)

SnapshotFrames == [kind : {"snapshot"}, gen : 0..MaxTicks, lifecycle : {"STARTING", "READY"},
                   fleet : SUBSET Vehicles, refs : SUBSET RouteIds]
RouteFrames    == [kind : {"routes"}, gen : 0..MaxTicks, ids : SUBSET RouteIds]

\* Every variable has its type; the two channels of a viewer hold one frame each.
TypeOK ==
  /\ fleet \subseteq Vehicles /\ enRoute \subseteq issued /\ issued \subseteq RouteIds
  /\ lifecycle \in {"STARTING", "READY"} /\ cancelled \in BOOLEAN
  /\ pub.gen \in 0..MaxTicks /\ pub.todo \subseteq Viewers /\ pub.at \in Viewers \cup {Nobody}
  /\ published \in RouteFrames
  /\ subscribers \subseteq Viewers
  /\ \A v \in Viewers :
       /\ Len(snapshots[v]) <= 1 /\ \A i \in DOMAIN snapshots[v] : snapshots[v][i] \in SnapshotFrames
       /\ Len(routes[v]) <= 1 /\ \A i \in DOMAIN routes[v] : routes[v][i] \in RouteFrames
       /\ handler[v] \in {"absent", "writing", "select", "draining", "leaving", "gone"}
       /\ shown[v] \in SnapshotFrames /\ drawn[v] \in RouteFrames
       /\ done[v] \in BOOLEAN /\ stalled[v] \in 0..(MaxStalledTicks + 1) /\ behind[v] \in 0..MaxTicks
       /\ given[v] \subseteq RouteIds

\* A client is never taken back in time: each snapshot it is sent is of a later
\* generation than the one before, and no route frame is of an earlier one.
ClientMovesForward ==
  [][\A v \in Viewers : WriteFrame(v) =>
       LET f == Head(hand[v])
       IN  IF f.kind = "snapshot" THEN f.gen > shown[v].gen ELSE f.gen >= drawn[v].gen]_vars

\* The publisher has rendered a new route set but not yet offered it to v.
OwedRoutes(v) ==
  /\ pub.changed
  /\ \/ pub.pc = "rendered"
     \/ pub.pc = "next" /\ v \in pub.todo
     \/ pub.pc \in {"routes", "routesFull"} /\ v \in pub.todo \cup {pub.at}
     \/ pub.pc \in {"snapshot", "snapshotFull"} /\ v \in pub.todo

\* A viewer with nothing pending, nothing in hand and nothing owed draws exactly
\* the routes last published, although route frames are sent only on change,
\* replaced when pending, and joined halfway.
SettledViewerHasPublishedRoutes ==
  \A v \in subscribers :
    handler[v] = "select" /\ routes[v] = <<>> /\ ~OwedRoutes(v) =>
      drawn[v].ids = published.ids

\* The last snapshot a viewer's handler has taken: in its hand, or written.
HoldsSnapshot(v) == hand[v] # <<>> /\ hand[v][Len(hand[v])].kind = "snapshot"

Taken(v) == IF HoldsSnapshot(v) THEN hand[v][Len(hand[v])] ELSE shown[v]

\* How many publications v has let pass: since it last took a snapshot, or since it
\* was first offered one.
LetPass(v) == IF Taken(v).gen > 0 THEN pub.gen - Taken(v).gen - 1 ELSE behind[v]

\* Keeping up is enough: a viewer whose slot was empty when a publication began
\* has no stall on its account when it ends, and only one that was behind at more
\* than MaxStalledTicks ticks running is ever dropped before shutdown.  And it is
\* needed: one that takes nothing, its handler stuck in a write, say, is off the
\* list before it has let more publications than that pass.
OnlyLaggardsAreDropped ==
  \A v \in Viewers :
    /\ v \in subscribers /\ pub.pc = "idle" => stalled[v] <= behind[v]
    /\ done[v] /\ pub.pc # "stopped" => behind[v] > MaxStalledTicks
    /\ v \in subscribers /\ pub.pc = "idle" /\ handler[v] # "leaving" =>
         LetPass(v) <= MaxStalledTicks

\* A viewer's done channel is closed at most once: whoever could close it again
\* would find the viewer in subscribers (closing twice panics).
NeverClosedTwice == \A v \in subscribers : ~done[v]

\* A viewer that has been dropped for lagging leaves, and so does every viewer that
\* is there when the process is interrupted, before closeAll has been round, unless
\* its handler is stuck in a write nobody reads.
DroppedViewersLeave ==
  \A v \in Readers :
    (done[v] \/ (cancelled /\ v \in subscribers /\ pub.pc # "stopped")) ~> (handler[v] = "gone")

\* A publication begun while a reading client is subscribed reaches that client,
\* or a later one does, however slow the other viewers are.
PublicationReachesReaders ==
  \A v \in Readers, g \in 1..MaxTicks :
    (v \in subscribers /\ pub.pc = "read" /\ pub.gen = g) ~>
      (shown[v].gen >= g \/ handler[v] \in {"leaving", "gone"})

\* "so the fleet on screen is the whole fleet" (MarkReady, publisher.go): a
\* snapshot that says READY shows every vehicle of the roster.
ReadySnapshotIsWholeFleet ==
  \A v \in Viewers : shown[v].lifecycle = "READY" => shown[v].fleet = Vehicles

\* "a snapshot never references a route the viewer has not been given" (stream.go).
ReferencedRoutesWereGiven == \A v \in Viewers : shown[v].refs \subseteq given[v]

=============================================================================
