-------------------------- MODULE PublisherProofs --------------------------
(***************************************************************************)
(* What the publisher guarantees to every viewer, for any number of        *)
(* viewers, vehicles, routes and publications.                             *)
(*                                                                         *)
(* The inductive invariant has one part per argument: what each variable   *)
(* holds (Types), which viewers the publisher may be going round (Rounds), *)
(* that a closed viewer is off the list (ClosedOnce), how the generations  *)
(* of a viewer's frames are ordered (Snapshots, Rendered, Geometry), which *)
(* routes a viewer will draw last (Drawing), what its stalls are counted   *)
(* against (Stalls), and what it has let pass (Overdue).                   *)
(***************************************************************************)
EXTENDS Publisher, SequenceTheorems, TLAPS

Lifecycles == {"STARTING", "READY"}
Handlers   == {"absent", "writing", "select", "draining", "leaving", "gone"}

\* Where the publisher is: with a publication under way, and in its round.
Rendering == {"read", "derived", "rendered"}
AtViewer  == {"routes", "routesFull", "snapshot", "snapshotFull"}
Round     == {"next"} \cup AtViewer

Pubs == [pc : {"idle", "stopped"} \cup Rendering \cup Round,
         gen : Nat, fleet : SUBSET Vehicles, refs : SUBSET RouteIds,
         lifecycle : Lifecycles, changed : BOOLEAN,
         todo : SUBSET Viewers, at : Viewers \cup {Nobody}]

Slot(s, frames) == s = <<>> \/ \E f \in frames : s = <<f>>

\* At most a route frame and then a snapshot.
HandOf(h) ==
  \/ Slot(h, RouteFrames)
  \/ Slot(h, SnapshotFrames)
  \/ \E r \in RouteFrames, s \in SnapshotFrames : h = <<r, s>>

Types ==
  /\ fleet \subseteq Vehicles /\ enRoute \subseteq issued /\ issued \subseteq RouteIds
  /\ lifecycle \in Lifecycles /\ cancelled \in BOOLEAN
  /\ pub \in Pubs /\ pub.gen \in 0..MaxTicks
  /\ published \in RouteFrames
  /\ subscribers \subseteq Viewers
  /\ snapshots = [v \in Viewers |-> snapshots[v]]
  /\ routes = [v \in Viewers |-> routes[v]]
  /\ hand = [v \in Viewers |-> hand[v]]
  /\ done \in [Viewers -> BOOLEAN]
  /\ stalled \in [Viewers -> Nat]
  /\ handler \in [Viewers -> Handlers]
  /\ shown \in [Viewers -> SnapshotFrames]
  /\ drawn \in [Viewers -> RouteFrames]
  /\ given \in [Viewers -> SUBSET RouteIds]
  /\ behind \in [Viewers -> Nat]
  /\ \A v \in Viewers :
       /\ Slot(snapshots[v], SnapshotFrames)
       /\ Slot(routes[v], RouteFrames)
       /\ HandOf(hand[v])
       /\ handler[v] \in {"absent", "select"} => hand[v] = <<>>
       /\ handler[v] = "draining" => \E s \in SnapshotFrames : hand[v] = <<s>>

\* The publisher goes round viewers that are listed, and nobody lists or
\* strikes one off meanwhile; a viewer that was never listed has nothing.
Rounds ==
  /\ pub.pc \in Round => pub.todo \subseteq subscribers
  /\ pub.pc \in AtViewer => pub.at \in subscribers \ pub.todo
  /\ \A v \in Viewers :
       handler[v] = "absent" =>
         /\ v \notin subscribers
         /\ stalled[v] = 0 /\ behind[v] = 0
         /\ snapshots[v] = <<>> /\ routes[v] = <<>>
         /\ shown[v].gen = 0 /\ drawn[v].gen = 0 /\ drawn[v].ids = {}

\* A viewer that is closed is not listed, and one not yet listed is not closed.
Closed == {v \in Viewers : done[v]}

ClosedOnce == \A v \in Closed : v \notin subscribers /\ handler[v] # "absent"

\* The publication under way has still to offer v its snapshot.
Awaits(v) ==
  \/ pub.pc \in Rendering
  \/ pub.pc \in Round /\ v \in pub.todo
  \/ pub.pc \in AtViewer /\ v = pub.at

\* The latest route frame taken from v's slot, and the latest offered.
Drawable(v) ==
  IF hand[v] # <<>> /\ hand[v][1].kind = "routes" THEN hand[v][1] ELSE drawn[v]

LastRoutes(v) == IF routes[v] # <<>> THEN routes[v][1] ELSE Drawable(v)

\* The latest generation v can have been offered.
Offered(v) == IF Awaits(v) THEN pub.gen - 1 ELSE pub.gen

InOrder(v) ==
  /\ HoldsSnapshot(v) => shown[v].gen < Taken(v).gen
  /\ Taken(v).gen <= Offered(v)
  /\ snapshots[v] # <<>> =>
       Taken(v).gen < snapshots[v][1].gen /\ snapshots[v][1].gen <= Offered(v)

Snapshots == \A v \in Viewers : InOrder(v)

\* Once rendered, the routes of the publication under way are those published.
Rendered ==
  /\ pub.pc \in Rendering => pub.gen > 0
  /\ published.gen <= pub.gen
  /\ published.gen = 0 => published.ids = {}
  /\ pub.pc \in {"routes", "routesFull"} => pub.changed
  /\ pub.changed /\ pub.pc \in {"rendered"} \cup Round =>
       published = Routes(pub.gen, pub.refs)

DrawnInOrder(v) ==
  /\ drawn[v].gen <= Drawable(v).gen
  /\ Drawable(v).gen <= LastRoutes(v).gen
  /\ LastRoutes(v).gen <= published.gen

Geometry == \A v \in Viewers : DrawnInOrder(v)

\* What v will end up drawing is what is published, unless it is owed more.
UpToDate(v) ==
  handler[v] \in {"writing", "select", "draining"} /\ ~OwedRoutes(v) =>
    LastRoutes(v).ids = published.ids

Drawing == \A v \in subscribers : UpToDate(v)

\* A stall of v is a tick it began behind, and the tick under way may add one.
Counted(v) ==
  /\ stalled[v] <= MaxStalledTicks
  /\ ~Awaits(v) => stalled[v] <= behind[v]
  /\ Awaits(v) /\ snapshots[v] # <<>> => stalled[v] < behind[v]
  /\ pub.pc = "snapshotFull" /\ v = pub.at => stalled[v] < behind[v]

Bounded == \A v \in Viewers : behind[v] <= pub.gen /\ stalled[v] <= MaxStalledTicks + 1

Dropped == pub.pc # "stopped" => \A v \in Closed : behind[v] > MaxStalledTicks

Stalls == Bounded /\ Dropped /\ \A v \in subscribers : Counted(v)

\* What v has let pass is on its account, but for the one that filled its slot.
Reckoned(v) ==
  /\ snapshots[v] # <<>> => snapshots[v][1].gen = Offered(v)
  /\ Taken(v).gen > 0 =>
       IF snapshots[v] = <<>> THEN Taken(v).gen = Offered(v)
                              ELSE Offered(v) - Taken(v).gen <= stalled[v] + 1
  /\ Taken(v).gen = 0 =>
       IF snapshots[v] = <<>> THEN behind[v] = 0
                              ELSE behind[v] <= stalled[v] + IF Awaits(v) THEN 1 ELSE 0

\* A viewer on its way out may have dropped what it had in hand.
Overdue == \A v \in subscribers : handler[v] # "leaving" => Reckoned(v)

---------------------------------------------------------------------------
(* Frames in sequences of at most two. *)

LEMMA One ==
  ASSUME NEW x
  PROVE  /\ <<x>> # <<>> /\ Len(<<x>>) = 1 /\ <<x>>[1] = x
         /\ Head(<<x>>) = x /\ Tail(<<x>>) = <<>>
         /\ Append(<<>>, x) = <<x>> /\ Len(<<>>) = 0
         /\ <<>> \o <<x>> = <<x>>
OBVIOUS

LEMMA AtMostOne ==
  ASSUME NEW frames, NEW s, s = <<>> \/ \E f \in frames : s = <<f>>
  PROVE  Len(s) <= 1 /\ \A i \in DOMAIN s : s[i] \in frames
<1>1. CASE s = <<>>
  BY <1>1
<1>2. ASSUME NEW f \in frames, s = <<f>>
      PROVE  Len(s) <= 1 /\ \A i \in DOMAIN s : s[i] \in frames
  BY <1>2
<1>3. QED
  BY <1>1, <1>2

LEMMA Two ==
  ASSUME NEW x, NEW y
  PROVE  /\ <<x, y>> # <<>> /\ Len(<<x, y>>) = 2
         /\ <<x, y>>[1] = x /\ <<x, y>>[2] = y
         /\ Head(<<x, y>>) = x /\ Tail(<<x, y>>) = <<y>>
         /\ <<x>> \o <<y>> = <<x, y>>
<1>1. /\ <<x, y>> # <<>> /\ Len(<<x, y>>) = 2
      /\ <<x, y>>[1] = x /\ <<x, y>>[2] = y
      /\ Head(<<x, y>>) = x /\ Tail(<<x, y>>) = <<y>>
  OBVIOUS
<1>2. <<x>> \in Seq({x, y}) /\ <<y>> \in Seq({x, y}) /\ <<x, y>> \in Seq({x, y})
  OBVIOUS
<1>3. <<x>> \o <<y>> \in Seq({x, y}) /\ Len(<<x>> \o <<y>>) = 2
  BY <1>2
<1>4. (<<x>> \o <<y>>)[1] = x /\ (<<x>> \o <<y>>)[2] = y
  BY <1>2, ConcatProperties
<1>5. \A i \in 1..Len(<<x>> \o <<y>>) : (<<x>> \o <<y>>)[i] = <<x, y>>[i]
  BY <1>1, <1>3, <1>4
<1>6. QED
  BY <1>1, <1>2, <1>3, <1>5, SeqEqual

---------------------------------------------------------------------------
LEMMA TypesInit == Init => Types
<1> SUFFICES ASSUME Init PROVE Types
  OBVIOUS
<1> USE PublisherAssumption
<1>1. pub \in Pubs /\ pub.gen \in 0..MaxTicks
  BY DEF Init, Pubs, Lifecycles
<1>2. published \in RouteFrames /\ drawn \in [Viewers -> RouteFrames]
  BY DEF Init, Routes, RouteFrames
<1>3. shown \in [Viewers -> SnapshotFrames]
  BY DEF Init, Snapshot, SnapshotFrames
<1>4. \A v \in Viewers :
        /\ Slot(snapshots[v], SnapshotFrames) /\ Slot(routes[v], RouteFrames) /\ HandOf(hand[v])
        /\ handler[v] = "absent" /\ hand[v] = <<>>
  BY DEF Init, Slot, HandOf
<1>5. QED
  BY <1>1, <1>2, <1>3, <1>4 DEF Init, Types, Handlers, Lifecycles

\* What the publisher offers are frames.
LEMMA FramesTyped ==
  ASSUME Types
  PROVE  Routes(pub.gen, pub.refs) \in RouteFrames /\ Frame \in SnapshotFrames
<1>1. /\ pub.gen \in 0..MaxTicks /\ pub.refs \in SUBSET RouteIds
      /\ pub.fleet \in SUBSET Vehicles /\ pub.lifecycle \in Lifecycles
  BY DEF Types, Pubs
<1>2. Routes(pub.gen, pub.refs) \in RouteFrames
  BY <1>1 DEF Routes, RouteFrames
<1>3. Frame \in SnapshotFrames
  BY <1>1 DEF Frame, Snapshot, SnapshotFrames, Lifecycles
<1>4. QED
  BY <1>2, <1>3

LEMMA TypesStep == Types /\ [Next]_vars => Types'
<1> SUFFICES ASSUME Types, [Next]_vars PROVE Types'
  OBVIOUS
<1> USE PublisherAssumption
<1>1. ASSUME NEW x \in Vehicles, RegisterVehicle(x) PROVE Types'
  BY <1>1 DEF Types, RegisterVehicle, processVars, slotVars, handlerVars, clientVars, viewerVars
<1>2. ASSUME NEW r \in RouteIds, AssignRoute(r) PROVE Types'
  BY <1>2 DEF Types, AssignRoute, processVars, slotVars, handlerVars, clientVars, viewerVars
<1>3. ASSUME NEW r \in RouteIds, EndRoute(r) PROVE Types'
  BY <1>3 DEF Types, EndRoute, processVars, slotVars, handlerVars, clientVars, viewerVars
<1>4. ASSUME MarkReady PROVE Types'
  BY <1>4 DEF Types, MarkReady, Lifecycles, storeVars, slotVars, handlerVars, clientVars, viewerVars
<1>5. ASSUME Interrupt PROVE Types'
  BY <1>5 DEF Types, Interrupt, storeVars, slotVars, handlerVars, clientVars, viewerVars
<1>6. ASSUME ReadStore PROVE Types'
  <2>1. pub' \in Pubs /\ pub'.gen \in 0..MaxTicks
    <3>1. pub.gen + 1 \in 0..MaxTicks /\ pub.gen + 1 \in Nat
      BY <1>6 DEF Types, ReadStore
    <3>2. fleet \in SUBSET Vehicles /\ enRoute \in SUBSET RouteIds
      BY DEF Types
    <3>3. pub' = [pub EXCEPT !.pc = "read", !.gen = pub.gen + 1, !.fleet = fleet, !.refs = enRoute]
      BY <1>6 DEF ReadStore, Types, Pubs
    <3>4. QED
      BY <3>1, <3>2, <3>3 DEF Types, Pubs, Rendering
  <2>2. behind' \in [Viewers -> Nat]
    BY <1>6 DEF Types, ReadStore
  <2>3. QED
    BY <1>6, <2>1, <2>2 DEF Types, ReadStore, storeVars, processVars, slotVars, handlerVars, clientVars
<1>7. ASSUME ReadLifecycle PROVE Types'
  BY <1>7 DEF Types, ReadLifecycle, Pubs, Rendering, storeVars, processVars, slotVars, handlerVars, clientVars, viewerVars
<1>8. ASSUME RoutesIfChanged PROVE Types'
  BY <1>8 DEF Types, RoutesIfChanged, Pubs, Rendering, Routes, RouteFrames, storeVars, processVars, slotVars, handlerVars, clientVars, viewerVars
<1>9. ASSUME Lock PROVE Types'
  BY <1>9 DEF Types, Lock, Pubs, Round, storeVars, processVars, slotVars, handlerVars, clientVars, viewerVars
<1>10. ASSUME EndRound PROVE Types'
  BY <1>10 DEF Types, EndRound, Pubs, storeVars, processVars, slotVars, handlerVars, clientVars, viewerVars
<1>11. ASSUME NEW v \in Viewers, NextViewer(v) PROVE Types'
  BY <1>11 DEF Types, NextViewer, Pubs, Round, AtViewer, storeVars, processVars, slotVars, handlerVars, clientVars, viewerVars
<1>12. ASSUME NEW v \in Viewers, OfferRoutes(v) PROVE Types'
  <2>1. pub' \in Pubs /\ pub'.gen = pub.gen
    <3>1. pub' = [pub EXCEPT !.pc = "snapshot"] \/ pub' = [pub EXCEPT !.pc = "routesFull"]
      BY <1>12 DEF OfferRoutes
    <3>2. QED
      BY <3>1 DEF Types, Pubs, Round, AtViewer
  <2>2. Routes(pub.gen, pub.refs) \in RouteFrames
    BY FramesTyped
  <2>3. routes' = routes \/ (routes[v] = <<>> /\ routes' = [routes EXCEPT ![v] = <<Routes(pub.gen, pub.refs)>>])
    BY <1>12, One DEF Types, OfferRoutes, Room, Slot
  <2>4. routes' = [w \in Viewers |-> routes'[w]]
    BY <2>3 DEF Types
  <2>5. \A w \in Viewers : Slot(routes'[w], RouteFrames)
    BY <2>2, <2>3 DEF Types, Slot
  <2>6. QED
    BY <1>12, <2>1, <2>4, <2>5 DEF Types, OfferRoutes, storeVars, processVars, handlerVars, clientVars, viewerVars
<1>13. ASSUME NEW v \in Viewers, ReplaceRoutes(v) PROVE Types'
  <2>1. pub' \in Pubs /\ pub'.gen = pub.gen
    BY <1>13 DEF Types, ReplaceRoutes, Pubs, Round, AtViewer
  <2>2. routes' = [routes EXCEPT ![v] = <<Routes(pub.gen, pub.refs)>>]
    BY <1>13, One DEF Types, ReplaceRoutes, Drained
  <2>3. routes' = [w \in Viewers |-> routes'[w]]
    BY <2>2 DEF Types
  <2>4. \A w \in Viewers : Slot(routes'[w], RouteFrames)
    BY <2>2, FramesTyped DEF Types, Slot
  <2>5. QED
    BY <1>13, <2>1, <2>3, <2>4 DEF Types, ReplaceRoutes, storeVars, processVars, handlerVars, clientVars, viewerVars
<1>14. ASSUME NEW v \in Viewers, OfferSnapshot(v) PROVE Types'
  <2>1. pub' \in Pubs /\ pub'.gen = pub.gen
    <3>1. pub' = [pub EXCEPT !.pc = "next"] \/ pub' = [pub EXCEPT !.pc = "snapshotFull"]
      BY <1>14 DEF OfferSnapshot
    <3>2. QED
      BY <3>1 DEF Types, Pubs, Round, AtViewer
  <2>2. snapshots' = snapshots \/ snapshots' = [snapshots EXCEPT ![v] = <<Frame>>]
    BY <1>14, One DEF Types, OfferSnapshot, Room, Slot
  <2>3. snapshots' = [w \in Viewers |-> snapshots'[w]]
    BY <2>2 DEF Types
  <2>4. \A w \in Viewers : Slot(snapshots'[w], SnapshotFrames)
    BY <2>2, FramesTyped DEF Types, Slot
  <2>5. stalled' \in [Viewers -> Nat]
    <3>1. stalled' = stalled \/ stalled' = [stalled EXCEPT ![v] = 0]
      BY <1>14 DEF OfferSnapshot, Forgiven
    <3>2. stalled \in [Viewers -> Nat] /\ 0 \in Nat
      BY DEF Types
    <3>3. QED
      BY <3>1, <3>2
  <2>6. QED
    BY <1>14, <2>1, <2>3, <2>4, <2>5 DEF Types, OfferSnapshot, storeVars, processVars, handlerVars, clientVars
<1>15. ASSUME NEW v \in Viewers, ReplaceSnapshot(v) PROVE Types'
  <2>1. pub' \in Pubs /\ pub'.gen = pub.gen
    BY <1>15 DEF Types, ReplaceSnapshot, Pubs, Round, AtViewer
  <2>2. snapshots' = [snapshots EXCEPT ![v] = <<Frame>>]
    BY <1>15, One DEF Types, ReplaceSnapshot, Drained
  <2>3. snapshots' = [w \in Viewers |-> snapshots'[w]]
    BY <2>2 DEF Types
  <2>4. \A w \in Viewers : Slot(snapshots'[w], SnapshotFrames)
    BY <2>2, FramesTyped DEF Types, Slot
  <2>5. stalled' \in [Viewers -> Nat] /\ done' \in [Viewers -> BOOLEAN] /\ subscribers' \subseteq Viewers
    BY <1>15 DEF Types, ReplaceSnapshot, Disconnect
  <2>6. QED
    BY <1>15, <2>1, <2>3, <2>4, <2>5 DEF Types, ReplaceSnapshot, storeVars, processVars, handlerVars, clientVars
<1>16. ASSUME Stop PROVE Types'
  BY <1>16 DEF Types, Stop, Disconnect, Pubs, storeVars, processVars, slotVars, handlerVars, clientVars
<1>17. ASSUME NEW v \in Viewers, Subscribe(v) PROVE Types'
  BY <1>17 DEF Types, Subscribe, Handlers, HandOf, Slot, storeVars, processVars, slotVars, clientVars
<1>18. ASSUME NEW v \in Viewers, WriteFrame(v) PROVE Types'
  <2> DEFINE f == Head(hand[v])
  <2>1. /\ f \in RouteFrames \cup SnapshotFrames
        /\ f.kind = "routes" <=> f \in RouteFrames
        /\ HandOf(Tail(hand[v]))
    <3>1. hand[v] # <<>> /\ HandOf(hand[v])
      BY <1>18 DEF Types, WriteFrame
    <3>2. (\A r \in RouteFrames : r.kind = "routes") /\ (\A s \in SnapshotFrames : s.kind = "snapshot")
      BY DEF RouteFrames, SnapshotFrames
    <3>3. CASE \E r \in RouteFrames : hand[v] = <<r>>
      BY <3>2, <3>3, One DEF HandOf, Slot
    <3>4. CASE \E s \in SnapshotFrames : hand[v] = <<s>>
      BY <3>2, <3>4, One DEF HandOf, Slot
    <3>5. CASE \E r \in RouteFrames, s \in SnapshotFrames : hand[v] = <<r, s>>
      BY <3>2, <3>5, Two DEF HandOf, Slot
    <3>6. QED
      BY <3>1, <3>3, <3>4, <3>5 DEF HandOf, Slot
  <2>2. drawn' \in [Viewers -> RouteFrames] /\ shown' \in [Viewers -> SnapshotFrames]
    BY <1>18, <2>1 DEF Types, WriteFrame
  <2>3. given' \in [Viewers -> SUBSET RouteIds]
    <3>1. \A r \in RouteFrames : r.ids \in SUBSET RouteIds
      BY DEF RouteFrames
    <3>2. given' = given \/ (f \in RouteFrames /\ given' = [given EXCEPT ![v] = given[v] \cup f.ids])
      BY <1>18, <2>1 DEF Types, WriteFrame
    <3>3. QED
      BY <3>1, <3>2 DEF Types
  <2>4. /\ hand' = [w \in Viewers |-> hand'[w]]
        /\ \A w \in Viewers : HandOf(hand'[w])
    BY <1>18, <2>1 DEF Types, WriteFrame
  <2>5. QED
    BY <1>18, <2>2, <2>3, <2>4 DEF Types, WriteFrame, storeVars, processVars, slotVars, viewerVars
<1>19. ASSUME NEW v \in Viewers, Flushed(v) PROVE Types'
  BY <1>19 DEF Types, Flushed, Handlers, storeVars, processVars, slotVars, clientVars, viewerVars
<1>20. ASSUME NEW v \in Viewers, LoseClient(v) PROVE Types'
  BY <1>20 DEF Types, LoseClient, Handlers, HandOf, Slot, storeVars, processVars, slotVars, clientVars, viewerVars
<1>21. ASSUME NEW v \in Viewers, TakeDone(v) PROVE Types'
  BY <1>21 DEF Types, TakeDone, Handlers, storeVars, processVars, slotVars, clientVars, viewerVars
<1>22. ASSUME NEW v \in Viewers, TakeRoutes(v) PROVE Types'
  <2>1. PICK r \in RouteFrames : routes[v] = <<r>>
    BY <1>22 DEF Types, TakeRoutes, Slot
  <2>2. /\ routes' = [routes EXCEPT ![v] = <<>>]
        /\ hand' = [hand EXCEPT ![v] = <<r>>]
    BY <1>22, <2>1, One DEF Types, TakeRoutes, Received
  <2>3. /\ routes' = [w \in Viewers |-> routes'[w]]
        /\ hand' = [w \in Viewers |-> hand'[w]]
    BY <2>2 DEF Types
  <2>4. \A w \in Viewers : Slot(routes'[w], RouteFrames) /\ HandOf(hand'[w])
    BY <2>2 DEF Types, Slot, HandOf
  <2>5. QED
    <3>1. /\ handler' \in [Viewers -> Handlers]
          /\ \A w \in Viewers : w # v => handler'[w] = handler[w] /\ hand'[w] = hand[w]
          /\ handler'[v] = "writing"
      BY <1>22, <2>2 DEF Types, TakeRoutes, Handlers
    <3>2. QED
      BY <1>22, <2>3, <2>4, <3>1 DEF Types, TakeRoutes, storeVars, processVars, clientVars, viewerVars
<1>23. ASSUME NEW v \in Viewers, TakeSnapshot(v) PROVE Types'
  <2>1. PICK s \in SnapshotFrames : snapshots[v] = <<s>>
    BY <1>23 DEF Types, TakeSnapshot, Slot
  <2>2. /\ snapshots' = [snapshots EXCEPT ![v] = <<>>]
        /\ hand' = [hand EXCEPT ![v] = <<s>>]
    BY <1>23, <2>1, One DEF Types, TakeSnapshot, Received
  <2>3. /\ snapshots' = [w \in Viewers |-> snapshots'[w]]
        /\ hand' = [w \in Viewers |-> hand'[w]]
    BY <2>2 DEF Types
  <2>4. \A w \in Viewers : Slot(snapshots'[w], SnapshotFrames) /\ HandOf(hand'[w])
    BY <2>2 DEF Types, Slot, HandOf
  <2>5. QED
    <3>1. /\ handler' \in [Viewers -> Handlers]
          /\ \A w \in Viewers : w # v => handler'[w] = handler[w] /\ hand'[w] = hand[w]
          /\ handler'[v] = "draining" /\ hand'[v] = <<s>>
      BY <1>23, <2>2 DEF Types, TakeSnapshot, Handlers
    <3>2. \A w \in Viewers :
            /\ handler'[w] \in {"absent", "select"} => hand'[w] = <<>>
            /\ handler'[w] = "draining" => \E frame \in SnapshotFrames : hand'[w] = <<frame>>
      BY <3>1 DEF Types
    <3>3. QED
      BY <1>23, <2>3, <2>4, <3>1, <3>2 DEF Types, TakeSnapshot, storeVars, processVars, clientVars, viewerVars
<1>24. ASSUME NEW v \in Viewers, DrainRoutes(v) PROVE Types'
  <2>1. PICK s \in SnapshotFrames : hand[v] = <<s>>
    BY <1>24 DEF Types, DrainRoutes
  <2>2. routes[v] = <<>> \/ \E r \in RouteFrames : routes[v] = <<r>>
    BY DEF Types, Slot
  <2>3. HandOf(routes[v] \o <<s>>)
    <3>1. CASE routes[v] = <<>>
      BY <3>1, One DEF HandOf, Slot
    <3>2. CASE \E r \in RouteFrames : routes[v] = <<r>>
      BY <3>2, Two DEF HandOf
    <3>3. QED
      BY <2>2, <3>1, <3>2
  <2>4. /\ routes' = [routes EXCEPT ![v] = <<>>]
        /\ hand' = [hand EXCEPT ![v] = routes[v] \o <<s>>]
    BY <1>24, <2>1 DEF Types, DrainRoutes, GeometryFirst
  <2>5. /\ routes' = [w \in Viewers |-> routes'[w]]
        /\ hand' = [w \in Viewers |-> hand'[w]]
    BY <2>4 DEF Types
  <2>6. \A w \in Viewers : Slot(routes'[w], RouteFrames) /\ HandOf(hand'[w])
    BY <2>3, <2>4 DEF Types, Slot
  <2>7. QED
    BY <1>24, <2>4, <2>5, <2>6 DEF Types, DrainRoutes, Handlers, storeVars, processVars, clientVars, viewerVars
<1>25. ASSUME NEW v \in Viewers, Unsubscribe(v) PROVE Types'
  BY <1>25 DEF Types, Unsubscribe, Handlers, storeVars, processVars, slotVars, clientVars
<1>26. ASSUME UNCHANGED vars PROVE Types'
  BY <1>26 DEF Types, vars, storeVars, processVars, slotVars, handlerVars, clientVars, viewerVars
<1>27. QED
  BY <1>1, <1>2, <1>3, <1>4, <1>5, <1>6, <1>7, <1>8, <1>9, <1>10, <1>11, <1>12, <1>13,
     <1>14, <1>15, <1>16, <1>17, <1>18, <1>19, <1>20, <1>21, <1>22, <1>23, <1>24, <1>25, <1>26
  DEF Next, Environment, Publish, Stream

---------------------------------------------------------------------------
\* Steps of the store, of main and of nobody leave the read path alone.
Quiet == UNCHANGED <<pub, published, slotVars, handlerVars, clientVars, viewerVars>>

LEMMA Steps ==
  ASSUME [Next]_vars
  PROVE  \/ Quiet
         \/ ReadStore \/ ReadLifecycle \/ RoutesIfChanged \/ Lock \/ EndRound \/ Stop
         \/ \E v \in Viewers :
              \/ NextViewer(v) \/ OfferRoutes(v) \/ ReplaceRoutes(v)
              \/ OfferSnapshot(v) \/ ReplaceSnapshot(v)
              \/ Subscribe(v) \/ WriteFrame(v) \/ Flushed(v) \/ LoseClient(v)
              \/ TakeDone(v) \/ TakeRoutes(v) \/ TakeSnapshot(v) \/ DrainRoutes(v)
              \/ Unsubscribe(v)
<1>1. ASSUME Environment PROVE Quiet
  BY <1>1 DEF Environment, RegisterVehicle, AssignRoute, EndRoute, MarkReady, Interrupt, Quiet
<1>2. ASSUME UNCHANGED vars PROVE Quiet
  BY <1>2 DEF vars, Quiet
<1>3. QED
  BY <1>1, <1>2 DEF Next, Publish, Stream

LEMMA RoundsStep == Types /\ Rounds /\ [Next]_vars => Rounds'
<1> SUFFICES ASSUME Types, Rounds, [Next]_vars PROVE Rounds'
  OBVIOUS
<1>1. CASE Quiet
  BY <1>1 DEF Rounds, Quiet, slotVars, handlerVars, clientVars, viewerVars
<1>2. CASE ReadStore
  BY <1>2 DEF Types, Pubs, Rounds, ReadStore, Round, AtViewer, slotVars, handlerVars, clientVars
<1>3. CASE ReadLifecycle \/ RoutesIfChanged
  <2>1. pub'.pc \in {"derived", "rendered"}
    BY <1>3 DEF Types, Pubs, ReadLifecycle, RoutesIfChanged
  <2>2. UNCHANGED <<slotVars, handlerVars, clientVars, viewerVars>>
    BY <1>3 DEF ReadLifecycle, RoutesIfChanged
  <2>3. QED
    BY <2>1, <2>2 DEF Rounds, Round, AtViewer, slotVars, handlerVars, clientVars, viewerVars
<1>4. CASE Lock
  BY <1>4 DEF Types, Pubs, Rounds, Lock, Round, AtViewer, slotVars, handlerVars, clientVars, viewerVars
<1>5. CASE EndRound
  BY <1>5 DEF Types, Pubs, Rounds, EndRound, Round, AtViewer, slotVars, handlerVars, clientVars, viewerVars
<1>6. CASE Stop
  BY <1>6 DEF Types, Pubs, Rounds, Stop, Disconnect, Round, AtViewer, slotVars, handlerVars, clientVars
<1>7. ASSUME NEW v \in Viewers, NextViewer(v) PROVE Rounds'
  BY <1>7 DEF Types, Pubs, Rounds, NextViewer, Round, AtViewer, slotVars, handlerVars, clientVars, viewerVars
<1>8. ASSUME NEW v \in Viewers, OfferRoutes(v) \/ ReplaceRoutes(v) PROVE Rounds'
  <2>1. /\ pub.pc \in AtViewer /\ pub'.pc \in AtViewer
        /\ v = pub.at /\ pub'.at = pub.at /\ pub'.todo = pub.todo
    <3>1. \E pc \in AtViewer : pub' = [pub EXCEPT !.pc = pc]
      BY <1>8 DEF OfferRoutes, ReplaceRoutes, AtViewer
    <3>2. QED
      BY <1>8, <3>1 DEF Types, Pubs, OfferRoutes, ReplaceRoutes, AtViewer
  <2>2. \A w \in Viewers : w # v => routes'[w] = routes[w]
    BY <1>8 DEF Types, OfferRoutes, ReplaceRoutes
  <2>3. UNCHANGED <<snapshots, handlerVars, clientVars, viewerVars>>
    BY <1>8 DEF OfferRoutes, ReplaceRoutes
  <2>4. QED
    BY <2>1, <2>2, <2>3 DEF Rounds, Round, AtViewer, handlerVars, clientVars, viewerVars
<1>9. ASSUME NEW v \in Viewers, OfferSnapshot(v) PROVE Rounds'
  <2>1. /\ pub.pc \in AtViewer /\ pub'.pc \in Round
        /\ v = pub.at /\ pub'.at = pub.at /\ pub'.todo = pub.todo
    <3>1. \E pc \in Round : pub' = [pub EXCEPT !.pc = pc]
      BY <1>9 DEF OfferSnapshot, Round, AtViewer
    <3>2. QED
      BY <1>9, <3>1 DEF Types, Pubs, OfferSnapshot, AtViewer
  <2>2. \A w \in Viewers : w # v => snapshots'[w] = snapshots[w] /\ stalled'[w] = stalled[w]
    BY <1>9 DEF Types, OfferSnapshot
  <2>3. UNCHANGED <<routes, handlerVars, clientVars, subscribers, behind>>
    BY <1>9 DEF OfferSnapshot
  <2>4. QED
    BY <2>1, <2>2, <2>3 DEF Rounds, Round, AtViewer, handlerVars, clientVars
<1>10. ASSUME NEW v \in Viewers, ReplaceSnapshot(v) PROVE Rounds'
  BY <1>10 DEF Types, Pubs, Rounds, ReplaceSnapshot, Disconnect, Round, AtViewer, handlerVars, clientVars
<1>11. ASSUME NEW v \in Viewers, Subscribe(v) \/ Unsubscribe(v) PROVE Rounds'
  <2>1. pub' = pub /\ pub.pc \notin Round
    BY <1>11 DEF Subscribe, Unsubscribe, Unlocked, Round, AtViewer
  <2>2. /\ handler'[v] # "absent"
        /\ \A w \in Viewers : w # v => handler'[w] = handler[w] /\ (w \in subscribers' <=> w \in subscribers)
    BY <1>11 DEF Types, Subscribe, Unsubscribe
  <2>3. UNCHANGED <<slotVars, clientVars, stalled, behind>>
    BY <1>11 DEF Subscribe, Unsubscribe
  <2>4. QED
    BY <2>1, <2>2, <2>3 DEF Rounds, Round, AtViewer, slotVars, clientVars
<1>12. ASSUME NEW v \in Viewers, WriteFrame(v) PROVE Rounds'
  BY <1>12 DEF Types, Rounds, WriteFrame, slotVars, viewerVars
<1>13. ASSUME NEW v \in Viewers, Flushed(v) \/ LoseClient(v) \/ TakeDone(v) PROVE Rounds'
  BY <1>13 DEF Types, Rounds, Flushed, LoseClient, TakeDone, slotVars, clientVars, viewerVars
<1>14. ASSUME NEW v \in Viewers, TakeRoutes(v) \/ TakeSnapshot(v) \/ DrainRoutes(v) PROVE Rounds'
  BY <1>14 DEF Types, Rounds, TakeRoutes, TakeSnapshot, DrainRoutes, clientVars, viewerVars
<1>15. QED
  BY <1>1, <1>2, <1>3, <1>4, <1>5, <1>6, <1>7, <1>8, <1>9, <1>10, <1>11, <1>12, <1>13, <1>14, Steps

LEMMA ClosedOnceStep == Types /\ Rounds /\ ClosedOnce /\ [Next]_vars => ClosedOnce'
<1> SUFFICES ASSUME Types, Rounds, ClosedOnce, [Next]_vars PROVE ClosedOnce'
  OBVIOUS
<1>0. UNCHANGED done => UNCHANGED Closed
  BY DEF Closed
<1>1. CASE Quiet
  BY <1>0, <1>1 DEF ClosedOnce, Quiet, handlerVars, viewerVars
<1>2. ASSUME NEW S, S \subseteq subscribers, Disconnect(S), UNCHANGED handler PROVE ClosedOnce'
  <2>1. Closed' = Closed \cup S
    <3>1. S \subseteq Viewers
      BY <1>2 DEF Types
    <3>2. done' = [v \in Viewers |-> done[v] \/ v \in S]
      BY <1>2 DEF Disconnect
    <3>3. QED
      BY <3>1, <3>2, Zenon DEF Closed
  <2>2. \A v \in S : v \in Viewers /\ handler[v] # "absent"
    BY <1>2 DEF Types, Rounds
  <2>3. QED
    BY <1>2, <2>1, <2>2 DEF ClosedOnce, Disconnect
<1>3. CASE Stop
  BY <1>2, <1>3 DEF Stop, handlerVars
<1>4. ASSUME NEW v \in Viewers, ReplaceSnapshot(v) PROVE ClosedOnce'
  <2>1. v \in subscribers
    BY <1>4 DEF ReplaceSnapshot, Rounds, AtViewer
  <2>2. QED
    BY <1>2, <1>4, <2>1 DEF ReplaceSnapshot, handlerVars
<1>5. CASE ReadStore \/ ReadLifecycle \/ RoutesIfChanged \/ Lock \/ EndRound
  BY <1>0, <1>5 DEF ClosedOnce, ReadStore, ReadLifecycle, RoutesIfChanged, Lock, EndRound, handlerVars, viewerVars
<1>6. ASSUME NEW v \in Viewers, NextViewer(v) \/ OfferRoutes(v) \/ ReplaceRoutes(v) \/ OfferSnapshot(v) PROVE ClosedOnce'
  BY <1>0, <1>6 DEF ClosedOnce, NextViewer, OfferRoutes, ReplaceRoutes, OfferSnapshot, handlerVars, viewerVars
<1>7. ASSUME NEW v \in Viewers, Subscribe(v) \/ Unsubscribe(v) PROVE ClosedOnce'
  BY <1>0, <1>7 DEF Types, ClosedOnce, Closed, Subscribe, Unsubscribe
<1>8. ASSUME NEW v \in Viewers,
             WriteFrame(v) \/ Flushed(v) \/ LoseClient(v) \/ TakeDone(v)
               \/ TakeRoutes(v) \/ TakeSnapshot(v) \/ DrainRoutes(v)
      PROVE  ClosedOnce'
  BY <1>0, <1>8 DEF Types, ClosedOnce, Closed, WriteFrame, Flushed, LoseClient, TakeDone, TakeRoutes, TakeSnapshot, DrainRoutes, viewerVars
<1>9. QED
  BY <1>1, <1>3, <1>4, <1>5, <1>6, <1>7, <1>8, Steps

---------------------------------------------------------------------------
(* The frames on their way to one viewer. *)

HandCase(v) ==
  \/ /\ hand[v] = <<>>
     /\ ~HoldsSnapshot(v) /\ Taken(v) = shown[v] /\ Drawable(v) = drawn[v]
  \/ \E r \in RouteFrames :
       /\ hand[v] = <<r>>
       /\ ~HoldsSnapshot(v) /\ Taken(v) = shown[v] /\ Drawable(v) = r
  \/ \E s \in SnapshotFrames :
       /\ hand[v] = <<s>>
       /\ HoldsSnapshot(v) /\ Taken(v) = s /\ Drawable(v) = drawn[v]
  \/ \E r \in RouteFrames, s \in SnapshotFrames :
       /\ hand[v] = <<r, s>>
       /\ HoldsSnapshot(v) /\ Taken(v) = s /\ Drawable(v) = r

LEMMA FrameKinds ==
  /\ \A r \in RouteFrames : r.kind = "routes" /\ r.gen \in Nat
  /\ \A s \in SnapshotFrames : s.kind = "snapshot" /\ s.gen \in Nat
BY PublisherAssumption DEF RouteFrames, SnapshotFrames

LEMMA HandCases == Types => \A v \in Viewers : HandCase(v)
<1> SUFFICES ASSUME Types, NEW v \in Viewers PROVE HandCase(v)
  OBVIOUS
<1>1. CASE hand[v] = <<>>
  BY <1>1 DEF HandCase, HoldsSnapshot, Taken, Drawable
<1>2. CASE \E r \in RouteFrames : hand[v] = <<r>>
  BY <1>2, One, FrameKinds DEF HandCase, HoldsSnapshot, Taken, Drawable
<1>3. CASE \E s \in SnapshotFrames : hand[v] = <<s>>
  BY <1>3, One, FrameKinds DEF HandCase, HoldsSnapshot, Taken, Drawable
<1>4. CASE \E r \in RouteFrames, s \in SnapshotFrames : hand[v] = <<r, s>>
  BY <1>4, Two, FrameKinds DEF HandCase, HoldsSnapshot, Taken, Drawable
<1>5. QED
  BY <1>1, <1>2, <1>3, <1>4 DEF Types, HandOf, Slot

LEMMA FramesOfViewer ==
  ASSUME Types, NEW v \in Viewers
  PROVE  /\ Taken(v).gen \in Nat /\ shown[v].gen \in Nat
         /\ snapshots[v] # <<>> => snapshots[v][1].gen \in Nat
         /\ Drawable(v).gen \in Nat /\ drawn[v].gen \in Nat /\ LastRoutes(v).gen \in Nat
<1>1. shown[v] \in SnapshotFrames /\ drawn[v] \in RouteFrames
  BY DEF Types
<1>2. Taken(v) \in SnapshotFrames /\ Drawable(v) \in RouteFrames
  BY <1>1, HandCases DEF HandCase
<1>3. snapshots[v] # <<>> => snapshots[v][1] \in SnapshotFrames
  BY One DEF Types, Slot
<1>4. LastRoutes(v) \in RouteFrames
  BY <1>2, One DEF Types, Slot, LastRoutes
<1>5. QED
  BY <1>1, <1>2, <1>3, <1>4, FrameKinds

\* What the steps of a viewer's handler do to the frames on their way to it.
LEMMA Moves ==
  ASSUME Types, NEW v \in Viewers
  PROVE  /\ Subscribe(v) =>
              /\ Taken(v)' = Taken(v) /\ ~HoldsSnapshot(v)'
              /\ Drawable(v)' = IF published.gen = 0 THEN drawn[v] ELSE published
         /\ WriteFrame(v) =>
              /\ Taken(v)' = Taken(v) /\ Drawable(v)' = Drawable(v)
              /\ IF Head(hand[v]).kind = "routes"
                 THEN /\ drawn'[v] = Drawable(v) /\ Head(hand[v]) = Drawable(v)
                      /\ UNCHANGED shown[v] /\ HoldsSnapshot(v)' = HoldsSnapshot(v)
                 ELSE /\ HoldsSnapshot(v) /\ ~HoldsSnapshot(v)' /\ Head(hand[v]) = Taken(v)
                      /\ shown'[v] = Taken(v) /\ UNCHANGED drawn[v]
         /\ LoseClient(v) =>
              Taken(v)' = shown[v] /\ ~HoldsSnapshot(v)' /\ Drawable(v)' = drawn[v]
         /\ TakeRoutes(v) =>
              /\ Taken(v)' = Taken(v) /\ ~HoldsSnapshot(v)'
              /\ routes[v] # <<>> /\ Drawable(v)' = routes[v][1] /\ routes'[v] = <<>>
         /\ TakeSnapshot(v) =>
              /\ snapshots[v] # <<>> /\ Taken(v)' = snapshots[v][1] /\ snapshots'[v] = <<>>
              /\ HoldsSnapshot(v)' /\ Taken(v) = shown[v] /\ Drawable(v)' = Drawable(v)
         /\ DrainRoutes(v) =>
              /\ Taken(v)' = Taken(v) /\ HoldsSnapshot(v)' /\ HoldsSnapshot(v)
              /\ Drawable(v)' = LastRoutes(v) /\ routes'[v] = <<>>
<1>0. HandCase(v)
  BY HandCases
<1>1. ASSUME Subscribe(v)
      PROVE  /\ Taken(v)' = Taken(v) /\ ~HoldsSnapshot(v)'
             /\ Drawable(v)' = IF published.gen = 0 THEN drawn[v] ELSE published
  <2>1. hand[v] = <<>> /\ published \in RouteFrames
    BY <1>1 DEF Types, Subscribe
  <2>2. hand'[v] = (IF published.gen = 0 THEN <<>> ELSE <<published>>) /\ UNCHANGED <<shown, drawn>>
    BY <1>1 DEF Types, Subscribe, clientVars
  <2>3. QED
    BY <2>1, <2>2, One, FrameKinds DEF HoldsSnapshot, Taken, Drawable
<1>2. ASSUME WriteFrame(v)
      PROVE  /\ Taken(v)' = Taken(v) /\ Drawable(v)' = Drawable(v)
             /\ IF Head(hand[v]).kind = "routes"
                THEN /\ drawn'[v] = Drawable(v) /\ Head(hand[v]) = Drawable(v)
                     /\ UNCHANGED shown[v] /\ HoldsSnapshot(v)' = HoldsSnapshot(v)
                ELSE /\ HoldsSnapshot(v) /\ ~HoldsSnapshot(v)' /\ Head(hand[v]) = Taken(v)
                     /\ shown'[v] = Taken(v) /\ UNCHANGED drawn[v]
  <2>1. /\ hand[v] # <<>> /\ hand'[v] = Tail(hand[v])
        /\ IF Head(hand[v]).kind = "routes"
           THEN drawn'[v] = Head(hand[v]) /\ UNCHANGED shown[v]
           ELSE shown'[v] = Head(hand[v]) /\ UNCHANGED drawn[v]
    BY <1>2 DEF Types, WriteFrame
  <2>2. CASE \E r \in RouteFrames : hand[v] = <<r>>
    BY <2>1, <2>2, One, FrameKinds DEF HoldsSnapshot, Taken, Drawable
  <2>3. CASE \E s \in SnapshotFrames : hand[v] = <<s>>
    BY <2>1, <2>3, One, FrameKinds DEF HoldsSnapshot, Taken, Drawable
  <2>4. CASE \E r \in RouteFrames, s \in SnapshotFrames : hand[v] = <<r, s>>
    BY <2>1, <2>4, One, Two, FrameKinds DEF HoldsSnapshot, Taken, Drawable
  <2>5. QED
    BY <1>0, <2>1, <2>2, <2>3, <2>4 DEF HandCase
<1>3. ASSUME LoseClient(v)
      PROVE  Taken(v)' = shown[v] /\ ~HoldsSnapshot(v)' /\ Drawable(v)' = drawn[v]
  BY <1>3 DEF Types, LoseClient, clientVars, HoldsSnapshot, Taken, Drawable
<1>4. ASSUME TakeRoutes(v)
      PROVE  /\ Taken(v)' = Taken(v) /\ ~HoldsSnapshot(v)'
             /\ routes[v] # <<>> /\ Drawable(v)' = routes[v][1] /\ routes'[v] = <<>>
  <2>1. PICK r \in RouteFrames : routes[v] = <<r>>
    BY <1>4 DEF Types, TakeRoutes, Slot
  <2>2. hand[v] = <<>> /\ hand'[v] = <<r>> /\ routes'[v] = <<>> /\ UNCHANGED <<shown, drawn>>
    <3>1. /\ hand' = [hand EXCEPT ![v] = <<Head(routes[v])>>]
          /\ routes' = [routes EXCEPT ![v] = Tail(@)]
          /\ handler[v] = "select" /\ UNCHANGED <<shown, drawn>>
      BY <1>4 DEF TakeRoutes, Received, clientVars
    <3>2. Head(routes[v]) = r /\ Tail(routes[v]) = <<>>
      BY <2>1, One
    <3>3. QED
      BY <3>1, <3>2 DEF Types
  <2>3. QED
    BY <2>1, <2>2, One, FrameKinds DEF HoldsSnapshot, Taken, Drawable
<1>5. ASSUME TakeSnapshot(v)
      PROVE  /\ snapshots[v] # <<>> /\ Taken(v)' = snapshots[v][1] /\ snapshots'[v] = <<>>
             /\ HoldsSnapshot(v)' /\ Taken(v) = shown[v] /\ Drawable(v)' = Drawable(v)
  <2>1. PICK s \in SnapshotFrames : snapshots[v] = <<s>>
    BY <1>5 DEF Types, TakeSnapshot, Slot
  <2>2. hand[v] = <<>> /\ hand'[v] = <<s>> /\ snapshots'[v] = <<>> /\ UNCHANGED <<shown, drawn>>
    <3>1. /\ hand' = [hand EXCEPT ![v] = <<Head(snapshots[v])>>]
          /\ snapshots' = [snapshots EXCEPT ![v] = Tail(@)]
          /\ handler[v] = "select" /\ UNCHANGED <<shown, drawn>>
      BY <1>5 DEF TakeSnapshot, Received, clientVars
    <3>2. Head(snapshots[v]) = s /\ Tail(snapshots[v]) = <<>>
      BY <2>1, One
    <3>3. QED
      BY <3>1, <3>2 DEF Types
  <2>3. QED
    BY <2>1, <2>2, One, FrameKinds DEF HoldsSnapshot, Taken, Drawable
<1>6. ASSUME DrainRoutes(v)
      PROVE  /\ Taken(v)' = Taken(v) /\ HoldsSnapshot(v)' /\ HoldsSnapshot(v)
             /\ Drawable(v)' = LastRoutes(v) /\ routes'[v] = <<>>
  <2>1. PICK s \in SnapshotFrames : hand[v] = <<s>>
    BY <1>6 DEF Types, DrainRoutes
  <2>2. hand'[v] = routes[v] \o <<s>> /\ routes'[v] = <<>> /\ UNCHANGED <<shown, drawn>>
    BY <1>6, <2>1 DEF Types, DrainRoutes, GeometryFirst, clientVars
  <2>3. CASE routes[v] = <<>>
    BY <2>1, <2>2, <2>3, One, FrameKinds DEF HoldsSnapshot, Taken, Drawable, LastRoutes
  <2>4. CASE \E r \in RouteFrames : routes[v] = <<r>>
    BY <2>1, <2>2, <2>4, One, Two, FrameKinds DEF HoldsSnapshot, Taken, Drawable, LastRoutes
  <2>5. QED
    BY <2>3, <2>4 DEF Types, Slot
<1>7. QED
  BY <1>1, <1>2, <1>3, <1>4, <1>5, <1>6

---------------------------------------------------------------------------
\* A viewer awaits a publication from its beginning until it is offered the
\* snapshot, and not after.
LEMMA Awaiting ==
  ASSUME Types, Rounds, NEW w \in Viewers
  PROVE  /\ ReadStore => pub'.gen = pub.gen + 1 /\ Awaits(w)' /\ ~Awaits(w)
         /\ ReadLifecycle \/ RoutesIfChanged \/ Lock \/ EndRound \/ Stop =>
              pub'.gen = pub.gen /\ (Awaits(w)' => Awaits(w))
         /\ \A v \in Viewers :
              /\ NextViewer(v) \/ OfferRoutes(v) \/ ReplaceRoutes(v) =>
                   pub'.gen = pub.gen /\ (Awaits(w)' => Awaits(w))
              /\ OfferSnapshot(v) \/ ReplaceSnapshot(v) =>
                   /\ pub'.gen = pub.gen /\ (Awaits(w)' => Awaits(w))
                   /\ Awaits(v) /\ (pub'.pc = "next" => ~Awaits(v)')
<1>1. ReadStore => pub'.gen = pub.gen + 1 /\ Awaits(w)' /\ ~Awaits(w)
  BY DEF Types, Pubs, ReadStore, Awaits, Rendering, Round, AtViewer
<1>2. ReadLifecycle \/ Lock \/ EndRound \/ Stop => pub'.gen = pub.gen /\ (Awaits(w)' => Awaits(w))
  BY DEF Types, Pubs, ReadLifecycle, Lock, EndRound, Stop, Awaits, Rendering, Round, AtViewer
<1>3. RoutesIfChanged => pub'.gen = pub.gen /\ (Awaits(w)' => Awaits(w))
  <2>1. RoutesIfChanged => pub'.gen = pub.gen /\ pub.pc \in Rendering
    BY DEF Types, Pubs, RoutesIfChanged, Rendering
  <2>2. QED
    BY <2>1 DEF Awaits
<1>4. ASSUME NEW v \in Viewers, NextViewer(v)
      PROVE  pub'.gen = pub.gen /\ (Awaits(w)' => Awaits(w))
  BY <1>4 DEF Types, Pubs, NextViewer, Awaits, Rendering, Round, AtViewer
<1>5. ASSUME NEW v \in Viewers, NEW pc \in Round, pub.pc \in AtViewer, pub' = [pub EXCEPT !.pc = pc]
      PROVE  /\ pub'.gen = pub.gen /\ (Awaits(w)' => Awaits(w))
             /\ v = pub.at => Awaits(v) /\ (pc = "next" => ~Awaits(v)')
  <2>1. /\ pub'.pc = pc /\ pub'.gen = pub.gen /\ pub'.todo = pub.todo /\ pub'.at = pub.at
    BY <1>5 DEF Types, Pubs
  <2>2. pub.pc \in Round /\ pub.at \notin pub.todo
    BY <1>5 DEF Rounds, Round
  <2>3. QED
    BY <1>5, <2>1, <2>2 DEF Awaits, Rendering, Round, AtViewer
<1>6. ASSUME NEW v \in Viewers, OfferRoutes(v) \/ ReplaceRoutes(v)
      PROVE  pub'.gen = pub.gen /\ (Awaits(w)' => Awaits(w))
  <2>1. pub.pc \in AtViewer /\ \E pc \in Round : pub' = [pub EXCEPT !.pc = pc]
    BY <1>6 DEF OfferRoutes, ReplaceRoutes, Round, AtViewer
  <2>2. QED
    BY <1>5, <2>1
<1>7. ASSUME NEW v \in Viewers, OfferSnapshot(v) \/ ReplaceSnapshot(v)
      PROVE  /\ pub'.gen = pub.gen /\ (Awaits(w)' => Awaits(w))
             /\ Awaits(v) /\ (pub'.pc = "next" => ~Awaits(v)')
  <2>1. /\ pub.pc \in AtViewer /\ v = pub.at
        /\ \E pc \in Round : pub' = [pub EXCEPT !.pc = pc] /\ pub'.pc = pc
    <3>1. pub.pc \in AtViewer /\ v = pub.at /\ \E pc \in Round : pub' = [pub EXCEPT !.pc = pc]
      BY <1>7 DEF OfferSnapshot, ReplaceSnapshot, Round, AtViewer
    <3>2. QED
      BY <3>1 DEF Types, Pubs
  <2>2. QED
    BY <1>5, <2>1
<1>8. QED
  BY <1>1, <1>2, <1>3, <1>4, <1>6, <1>7

LEMMA SnapshotsStep == Types /\ Rounds /\ Snapshots /\ [Next]_vars => Snapshots'
<1> SUFFICES ASSUME Types, Rounds, Snapshots, [Next]_vars, NEW w \in Viewers PROVE InOrder(w)'
  BY DEF Snapshots
<1>1. InOrder(w) /\ pub.gen \in Nat
  BY DEF Snapshots, Types
<1>2. /\ Taken(w).gen \in Nat /\ shown[w].gen \in Nat
      /\ snapshots[w] # <<>> => snapshots[w][1].gen \in Nat
  BY FramesOfViewer
<1> DEFINE Same == UNCHANGED <<snapshots[w], hand[w], shown[w]>>
<1>3. Same => /\ Taken(w)' = Taken(w) /\ HoldsSnapshot(w)' = HoldsSnapshot(w)
              /\ UNCHANGED <<snapshots[w], shown[w]>>
  BY DEF Taken, HoldsSnapshot
<1>4. ASSUME Same, pub'.gen = pub.gen, Awaits(w)' => Awaits(w) PROVE InOrder(w)'
  <2>1. Offered(w) <= Offered(w)' /\ Offered(w) \in Int /\ Offered(w)' \in Int
    BY <1>1, <1>4 DEF Offered
  <2> HIDE DEF Same
  <2>2. QED
    BY <1>1, <1>2, <1>3, <1>4, <2>1 DEF InOrder
<1>5. CASE Quiet
  <2>1. Same /\ pub'.gen = pub.gen /\ (Awaits(w)' => Awaits(w))
    BY <1>5 DEF Quiet, slotVars, handlerVars, clientVars, Awaits
  <2>2. QED
    BY <1>4, <2>1
<1>6. CASE ReadStore
  <2>1. Same
    BY <1>6 DEF ReadStore, slotVars, handlerVars, clientVars
  <2>2. Offered(w)' = Offered(w)
    BY <1>1, <1>6, Awaiting DEF Offered
  <2> HIDE DEF Same
  <2>3. QED
    BY <1>1, <1>3, <2>1, <2>2 DEF InOrder
<1>7. CASE ReadLifecycle \/ RoutesIfChanged \/ Lock \/ EndRound \/ Stop
  <2>1. Same
    BY <1>7 DEF ReadLifecycle, RoutesIfChanged, Lock, EndRound, Stop, slotVars, handlerVars, clientVars
  <2>2. QED
    BY <1>4, <1>7, <2>1, Awaiting
<1>8. ASSUME NEW v \in Viewers, NextViewer(v) \/ OfferRoutes(v) \/ ReplaceRoutes(v) PROVE InOrder(w)'
  <2>1. Same
    BY <1>8 DEF NextViewer, OfferRoutes, ReplaceRoutes, slotVars, handlerVars, clientVars
  <2>2. QED
    BY <1>4, <1>8, <2>1, Awaiting
<1>9. ASSUME NEW v \in Viewers, OfferSnapshot(v) \/ ReplaceSnapshot(v) PROVE InOrder(w)'
  <2>1. UNCHANGED <<hand, shown>>
    BY <1>9 DEF OfferSnapshot, ReplaceSnapshot, handlerVars, clientVars
  <2>2. CASE UNCHANGED snapshots[w]
    BY <1>4, <1>9, <2>1, <2>2, Awaiting
  <2>3. CASE ~UNCHANGED snapshots[w]
    <3>1. v = w /\ snapshots'[w] = <<Frame>> /\ pub'.pc = "next"
      <4>1. CASE OfferSnapshot(v)
        <5>1. Room(snapshots[v]) => snapshots' = [snapshots EXCEPT ![v] = <<Frame>>] /\ pub' = [pub EXCEPT !.pc = "next"]
          BY <4>1, One DEF Types, OfferSnapshot, Room, Slot
        <5>2. ~Room(snapshots[v]) => UNCHANGED snapshots
          BY <4>1 DEF OfferSnapshot
        <5>3. QED
          BY <2>3, <5>1, <5>2 DEF Types, Pubs
      <4>2. CASE ReplaceSnapshot(v)
        <5>1. snapshots' = [snapshots EXCEPT ![v] = <<Frame>>] /\ pub' = [pub EXCEPT !.pc = "next"]
          BY <4>2, One DEF ReplaceSnapshot, Drained, Types
        <5>2. QED
          BY <2>3, <5>1 DEF Types, Pubs
      <4>3. QED
        BY <1>9, <4>1, <4>2
    <3>2. /\ Taken(w)' = Taken(w) /\ HoldsSnapshot(w)' = HoldsSnapshot(w) /\ UNCHANGED shown[w]
      BY <2>1 DEF Taken, HoldsSnapshot
    <3>3. Taken(w).gen <= pub.gen - 1 /\ Offered(w)' = pub.gen
      BY <1>1, <1>9, <3>1, Awaiting DEF Offered, InOrder
    <3>4. snapshots'[w][1].gen = pub.gen
      BY <3>1, One DEF Frame, Snapshot
    <3>5. QED
      BY <1>1, <1>2, <3>2, <3>3, <3>4 DEF InOrder
  <2>4. QED
    BY <2>2, <2>3
<1>10. ASSUME NEW v \in Viewers,
              Subscribe(v) \/ WriteFrame(v) \/ Flushed(v) \/ LoseClient(v) \/ TakeDone(v)
                \/ TakeRoutes(v) \/ TakeSnapshot(v) \/ DrainRoutes(v) \/ Unsubscribe(v)
      PROVE  InOrder(w)'
  <2>1. pub' = pub /\ Offered(w)' = Offered(w)
    BY <1>10 DEF Subscribe, WriteFrame, Flushed, LoseClient, TakeDone, TakeRoutes, TakeSnapshot,
                 DrainRoutes, Unsubscribe, Offered, Awaits
  <2>2. CASE v # w \/ Flushed(v) \/ TakeDone(v) \/ Unsubscribe(v)
    <3>1. Same
      BY <1>10, <2>2 DEF Types, Subscribe, WriteFrame, Flushed, LoseClient, TakeDone, TakeRoutes,
                 TakeSnapshot, DrainRoutes, Unsubscribe, slotVars, clientVars
    <3>2. QED
      BY <1>4, <2>1, <3>1 DEF Awaits
  <2>3. CASE v = w /\ (Subscribe(v) \/ LoseClient(v) \/ TakeRoutes(v) \/ DrainRoutes(v))
    <3>1. UNCHANGED <<snapshots[w], shown[w]>>
      BY <2>3 DEF Subscribe, LoseClient, TakeRoutes, DrainRoutes, slotVars, clientVars
    <3>2. \/ Taken(w)' = Taken(w) /\ (HoldsSnapshot(w)' => HoldsSnapshot(w))
          \/ Taken(w)' = shown[w] /\ ~HoldsSnapshot(w)'
      BY <2>3, Moves
    <3>3. shown[w].gen <= Taken(w).gen
      BY <1>1, <1>2 DEF InOrder, Taken
    <3>4. Offered(w) \in Int
      BY <1>1 DEF Offered
    <3>5. QED
      BY <1>1, <1>2, <2>1, <3>1, <3>2, <3>3, <3>4 DEF InOrder
  <2>4. CASE v = w /\ WriteFrame(v)
    <3>1. UNCHANGED snapshots[w]
      BY <2>4 DEF WriteFrame, slotVars
    <3>2. /\ Taken(w)' = Taken(w)
          /\ \/ UNCHANGED shown[w] /\ HoldsSnapshot(w)' = HoldsSnapshot(w)
             \/ ~HoldsSnapshot(w)'
      BY <2>4, Moves
    <3>3. QED
      BY <1>1, <2>1, <3>1, <3>2 DEF InOrder
  <2>5. CASE v = w /\ TakeSnapshot(v)
    <3>1. UNCHANGED shown[w]
      BY <2>5 DEF TakeSnapshot, clientVars
    <3>2. /\ snapshots[w] # <<>> /\ Taken(w)' = snapshots[w][1] /\ snapshots'[w] = <<>>
          /\ HoldsSnapshot(w)' /\ Taken(w) = shown[w]
      BY <2>5, Moves
    <3>3. QED
      BY <1>1, <1>2, <2>1, <3>1, <3>2 DEF InOrder
  <2>6. QED
    BY <1>10, <2>2, <2>3, <2>4, <2>5
<1>11. QED
  BY <1>5, <1>6, <1>7, <1>8, <1>9, <1>10, Steps

---------------------------------------------------------------------------
(* Route frames. *)

LEMMA RenderedStep == Types /\ Rendered /\ [Next]_vars => Rendered'
<1> SUFFICES ASSUME Types, Rendered, [Next]_vars PROVE Rendered'
  OBVIOUS
<1>0. pub.gen \in Nat /\ published.gen \in Nat
  BY FrameKinds DEF Types
<1>1. ASSUME UNCHANGED <<pub, published>> PROVE Rendered'
  BY <1>1 DEF Rendered
<1>2. CASE ReadStore
  BY <1>0, <1>2 DEF Types, Pubs, Rendered, ReadStore, Rendering, Round, AtViewer
<1>3. CASE ReadLifecycle
  BY <1>0, <1>3 DEF Types, Pubs, Rendered, ReadLifecycle, Rendering, Round, AtViewer
<1>4. CASE RoutesIfChanged
  <2>1. pub.gen > 0
    BY <1>4 DEF Rendered, RoutesIfChanged, Rendering
  <2>2. CASE pub.refs # published.ids
    <3>1. pub' = [pub EXCEPT !.pc = "rendered", !.changed = TRUE] /\ published' = Routes(pub.gen, pub.refs)
      BY <1>4, <2>2 DEF RoutesIfChanged
    <3>2. pub'.pc = "rendered" /\ pub'.gen = pub.gen /\ pub'.refs = pub.refs
      BY <3>1 DEF Types, Pubs
    <3>3. QED
      BY <1>0, <2>1, <3>1, <3>2 DEF Rendered, Routes, Rendering, Round, AtViewer
  <2>3. CASE pub.refs = published.ids
    <3>1. pub' = [pub EXCEPT !.pc = "rendered", !.changed = FALSE] /\ published' = published
      BY <1>4, <2>3 DEF RoutesIfChanged
    <3>2. pub'.pc = "rendered" /\ pub'.gen = pub.gen /\ ~pub'.changed
      BY <3>1 DEF Types, Pubs
    <3>3. QED
      BY <1>0, <2>1, <3>1, <3>2 DEF Rendered, Rendering, Round, AtViewer
  <2>4. QED
    BY <2>2, <2>3
<1>5. CASE Lock
  BY <1>0, <1>5 DEF Types, Pubs, Rendered, Lock, Rendering, Round, AtViewer
<1>6. CASE EndRound \/ Stop
  BY <1>0, <1>6 DEF Types, Pubs, Rendered, EndRound, Stop, Rendering, Round, AtViewer
<1>7. ASSUME NEW v \in Viewers, NextViewer(v) PROVE Rendered'
  BY <1>0, <1>7 DEF Types, Pubs, Rendered, NextViewer, Rendering, Round, AtViewer
<1>8. ASSUME NEW v \in Viewers, OfferRoutes(v) \/ ReplaceRoutes(v) \/ OfferSnapshot(v) \/ ReplaceSnapshot(v)
      PROVE  Rendered'
  <2>1. /\ pub.pc \in AtViewer /\ published' = published
        /\ \/ \E pc \in {"next", "snapshot", "snapshotFull"} : pub' = [pub EXCEPT !.pc = pc]
           \/ pub.pc = "routes" /\ pub' = [pub EXCEPT !.pc = "routesFull"]
    BY <1>8 DEF OfferRoutes, ReplaceRoutes, OfferSnapshot, ReplaceSnapshot, AtViewer
  <2>2. QED
    BY <1>0, <2>1 DEF Types, Pubs, Rendered, Rendering, Round, AtViewer
<1>9. ASSUME NEW v \in Viewers,
             Subscribe(v) \/ WriteFrame(v) \/ Flushed(v) \/ LoseClient(v) \/ TakeDone(v)
               \/ TakeRoutes(v) \/ TakeSnapshot(v) \/ DrainRoutes(v) \/ Unsubscribe(v)
      PROVE  UNCHANGED <<pub, published>>
  BY <1>9 DEF Subscribe, WriteFrame, Flushed, LoseClient, TakeDone, TakeRoutes, TakeSnapshot,
              DrainRoutes, Unsubscribe
<1>10. QED
  BY <1>1, <1>2, <1>3, <1>4, <1>5, <1>6, <1>7, <1>8, <1>9, Steps DEF Quiet

\* The steps of a publication that offer no routes leave every route frame alone.
LEMMA RoutesUntouched ==
  ASSUME NEW w \in Viewers,
         \/ Quiet \/ ReadStore \/ ReadLifecycle \/ RoutesIfChanged \/ Lock \/ EndRound \/ Stop
         \/ \E v \in Viewers : NextViewer(v) \/ OfferSnapshot(v) \/ ReplaceSnapshot(v)
  PROVE  /\ UNCHANGED <<routes, drawn, handler>>
         /\ Drawable(w)' = Drawable(w) /\ LastRoutes(w)' = LastRoutes(w)
<1>1. UNCHANGED <<routes, drawn, hand, handler>>
  BY DEF Quiet, ReadStore, ReadLifecycle, RoutesIfChanged, Lock, EndRound, Stop, NextViewer,
         OfferSnapshot, ReplaceSnapshot, slotVars, handlerVars, clientVars
<1>2. QED
  BY <1>1 DEF Drawable, LastRoutes

\* An offer of routes reaches the viewer it is for, or is tried again.
LEMMA RoutesOffered ==
  ASSUME Types, Rendered, NEW v \in Viewers, OfferRoutes(v) \/ ReplaceRoutes(v), NEW w \in Viewers
  PROVE  /\ UNCHANGED <<drawn, handler, published, subscribers>>
         /\ pub.pc \in {"routes", "routesFull"} /\ pub.at = v
         /\ Drawable(w)' = Drawable(w)
         /\ \/ /\ pub' = [pub EXCEPT !.pc = "snapshot"]
               /\ LastRoutes(w)' = IF w = v THEN published ELSE LastRoutes(w)
            \/ /\ pub' = [pub EXCEPT !.pc = "routesFull"]
               /\ LastRoutes(w)' = LastRoutes(w)
<1>1. UNCHANGED <<drawn, hand, handler, published, subscribers>> /\ pub.pc \in {"routes", "routesFull"} /\ pub.at = v
  BY DEF OfferRoutes, ReplaceRoutes, handlerVars, clientVars, viewerVars
<1>2. published = Routes(pub.gen, pub.refs)
  BY <1>1 DEF Rendered, Round, AtViewer
<1>3. \/ /\ pub' = [pub EXCEPT !.pc = "snapshot"]
         /\ routes' = [routes EXCEPT ![v] = <<published>>]
      \/ pub' = [pub EXCEPT !.pc = "routesFull"] /\ routes' = routes
  <2>1. CASE OfferRoutes(v)
    BY <1>2, <2>1, One DEF Types, OfferRoutes, Room, Slot
  <2>2. CASE ReplaceRoutes(v)
    BY <1>2, <2>2, One DEF ReplaceRoutes, Drained, Types
  <2>3. QED
    BY <2>1, <2>2
<1>4. Drawable(w)' = Drawable(w)
  BY <1>1 DEF Drawable
<1>5. CASE pub' = [pub EXCEPT !.pc = "snapshot"] /\ routes' = [routes EXCEPT ![v] = <<published>>]
  <2>1. routes'[w] = IF w = v THEN <<published>> ELSE routes[w]
    BY <1>5 DEF Types
  <2>2. QED
    BY <1>1, <1>4, <1>5, <2>1, One DEF LastRoutes
<1>6. CASE pub' = [pub EXCEPT !.pc = "routesFull"] /\ routes' = routes
  BY <1>1, <1>4, <1>6 DEF LastRoutes
<1>7. QED
  BY <1>1, <1>3, <1>4, <1>5, <1>6

\* A handler passes route frames on and loses none while its client is there.
LEMMA RoutesPassedOn ==
  ASSUME Types, NEW v \in Viewers, NEW w \in Viewers,
         \/ w # v /\ (Subscribe(v) \/ LoseClient(v))
         \/ WriteFrame(v) \/ Flushed(v) \/ TakeDone(v) \/ TakeRoutes(v) \/ TakeSnapshot(v)
         \/ DrainRoutes(v) \/ Unsubscribe(v)
  PROVE  /\ LastRoutes(w)' = LastRoutes(w)
         /\ \/ UNCHANGED drawn[w] /\ Drawable(w)' \in {Drawable(w), LastRoutes(w)}
            \/ drawn'[w] = Drawable(w) /\ Drawable(w)' = Drawable(w)
<1>1. CASE w # v
  <2>1. UNCHANGED <<routes[w], hand[w], drawn[w]>>
    BY <1>1 DEF Types, Subscribe, WriteFrame, Flushed, LoseClient, TakeDone, TakeRoutes, TakeSnapshot,
                DrainRoutes, Unsubscribe, slotVars, clientVars
  <2>2. QED
    BY <2>1 DEF Drawable, LastRoutes
<1>2. CASE w = v /\ (Flushed(v) \/ TakeDone(v) \/ Unsubscribe(v))
  BY <1>2 DEF Flushed, TakeDone, Unsubscribe, slotVars, clientVars, Drawable, LastRoutes
<1>3. CASE w = v /\ WriteFrame(v)
  <2>1. UNCHANGED routes
    BY <1>3 DEF WriteFrame, slotVars
  <2>2. QED
    BY <1>3, <2>1, Moves DEF LastRoutes
<1>4. CASE w = v /\ TakeSnapshot(v)
  <2>1. UNCHANGED <<routes, drawn>>
    BY <1>4 DEF TakeSnapshot, clientVars
  <2>2. QED
    BY <1>4, <2>1, Moves DEF LastRoutes
<1>5. CASE w = v /\ (TakeRoutes(v) \/ DrainRoutes(v))
  <2>1. UNCHANGED drawn
    BY <1>5 DEF TakeRoutes, DrainRoutes, clientVars
  <2>2. QED
    BY <1>5, <2>1, Moves DEF LastRoutes
<1>6. QED
  BY <1>1, <1>2, <1>3, <1>4, <1>5

LEMMA GeometryStep ==
  Types /\ Types' /\ Rounds /\ Rendered /\ Geometry /\ [Next]_vars => Geometry'
<1> SUFFICES ASSUME Types, Types', Rounds, Rendered, Geometry, [Next]_vars, NEW w \in Viewers
             PROVE  DrawnInOrder(w)'
  BY DEF Geometry
<1>1. /\ DrawnInOrder(w)
      /\ Drawable(w).gen \in Nat /\ drawn[w].gen \in Nat /\ LastRoutes(w).gen \in Nat
      /\ published.gen \in Nat /\ pub.gen \in Nat
  BY FramesOfViewer, FrameKinds DEF Geometry, Types
<1>2. published' = published \/ published' = Routes(pub.gen, pub.refs)
  BY Steps DEF Quiet, ReadStore, ReadLifecycle, RoutesIfChanged, Lock, EndRound, Stop, NextViewer,
         OfferRoutes, ReplaceRoutes, OfferSnapshot, ReplaceSnapshot, Subscribe, WriteFrame, Flushed,
         LoseClient, TakeDone, TakeRoutes, TakeSnapshot, DrainRoutes, Unsubscribe
<1>3. published.gen <= published'.gen /\ published'.gen \in Nat
  BY <1>1, <1>2 DEF Rendered, Routes
<1>4. CASE \/ Quiet \/ ReadStore \/ ReadLifecycle \/ RoutesIfChanged \/ Lock \/ EndRound \/ Stop
           \/ \E v \in Viewers : NextViewer(v) \/ OfferSnapshot(v) \/ ReplaceSnapshot(v)
  BY <1>1, <1>3, <1>4, RoutesUntouched DEF DrawnInOrder
<1>5. ASSUME NEW v \in Viewers, OfferRoutes(v) \/ ReplaceRoutes(v) PROVE DrawnInOrder(w)'
  <2>1. /\ UNCHANGED <<drawn, published>> /\ Drawable(w)' = Drawable(w)
        /\ LastRoutes(w)' \in {published, LastRoutes(w)}
    BY <1>5, RoutesOffered
  <2>2. QED
    BY <1>1, <2>1 DEF DrawnInOrder
<1>6. ASSUME NEW v \in Viewers,
             \/ w # v /\ (Subscribe(v) \/ LoseClient(v))
             \/ WriteFrame(v) \/ Flushed(v) \/ TakeDone(v) \/ TakeRoutes(v) \/ TakeSnapshot(v)
             \/ DrainRoutes(v) \/ Unsubscribe(v)
      PROVE  DrawnInOrder(w)'
  <2>1. /\ LastRoutes(w)' = LastRoutes(w)
        /\ \/ UNCHANGED drawn[w] /\ Drawable(w)' \in {Drawable(w), LastRoutes(w)}
           \/ drawn'[w] = Drawable(w) /\ Drawable(w)' = Drawable(w)
    BY <1>6, RoutesPassedOn
  <2>2. QED
    BY <1>1, <1>3, <2>1 DEF DrawnInOrder
<1>7. CASE Subscribe(w)
  <2>1. /\ routes'[w] = <<>> /\ UNCHANGED <<drawn, published>>
        /\ drawn[w].gen = 0
    BY <1>7 DEF Subscribe, Rounds, slotVars, clientVars
  <2>2. Drawable(w)' \in {drawn[w], published}
    BY <1>7, Moves
  <2>3. LastRoutes(w)' = Drawable(w)'
    BY <2>1 DEF LastRoutes
  <2>4. QED
    BY <1>1, <2>1, <2>2, <2>3 DEF DrawnInOrder
<1>8. CASE LoseClient(w)
  <2>1. UNCHANGED <<routes, drawn, published>> /\ Drawable(w)' = drawn[w]
    BY <1>8, Moves DEF LoseClient, slotVars, clientVars
  <2>2. LastRoutes(w)' \in {LastRoutes(w), drawn[w]}
    BY <2>1 DEF LastRoutes
  <2>3. QED
    BY <1>1, <2>1, <2>2 DEF DrawnInOrder
<1>9. QED
  BY <1>4, <1>5, <1>6, <1>7, <1>8, Steps

\* A publication owes a viewer its routes until it has offered them.
LEMMA Owing ==
  ASSUME Types, Rounds, Rendered, NEW w \in subscribers
  PROVE  /\ ReadStore \/ ReadLifecycle \/ RoutesIfChanged \/ EndRound \/ Stop => ~OwedRoutes(w)
         /\ RoutesIfChanged => OwedRoutes(w)' \/ UNCHANGED published
         /\ Quiet \/ Lock => (OwedRoutes(w) => OwedRoutes(w)')
         /\ \A v \in Viewers :
              /\ NextViewer(v) \/ OfferSnapshot(v) \/ ReplaceSnapshot(v) =>
                   (OwedRoutes(w) => OwedRoutes(w)')
              /\ OfferRoutes(v) \/ ReplaceRoutes(v) =>
                   (OwedRoutes(w) => OwedRoutes(w)' \/ (w = v /\ pub'.pc = "snapshot"))
<1>1. ReadStore \/ ReadLifecycle \/ RoutesIfChanged \/ EndRound \/ Stop => ~OwedRoutes(w)
  BY DEF ReadStore, ReadLifecycle, RoutesIfChanged, EndRound, Stop, OwedRoutes
<1>2. ASSUME RoutesIfChanged PROVE OwedRoutes(w)' \/ UNCHANGED published
  <2>1. CASE pub.refs # published.ids
    <3>1. pub' = [pub EXCEPT !.pc = "rendered", !.changed = TRUE]
      BY <1>2, <2>1 DEF RoutesIfChanged
    <3>2. pub'.pc = "rendered" /\ pub'.changed
      BY <3>1 DEF Types, Pubs
    <3>3. QED
      BY <3>2 DEF OwedRoutes
  <2>2. CASE pub.refs = published.ids
    BY <1>2, <2>2 DEF RoutesIfChanged
  <2>3. QED
    BY <2>1, <2>2
<1>3. ASSUME Quiet \/ Lock, OwedRoutes(w) PROVE OwedRoutes(w)'
  <2>1. CASE Quiet
    BY <1>3, <2>1 DEF Quiet, OwedRoutes
  <2>2. CASE Lock
    <3>1. pub' = [pub EXCEPT !.pc = "next", !.todo = subscribers] /\ pub.changed
      BY <1>3, <2>2 DEF Lock, OwedRoutes
    <3>2. pub'.pc = "next" /\ pub'.todo = subscribers /\ pub'.changed
      BY <3>1 DEF Types, Pubs
    <3>3. QED
      BY <3>2 DEF OwedRoutes
  <2>3. QED
    BY <1>3, <2>1, <2>2
<1>4. ASSUME NEW v \in Viewers, NextViewer(v), OwedRoutes(w) PROVE OwedRoutes(w)'
  <2>1. pub.changed /\ pub.pc = "next" /\ w \in pub.todo
    BY <1>4 DEF NextViewer, OwedRoutes
  <2>2. pub' = [pub EXCEPT !.pc = "routes", !.at = v, !.todo = pub.todo \ {v}]
    BY <1>4, <2>1 DEF NextViewer, Types, Pubs
  <2>3. pub'.pc = "routes" /\ pub'.at = v /\ pub'.todo = pub.todo \ {v} /\ pub'.changed
    BY <2>1, <2>2 DEF Types, Pubs
  <2>4. QED
    BY <2>1, <2>3 DEF OwedRoutes
<1>5. ASSUME NEW pc \in Round, pub' = [pub EXCEPT !.pc = pc], pub.changed
      PROVE  pub'.pc = pc /\ pub'.todo = pub.todo /\ pub'.at = pub.at /\ pub'.changed
  BY <1>5 DEF Types, Pubs
<1>6. ASSUME NEW v \in Viewers, OfferSnapshot(v) \/ ReplaceSnapshot(v), OwedRoutes(w)
      PROVE  OwedRoutes(w)'
  <2>1. pub.changed /\ w \in pub.todo
    BY <1>6 DEF OfferSnapshot, ReplaceSnapshot, OwedRoutes
  <2>2. \E pc \in {"next", "snapshotFull"} : pub' = [pub EXCEPT !.pc = pc]
    BY <1>6 DEF OfferSnapshot, ReplaceSnapshot
  <2>3. QED
    BY <1>5, <2>1, <2>2 DEF OwedRoutes, Round, AtViewer
<1>7. ASSUME NEW v \in Viewers, OfferRoutes(v) \/ ReplaceRoutes(v), OwedRoutes(w)
      PROVE  OwedRoutes(w)' \/ (w = v /\ pub'.pc = "snapshot")
  <2>1. pub.changed /\ w \in pub.todo \cup {v} /\ v = pub.at
    BY <1>7 DEF OfferRoutes, ReplaceRoutes, OwedRoutes
  <2>2. \E pc \in {"snapshot", "routesFull"} : pub' = [pub EXCEPT !.pc = pc]
    BY <1>7 DEF OfferRoutes, ReplaceRoutes
  <2>3. QED
    BY <1>5, <2>1, <2>2 DEF OwedRoutes, Round, AtViewer
<1>8. QED
  BY <1>1, <1>2, <1>3, <1>4, <1>6, <1>7

LEMMA DrawingStep ==
  Types /\ Types' /\ Rounds /\ Rendered /\ Drawing /\ [Next]_vars => Drawing'
<1> SUFFICES ASSUME Types, Types', Rounds, Rendered, Drawing, [Next]_vars, NEW w \in subscribers'
             PROVE  UpToDate(w)'
  BY DEF Drawing
<1>1. w \in Viewers
  BY DEF Types
<1>2. w \in subscribers => UpToDate(w)
  BY DEF Drawing
<1>3. ASSUME w \in subscribers, UNCHANGED <<handler[w], published>>, LastRoutes(w)' = LastRoutes(w),
             OwedRoutes(w) => OwedRoutes(w)'
      PROVE  UpToDate(w)'
  <2>1. UpToDate(w)
    BY <1>2, <1>3
  <2>2. QED
    BY <1>3, <2>1, Zenon DEF UpToDate
<1>4. CASE \/ Quiet \/ ReadStore \/ ReadLifecycle \/ RoutesIfChanged \/ Lock \/ EndRound \/ Stop
           \/ \E v \in Viewers : NextViewer(v) \/ OfferSnapshot(v) \/ ReplaceSnapshot(v)
  <2>1. UNCHANGED handler /\ LastRoutes(w)' = LastRoutes(w)
    BY <1>1, <1>4, RoutesUntouched
  <2>2. w \in subscribers
    BY <1>4 DEF Quiet, ReadStore, ReadLifecycle, RoutesIfChanged, Lock, EndRound, Stop, NextViewer,
                OfferSnapshot, ReplaceSnapshot, Disconnect, viewerVars
  <2>3. OwedRoutes(w) => OwedRoutes(w)'
    BY <1>4, <2>2, Owing
  <2>4. UNCHANGED published \/ OwedRoutes(w)'
    <3>1. CASE RoutesIfChanged
      BY <2>2, <3>1, Owing
    <3>2. CASE ~RoutesIfChanged
      BY <1>4, <3>2 DEF Quiet, ReadStore, ReadLifecycle, Lock, EndRound, Stop, NextViewer,
                        OfferSnapshot, ReplaceSnapshot
    <3>3. QED
      BY <3>1, <3>2
  <2>5. CASE OwedRoutes(w)'
    BY <2>5 DEF UpToDate
  <2>6. CASE UNCHANGED published
    BY <1>3, <2>1, <2>2, <2>3, <2>6
  <2>7. QED
    BY <2>4, <2>5, <2>6
<1>5. ASSUME NEW v \in Viewers, OfferRoutes(v) \/ ReplaceRoutes(v) PROVE UpToDate(w)'
  <2>1. /\ UNCHANGED <<handler, published, subscribers>>
        /\ LastRoutes(w)' = LastRoutes(w) \/ (w = v /\ LastRoutes(w)' = published)
        /\ pub'.pc = "snapshot" /\ w = v => LastRoutes(w)' = published
    <3>1. pub' = [pub EXCEPT !.pc = "routesFull"] => pub'.pc = "routesFull"
      BY DEF Types, Pubs
    <3>2. QED
      BY <1>1, <1>5, <3>1, RoutesOffered
  <2>2. OwedRoutes(w) => OwedRoutes(w)' \/ (w = v /\ pub'.pc = "snapshot")
    BY <1>5, <2>1, Owing
  <2>3. CASE LastRoutes(w)' = published
    BY <2>1, <2>3 DEF UpToDate
  <2>4. CASE OwedRoutes(w)'
    BY <2>4 DEF UpToDate
  <2>5. CASE LastRoutes(w)' = LastRoutes(w) /\ (OwedRoutes(w) => OwedRoutes(w)')
    BY <1>3, <2>1, <2>5
  <2>6. QED
    BY <2>1, <2>2, <2>3, <2>4, <2>5
<1>6. ASSUME NEW v \in Viewers,
             \/ w # v /\ (Subscribe(v) \/ LoseClient(v))
             \/ WriteFrame(v) \/ Flushed(v) \/ TakeDone(v) \/ TakeRoutes(v) \/ TakeSnapshot(v)
             \/ DrainRoutes(v) \/ Unsubscribe(v)
      PROVE  UpToDate(w)'
  <2>1. LastRoutes(w)' = LastRoutes(w) /\ UNCHANGED <<pub, published>>
    BY <1>1, <1>6, RoutesPassedOn DEF Subscribe, WriteFrame, Flushed, LoseClient, TakeDone, TakeRoutes,
                                      TakeSnapshot, DrainRoutes, Unsubscribe
  <2>2. w \in subscribers
    BY <1>6 DEF Subscribe, WriteFrame, Flushed, LoseClient, TakeDone, TakeRoutes, TakeSnapshot,
                DrainRoutes, Unsubscribe, viewerVars
  <2>3. OwedRoutes(w)' = OwedRoutes(w)
    BY <2>1 DEF OwedRoutes
  <2>4. /\ handler'[w] \in {"writing", "select", "draining"} =>
             handler[w] \in {"writing", "select", "draining"}
    BY <1>1, <1>6 DEF Types, Subscribe, WriteFrame, Flushed, LoseClient, TakeDone, TakeRoutes, TakeSnapshot,
                DrainRoutes, Unsubscribe
  <2>5. UpToDate(w)
    BY <1>2, <2>2
  <2>6. QED
    BY <2>1, <2>3, <2>4, <2>5, Zenon DEF UpToDate
<1>7. CASE Subscribe(w)
  <2>1. /\ routes'[w] = <<>> /\ UNCHANGED published /\ drawn[w].ids = {}
    BY <1>1, <1>7 DEF Subscribe, Rounds, slotVars, clientVars
  <2>2. Drawable(w)' = IF published.gen = 0 THEN drawn[w] ELSE published
    BY <1>1, <1>7, Moves
  <2>3. LastRoutes(w)' = Drawable(w)'
    BY <2>1 DEF LastRoutes
  <2>4. published.gen = 0 => published.ids = {}
    BY DEF Rendered
  <2>5. LastRoutes(w)'.ids = published'.ids
    BY <2>1, <2>2, <2>3, <2>4
  <2>6. QED
    BY <2>5 DEF UpToDate
<1>8. CASE LoseClient(w)
  <2>1. handler'[w] = "leaving"
    BY <1>1, <1>8 DEF Types, LoseClient
  <2>2. QED
    BY <2>1 DEF UpToDate
<1>9. QED
  BY <1>1, <1>4, <1>5, <1>6, <1>7, <1>8, Steps

---------------------------------------------------------------------------
(* Stalls. *)

\* A listed viewer awaits the publication until its own snapshot is offered.
LEMMA StillAwaiting ==
  ASSUME Types, Rounds, NEW w \in subscribers
  PROVE  /\ ReadLifecycle \/ RoutesIfChanged \/ Lock \/ EndRound => (Awaits(w) => Awaits(w)') /\ pub'.pc # "snapshotFull"
         /\ \A v \in Viewers :
              /\ NextViewer(v) => (Awaits(w) => Awaits(w)') /\ pub'.pc # "snapshotFull"
              /\ OfferRoutes(v) \/ ReplaceRoutes(v) => (Awaits(w) => Awaits(w)') /\ pub'.pc # "snapshotFull"
              /\ OfferSnapshot(v) \/ ReplaceSnapshot(v) =>
                   (Awaits(w) => w = v \/ Awaits(w)') /\ pub'.at = v
<1>1. ReadLifecycle \/ RoutesIfChanged => pub.pc \in Rendering /\ pub'.pc \in {"derived", "rendered"}
  BY DEF Types, Pubs, ReadLifecycle, RoutesIfChanged, Rendering
<1>2. Lock => pub'.pc = "next" /\ pub'.todo = subscribers
  BY DEF Types, Pubs, Lock
<1>3. EndRound => pub'.pc = "idle" /\ ~Awaits(w)
  BY DEF Types, Pubs, EndRound, Awaits, Rendering, AtViewer
<1>4. ASSUME NEW v \in Viewers, NextViewer(v) PROVE (Awaits(w) => Awaits(w)') /\ pub'.pc # "snapshotFull"
  BY <1>4 DEF Types, Pubs, NextViewer, Awaits, Rendering, Round, AtViewer
<1>5. ASSUME NEW v \in Viewers, OfferRoutes(v) \/ ReplaceRoutes(v)
      PROVE  (Awaits(w) => Awaits(w)') /\ pub'.pc # "snapshotFull"
  <2>1. pub.pc \in AtViewer /\ \E pc \in {"snapshot", "routesFull"} : pub' = [pub EXCEPT !.pc = pc]
    BY <1>5 DEF OfferRoutes, ReplaceRoutes, AtViewer
  <2>2. pub'.pc \in {"snapshot", "routesFull"} /\ pub'.todo = pub.todo /\ pub'.at = pub.at
    BY <2>1 DEF Types, Pubs
  <2>3. QED
    BY <2>1, <2>2 DEF Awaits, Rendering, Round, AtViewer
<1>6. ASSUME NEW v \in Viewers, OfferSnapshot(v) \/ ReplaceSnapshot(v)
      PROVE  (Awaits(w) => w = v \/ Awaits(w)') /\ pub'.at = v
  <2>1. pub.pc \in AtViewer /\ pub.at = v /\ \E pc \in {"next", "snapshotFull"} : pub' = [pub EXCEPT !.pc = pc]
    BY <1>6 DEF OfferSnapshot, ReplaceSnapshot, AtViewer
  <2>2. pub'.pc \in {"next", "snapshotFull"} /\ pub'.todo = pub.todo /\ pub'.at = pub.at
    BY <2>1 DEF Types, Pubs
  <2>3. QED
    BY <2>1, <2>2 DEF Awaits, Rendering, Round, AtViewer
<1>7. QED
  BY <1>1, <1>2, <1>3, <1>4, <1>5, <1>6 DEF Awaits, Rendering, Round

LEMMA CountedStep ==
  ASSUME Types, Types', Rounds, [Next]_vars,
         \A v \in subscribers : Counted(v), NEW w \in subscribers'
  PROVE  Counted(w)'
<1>1. w \in Viewers /\ stalled[w] \in Nat /\ behind[w] \in Nat /\ MaxStalledTicks \in Nat
  BY PublisherAssumption DEF Types
<1>2. w \in subscribers => Counted(w)
  OBVIOUS
<1>3. ASSUME w \in subscribers, UNCHANGED <<stalled[w], behind[w]>>,
             snapshots'[w] # <<>> => snapshots[w] # <<>>, Awaits(w)' = Awaits(w),
             pub'.pc = "snapshotFull" /\ w = pub'.at => pub.pc = "snapshotFull" /\ w = pub.at
      PROVE  Counted(w)'
  BY <1>2, <1>3 DEF Counted
<1>4. CASE Quiet
  <2>1. w \in subscribers /\ UNCHANGED <<stalled, behind, snapshots, pub>>
    BY <1>4 DEF Quiet, slotVars, viewerVars
  <2>2. Awaits(w)' = Awaits(w)
    BY <2>1 DEF Awaits
  <2>3. QED
    BY <1>3, <2>1, <2>2
<1>5. CASE ReadStore
  <2>1. w \in subscribers /\ UNCHANGED <<stalled, snapshots>>
    BY <1>5 DEF ReadStore, slotVars
  <2>2. behind'[w] = IF snapshots[w] = <<>> THEN 0 ELSE behind[w] + 1
    BY <1>1, <1>5, <2>1 DEF ReadStore
  <2>3. Awaits(w)' /\ ~Awaits(w) /\ pub'.pc = "read"
    BY <1>1, <1>5, Awaiting DEF Types, Pubs, ReadStore
  <2>4. QED
    BY <1>1, <1>2, <2>1, <2>2, <2>3 DEF Counted
<1>6. CASE ReadLifecycle \/ RoutesIfChanged \/ Lock \/ EndRound
  <2>1. w \in subscribers /\ UNCHANGED <<stalled, behind, snapshots>>
    BY <1>6 DEF ReadLifecycle, RoutesIfChanged, Lock, EndRound, slotVars, viewerVars
  <2>2. (Awaits(w)' <=> Awaits(w)) /\ pub'.pc # "snapshotFull"
    BY <1>1, <1>6, <2>1, Awaiting, StillAwaiting
  <2>3. QED
    BY <1>2, <2>1, <2>2 DEF Counted
<1>7. CASE Stop
  BY <1>7 DEF Stop, Disconnect
<1>8. ASSUME NEW v \in Viewers, NextViewer(v) \/ OfferRoutes(v) \/ ReplaceRoutes(v) PROVE Counted(w)'
  <2>1. w \in subscribers /\ UNCHANGED <<stalled, behind, snapshots>>
    BY <1>8 DEF NextViewer, OfferRoutes, ReplaceRoutes, slotVars, viewerVars
  <2>2. (Awaits(w)' <=> Awaits(w)) /\ pub'.pc # "snapshotFull"
    BY <1>1, <1>8, <2>1, Awaiting, StillAwaiting
  <2>3. QED
    BY <1>2, <2>1, <2>2 DEF Counted
<1>9. ASSUME NEW v \in Viewers, OfferSnapshot(v) \/ ReplaceSnapshot(v), w # v PROVE Counted(w)'
  <2>1. w \in subscribers /\ UNCHANGED <<stalled[w], behind, snapshots[w]>>
    BY <1>1, <1>9 DEF Types, OfferSnapshot, ReplaceSnapshot, Disconnect
  <2>2. (Awaits(w)' <=> Awaits(w)) /\ pub'.at # w
    BY <1>1, <1>9, <2>1, Awaiting, StillAwaiting
  <2>3. QED
    BY <1>2, <2>1, <2>2 DEF Counted
<1>10. CASE OfferSnapshot(w)
  <2>1. w \in subscribers /\ UNCHANGED behind /\ Awaits(w)
    BY <1>1, <1>10, Awaiting DEF OfferSnapshot
  <2>2. CASE Room(snapshots[w])
    <3>1. stalled' = [stalled EXCEPT ![w] = 0] /\ pub' = [pub EXCEPT !.pc = "next"]
      BY <1>10, <2>2 DEF OfferSnapshot, Forgiven
    <3>2. stalled'[w] = 0 /\ pub'.pc = "next"
      BY <1>1, <3>1 DEF Types, Pubs
    <3>3. ~Awaits(w)'
      BY <1>1, <1>10, <3>2, Awaiting
    <3>4. QED
      BY <1>1, <2>1, <3>2, <3>3 DEF Counted
  <2>3. CASE ~Room(snapshots[w])
    <3>1. pub' = [pub EXCEPT !.pc = "snapshotFull"] /\ UNCHANGED <<snapshots, stalled>>
      BY <1>10, <2>3 DEF OfferSnapshot
    <3>2. pub'.pc = "snapshotFull" /\ pub'.at = w
      BY <1>10, <3>1 DEF Types, Pubs, OfferSnapshot
    <3>3. Awaits(w)'
      BY <3>2 DEF Awaits, AtViewer
    <3>4. snapshots[w] # <<>>
      BY <2>3, One DEF Room
    <3>5. QED
      BY <1>1, <1>2, <2>1, <3>1, <3>3, <3>4 DEF Counted
  <2>4. QED
    BY <2>2, <2>3
<1>11. CASE ReplaceSnapshot(w)
  <2>1. /\ w \in subscribers /\ UNCHANGED behind /\ pub.pc = "snapshotFull" /\ w = pub.at
        /\ stalled'[w] = stalled[w] + 1 /\ pub' = [pub EXCEPT !.pc = "next"]
        /\ stalled[w] + 1 <= MaxStalledTicks
    BY <1>1, <1>11 DEF Types, ReplaceSnapshot, Disconnect
  <2>2. pub'.pc = "next"
    BY <2>1 DEF Types, Pubs
  <2>3. ~Awaits(w)'
    BY <1>1, <1>11, <2>2, Awaiting
  <2>4. QED
    BY <1>1, <1>2, <2>1, <2>2, <2>3 DEF Counted
<1>12. CASE Subscribe(w)
  <2>1. /\ UNCHANGED <<stalled, behind, snapshots, pub>> /\ pub.pc # "snapshotFull"
        /\ handler[w] = "absent"
    BY <1>12 DEF Subscribe, Unlocked, slotVars
  <2>2. stalled[w] = 0 /\ behind[w] = 0 /\ snapshots[w] = <<>>
    BY <1>1, <2>1 DEF Rounds
  <2>3. QED
    BY <1>1, <2>1, <2>2 DEF Counted
<1>13. ASSUME NEW v \in Viewers,
              \/ v # w /\ Subscribe(v)
              \/ WriteFrame(v) \/ Flushed(v) \/ LoseClient(v) \/ TakeDone(v)
              \/ TakeRoutes(v) \/ TakeSnapshot(v) \/ DrainRoutes(v) \/ Unsubscribe(v)
      PROVE  Counted(w)'
  <2>1. w \in subscribers /\ UNCHANGED <<stalled, behind, pub>>
    BY <1>13 DEF Subscribe, WriteFrame, Flushed, LoseClient, TakeDone, TakeRoutes, TakeSnapshot,
                 DrainRoutes, Unsubscribe, viewerVars
  <2>2. snapshots'[w] # <<>> => snapshots[w] # <<>>
    <3>1. CASE TakeSnapshot(v)
      <4>1. v = w => snapshots[w] # <<>>
        BY <3>1 DEF TakeSnapshot
      <4>2. v # w => snapshots'[w] = snapshots[w]
        BY <1>1, <3>1 DEF Types, TakeSnapshot
      <4>3. QED
        BY <4>1, <4>2
    <3>2. CASE ~TakeSnapshot(v)
      BY <1>13, <3>2 DEF Subscribe, WriteFrame, Flushed, LoseClient, TakeDone, TakeRoutes,
                 DrainRoutes, Unsubscribe, slotVars
    <3>3. QED
      BY <3>1, <3>2
  <2>3. Awaits(w)' = Awaits(w)
    BY <2>1 DEF Awaits
  <2>4. QED
    BY <1>3, <2>1, <2>2, <2>3
<1>14. QED
  BY <1>1, <1>4, <1>5, <1>6, <1>7, <1>8, <1>9, <1>10, <1>11, <1>12, <1>13, Steps

LEMMA StallsStep ==
  Types /\ Types' /\ Rounds /\ ClosedOnce /\ Stalls /\ [Next]_vars => Stalls'
<1> SUFFICES ASSUME Types, Types', Rounds, ClosedOnce, Stalls, [Next]_vars PROVE Stalls'
  OBVIOUS
<1>0. /\ stalled \in [Viewers -> Nat] /\ behind \in [Viewers -> Nat] /\ pub.gen \in Nat
      /\ MaxStalledTicks \in Nat
  BY PublisherAssumption DEF Types
<1>1. \A v \in subscribers' : Counted(v)'
  BY CountedStep DEF Stalls
<1>2. UNCHANGED done => UNCHANGED Closed
  BY DEF Closed
<1>3. ASSUME UNCHANGED <<stalled, behind, done>>, pub'.gen = pub.gen, pub.pc = "stopped" => pub'.pc = "stopped"
      PROVE  Bounded' /\ Dropped'
  BY <1>2, <1>3 DEF Stalls, Bounded, Dropped
<1>4. ASSUME \/ Quiet \/ ReadLifecycle \/ RoutesIfChanged \/ Lock \/ EndRound
             \/ \E v \in Viewers : NextViewer(v) \/ OfferRoutes(v) \/ ReplaceRoutes(v)
                \/ Subscribe(v) \/ WriteFrame(v) \/ Flushed(v) \/ LoseClient(v) \/ TakeDone(v)
                \/ TakeRoutes(v) \/ TakeSnapshot(v) \/ DrainRoutes(v) \/ Unsubscribe(v)
      PROVE  Bounded' /\ Dropped'
  <2>1. UNCHANGED <<stalled, behind, done>>
    BY <1>4 DEF Quiet, ReadLifecycle, RoutesIfChanged, Lock, EndRound, NextViewer, OfferRoutes,
                ReplaceRoutes, Subscribe, WriteFrame, Flushed, LoseClient, TakeDone, TakeRoutes,
                TakeSnapshot, DrainRoutes, Unsubscribe, viewerVars
  <2>2. pub' = pub \/ (pub.pc # "stopped" /\ pub'.gen = pub.gen)
    <3>1. ReadLifecycle \/ RoutesIfChanged \/ Lock \/ EndRound => pub.pc # "stopped" /\ pub'.gen = pub.gen
      BY DEF Types, Pubs, ReadLifecycle, RoutesIfChanged, Lock, EndRound
    <3>2. \A v \in Viewers : NextViewer(v) => pub.pc # "stopped" /\ pub'.gen = pub.gen
      BY DEF Types, Pubs, NextViewer
    <3>3. ASSUME NEW v \in Viewers, OfferRoutes(v) \/ ReplaceRoutes(v)
          PROVE  pub.pc # "stopped" /\ pub'.gen = pub.gen
      <4>1. pub.pc # "stopped" /\ \E pc \in {"snapshot", "routesFull"} : pub' = [pub EXCEPT !.pc = pc]
        BY <3>3 DEF OfferRoutes, ReplaceRoutes
      <4>2. QED
        BY <4>1 DEF Types, Pubs
    <3>4. QED
      BY <1>4, <3>1, <3>2, <3>3 DEF Quiet, Subscribe, WriteFrame, Flushed, LoseClient, TakeDone,
                TakeRoutes, TakeSnapshot, DrainRoutes, Unsubscribe
  <2>3. QED
    BY <1>3, <2>1, <2>2
<1>5. ASSUME ReadStore PROVE Bounded' /\ Dropped'
  <2>1. pub'.gen = pub.gen + 1 /\ pub.pc # "stopped" /\ UNCHANGED <<stalled, done>>
    BY <1>5 DEF Types, Pubs, ReadStore
  <2>2. \A v \in Viewers : behind'[v] \in {0, behind[v], behind[v] + 1}
    BY <1>5 DEF ReadStore
  <2>3. \A v \in Closed : behind'[v] = behind[v]
    BY <1>5 DEF ReadStore, ClosedOnce, Closed
  <2>4. Bounded'
    BY <1>0, <2>1, <2>2 DEF Stalls, Bounded
  <2>5. Dropped'
    BY <1>2, <2>1, <2>3 DEF Stalls, Dropped
  <2>6. QED
    BY <2>4, <2>5
<1>6. ASSUME Stop PROVE Bounded' /\ Dropped'
  BY <1>6 DEF Types, Pubs, Stop, Stalls, Bounded, Dropped
<1>7. ASSUME NEW v \in Viewers, OfferSnapshot(v) PROVE Bounded' /\ Dropped'
  <2>1. pub.pc # "stopped" /\ UNCHANGED <<behind, done>>
        /\ \E pc \in {"next", "snapshotFull"} : pub' = [pub EXCEPT !.pc = pc]
    BY <1>7 DEF OfferSnapshot
  <2>2. stalled' = stalled \/ stalled' = [stalled EXCEPT ![v] = 0]
    BY <1>7 DEF OfferSnapshot, Forgiven
  <2>3. pub'.gen = pub.gen
    BY <2>1 DEF Types, Pubs
  <2>4. Bounded'
    BY <1>0, <2>1, <2>2, <2>3 DEF Stalls, Bounded
  <2>5. Dropped'
    BY <1>2, <2>1 DEF Stalls, Dropped
  <2>6. QED
    BY <2>4, <2>5
<1>8. ASSUME NEW v \in Viewers, ReplaceSnapshot(v) PROVE Bounded' /\ Dropped'
  <2>1. /\ pub.pc = "snapshotFull" /\ v = pub.at /\ UNCHANGED behind
        /\ pub' = [pub EXCEPT !.pc = "next"] /\ stalled' = [stalled EXCEPT ![v] = stalled[v] + 1]
    BY <1>0, <1>8 DEF ReplaceSnapshot
  <2>2. pub'.gen = pub.gen
    BY <2>1 DEF Types, Pubs
  <2>3. stalled[v] <= MaxStalledTicks /\ stalled[v] < behind[v]
    BY <2>1 DEF Rounds, AtViewer, Stalls, Counted
  <2>4. Bounded'
    BY <1>0, <2>1, <2>2, <2>3 DEF Stalls, Bounded
  <2>5. Closed' \subseteq Closed \cup (IF stalled[v] + 1 > MaxStalledTicks THEN {v} ELSE {})
    <3>1. done' = [x \in Viewers |-> done[x] \/ x \in (IF stalled[v] + 1 > MaxStalledTicks THEN {v} ELSE {})]
      BY <1>8 DEF ReplaceSnapshot, Disconnect
    <3>2. QED
      BY <3>1, Zenon DEF Closed
  <2>6. Dropped'
    BY <1>0, <2>1, <2>3, <2>5 DEF Stalls, Dropped
  <2>7. QED
    BY <2>4, <2>6
<1>9. QED
  BY <1>1, <1>4, <1>5, <1>6, <1>7, <1>8, Steps DEF Stalls

---------------------------------------------------------------------------
(* What is overdue. *)

LEMMA OverdueStep ==
  Types /\ Types' /\ Rounds /\ Snapshots /\ Overdue /\ [Next]_vars => Overdue'
<1> SUFFICES ASSUME Types, Types', Rounds, Snapshots, Overdue, [Next]_vars,
                    NEW w \in subscribers', handler'[w] # "leaving"
             PROVE  Reckoned(w)'
  BY DEF Overdue
<1>1. /\ w \in Viewers /\ pub.gen \in Nat
      /\ stalled[w] \in Nat /\ behind[w] \in Nat
  BY DEF Types
<1>2. /\ Taken(w).gen \in Nat /\ Offered(w) \in Int
      /\ snapshots[w] # <<>> => snapshots[w][1].gen \in Nat
  BY <1>1, FramesOfViewer DEF Offered
<1>3. w \in subscribers /\ handler[w] # "leaving" => Reckoned(w)
  BY DEF Overdue
<1>4. InOrder(w)
  BY <1>1 DEF Snapshots
<1>5. UNCHANGED <<hand[w], shown[w]>> => Taken(w)' = Taken(w)
  BY DEF Taken, HoldsSnapshot
<1>6. ASSUME w \in subscribers, handler[w] # "leaving", pub'.gen = pub.gen,
             UNCHANGED <<snapshots[w], stalled[w], behind[w]>>,
             Taken(w)' = Taken(w), Awaits(w)' <=> Awaits(w)
      PROVE  Reckoned(w)'
  <2>1. Offered(w)' = Offered(w)
    BY <1>6 DEF Offered
  <2>2. QED
    BY <1>3, <1>6, <2>1 DEF Reckoned
<1>7. CASE Quiet
  <2>1. UNCHANGED <<pub, snapshots, stalled, behind, subscribers, handler, hand, shown>>
    BY <1>7 DEF Quiet, slotVars, handlerVars, clientVars, viewerVars
  <2>2. Awaits(w)' <=> Awaits(w)
    BY <2>1 DEF Awaits
  <2>3. QED
    BY <1>5, <1>6, <2>1, <2>2
<1>8. CASE ReadStore
  <2>1. UNCHANGED <<snapshots, stalled, subscribers, handler, hand, shown>>
    BY <1>8 DEF ReadStore, slotVars, handlerVars, clientVars
  <2>2. behind'[w] = IF snapshots[w] = <<>> THEN 0 ELSE behind[w] + 1
    BY <1>1, <1>8, <2>1 DEF ReadStore
  <2>3. Awaits(w)' /\ ~Awaits(w) /\ Offered(w)' = Offered(w)
    BY <1>1, <1>8, Awaiting DEF Offered
  <2>4. QED
    BY <1>1, <1>2, <1>3, <1>5, <2>1, <2>2, <2>3 DEF Reckoned
<1>9. CASE ReadLifecycle \/ RoutesIfChanged \/ Lock \/ EndRound
  <2>1. UNCHANGED <<snapshots, stalled, behind, subscribers, handler, hand, shown>>
    BY <1>9 DEF ReadLifecycle, RoutesIfChanged, Lock, EndRound, slotVars, handlerVars, clientVars, viewerVars
  <2>2. pub'.gen = pub.gen /\ (Awaits(w)' <=> Awaits(w))
    BY <1>1, <1>9, <2>1, Awaiting, StillAwaiting
  <2>3. QED
    BY <1>5, <1>6, <2>1, <2>2
<1>10. CASE Stop
  BY <1>10 DEF Stop, Disconnect
<1>11. ASSUME NEW v \in Viewers, NextViewer(v) \/ OfferRoutes(v) \/ ReplaceRoutes(v)
       PROVE  Reckoned(w)'
  <2>1. UNCHANGED <<snapshots, stalled, behind, subscribers, handler, hand, shown>>
    BY <1>11 DEF NextViewer, OfferRoutes, ReplaceRoutes, slotVars, handlerVars, clientVars, viewerVars
  <2>2. pub'.gen = pub.gen /\ (Awaits(w)' <=> Awaits(w))
    BY <1>1, <1>11, <2>1, Awaiting, StillAwaiting
  <2>3. QED
    BY <1>5, <1>6, <2>1, <2>2
<1>12. ASSUME NEW v \in Viewers, OfferSnapshot(v) \/ ReplaceSnapshot(v), w # v
       PROVE  Reckoned(w)'
  <2>1. /\ w \in subscribers
        /\ UNCHANGED <<snapshots[w], stalled[w], behind, handler, hand, shown>>
    BY <1>1, <1>12 DEF Types, OfferSnapshot, ReplaceSnapshot, Disconnect, handlerVars, clientVars
  <2>2. pub'.gen = pub.gen /\ (Awaits(w)' <=> Awaits(w))
    BY <1>1, <1>12, <2>1, Awaiting, StillAwaiting
  <2>3. QED
    BY <1>5, <1>6, <2>1, <2>2
<1>13. ASSUME OfferSnapshot(w) \/ ReplaceSnapshot(w), snapshots'[w] = <<Frame>>, pub'.pc = "next",
              behind'[w] = behind[w], handler[w] # "leaving", w \in subscribers,
              \/ snapshots[w] = <<>> /\ stalled'[w] = 0
              \/ stalled'[w] = stalled[w] + 1,
              Taken(w)' = Taken(w)
       PROVE  Reckoned(w)'
  <2>1. pub'.gen = pub.gen /\ Awaits(w) /\ ~Awaits(w)'
    BY <1>1, <1>13, Awaiting
  <2>2. Offered(w) = pub.gen - 1 /\ Offered(w)' = pub.gen
    BY <2>1 DEF Offered
  <2>3. snapshots'[w] # <<>> /\ snapshots'[w][1].gen = pub.gen
    BY <1>13, One DEF Frame, Snapshot
  <2>4. Reckoned(w)
    BY <1>3, <1>13
  <2>5. stalled'[w] \in Nat
    BY <1>1, <1>13
  <2>6. Taken(w).gen > 0 => pub.gen - Taken(w).gen <= stalled'[w] + 1
    BY <1>1, <1>2, <1>13, <2>2, <2>4 DEF Reckoned
  <2>7. Taken(w).gen = 0 => behind[w] <= stalled'[w]
    BY <1>1, <1>13, <2>1, <2>4 DEF Reckoned
  <2>8. QED
    BY <1>1, <1>2, <1>13, <2>1, <2>2, <2>3, <2>5, <2>6, <2>7 DEF Reckoned
<1>14. CASE OfferSnapshot(w) \/ ReplaceSnapshot(w)
  <2>1. UNCHANGED <<behind, handler, hand, shown>> /\ w \in subscribers
    BY <1>14 DEF OfferSnapshot, ReplaceSnapshot, Disconnect, handlerVars, clientVars
  <2>2. Taken(w)' = Taken(w)
    BY <1>5, <2>1
  <2>3. CASE OfferSnapshot(w) /\ Room(snapshots[w])
    <3>1. snapshots[w] = <<>>
      BY <1>1, <2>3, One DEF Types, Slot, Room
    <3>2. /\ snapshots' = [snapshots EXCEPT ![w] = <<Frame>>]
          /\ stalled' = [stalled EXCEPT ![w] = 0] /\ pub' = [pub EXCEPT !.pc = "next"]
      BY <2>3, <3>1, One DEF Types, OfferSnapshot, Forgiven
    <3>3. snapshots'[w] = <<Frame>> /\ stalled'[w] = 0 /\ pub'.pc = "next"
      BY <1>1, <3>2 DEF Types, Pubs
    <3>4. QED
      BY <1>13, <2>1, <2>2, <2>3, <3>1, <3>3
  <2>4. CASE OfferSnapshot(w) /\ ~Room(snapshots[w])
    <3>1. pub' = [pub EXCEPT !.pc = "snapshotFull"] /\ UNCHANGED <<snapshots, stalled>>
      BY <2>4 DEF OfferSnapshot
    <3>2. pub'.pc = "snapshotFull" /\ pub'.at = w
      BY <2>4, <3>1 DEF Types, Pubs, OfferSnapshot
    <3>3. Awaits(w)' /\ Awaits(w) /\ pub'.gen = pub.gen
      BY <1>1, <1>14, <3>2, Awaiting DEF Awaits, AtViewer
    <3>4. QED
      BY <1>6, <2>1, <2>2, <3>1, <3>3
  <2>5. CASE ReplaceSnapshot(w)
    <3>1. /\ snapshots' = [snapshots EXCEPT ![w] = <<Frame>>]
          /\ stalled' = [stalled EXCEPT ![w] = stalled[w] + 1] /\ pub' = [pub EXCEPT !.pc = "next"]
      BY <1>1, <2>5, One DEF ReplaceSnapshot, Drained, Types
    <3>2. snapshots'[w] = <<Frame>> /\ stalled'[w] = stalled[w] + 1 /\ pub'.pc = "next"
      BY <1>1, <3>1 DEF Types, Pubs
    <3>3. QED
      BY <1>13, <2>1, <2>2, <2>5, <3>2
  <2>6. QED
    BY <1>14, <2>3, <2>4, <2>5
<1>15. CASE Subscribe(w)
  <2>1. /\ UNCHANGED <<stalled, behind, snapshots, shown>> /\ handler[w] = "absent"
    BY <1>15 DEF Subscribe, slotVars, clientVars
  <2>2. behind[w] = 0 /\ snapshots[w] = <<>> /\ shown[w].gen = 0 /\ hand[w] = <<>>
    BY <1>1, <2>1 DEF Rounds, Types
  <2>3. Taken(w)' = Taken(w) /\ Taken(w).gen = 0
    BY <1>1, <1>15, <2>2, Moves DEF Taken, HoldsSnapshot
  <2>4. QED
    BY <2>1, <2>2, <2>3 DEF Reckoned
<1>16. CASE TakeSnapshot(w)
  <2>1. /\ UNCHANGED <<pub, stalled, behind, subscribers>> /\ handler[w] # "leaving"
    BY <1>16 DEF TakeSnapshot, viewerVars
  <2>2. Reckoned(w) /\ Offered(w)' = Offered(w)
    BY <1>3, <2>1 DEF Offered, Awaits
  <2>3. snapshots[w] # <<>> /\ Taken(w)' = snapshots[w][1] /\ snapshots'[w] = <<>>
    BY <1>1, <1>16, Moves
  <2>4. snapshots[w][1].gen = Offered(w) /\ Taken(w)'.gen > 0
    BY <1>2, <1>4, <2>2, <2>3 DEF Reckoned, InOrder
  <2>5. QED
    BY <2>2, <2>3, <2>4 DEF Reckoned
<1>17. ASSUME NEW v \in Viewers,
              \/ v # w /\ (Subscribe(v) \/ TakeSnapshot(v))
              \/ WriteFrame(v) \/ Flushed(v) \/ LoseClient(v) \/ TakeDone(v)
              \/ TakeRoutes(v) \/ DrainRoutes(v) \/ Unsubscribe(v)
       PROVE  Reckoned(w)'
  <2>1. w \in subscribers /\ UNCHANGED <<stalled, behind, pub, snapshots[w]>>
    BY <1>1, <1>17 DEF Types, Subscribe, WriteFrame, Flushed, LoseClient, TakeDone, TakeRoutes,
                 TakeSnapshot, DrainRoutes, Unsubscribe, viewerVars, slotVars
  <2>2. Awaits(w)' <=> Awaits(w)
    BY <2>1 DEF Awaits
  <2>3. v = w => ~LoseClient(v) /\ ~TakeDone(v) /\ ~Unsubscribe(v)
    BY <1>1, <2>1 DEF Types, LoseClient, TakeDone, Unsubscribe
  <2>4. handler[w] # "leaving"
    <3>1. CASE v = w
      BY <1>17, <2>3, <3>1 DEF WriteFrame, Flushed, TakeRoutes, DrainRoutes
    <3>2. CASE v # w
      BY <1>1, <1>17, <3>2 DEF Types, Subscribe, WriteFrame, Flushed, LoseClient, TakeDone, TakeRoutes,
                 TakeSnapshot, DrainRoutes, Unsubscribe
    <3>3. QED
      BY <3>1, <3>2
  <2>5. Taken(w)' = Taken(w)
    <3>1. CASE v = w /\ ~Flushed(v)
      BY <1>1, <1>17, <2>3, <3>1, Moves
    <3>2. CASE v # w \/ Flushed(v)
      <4>1. UNCHANGED <<hand[w], shown[w]>>
        BY <1>1, <1>17, <3>2 DEF Types, Subscribe, WriteFrame, Flushed, LoseClient, TakeDone, TakeRoutes,
                 TakeSnapshot, DrainRoutes, Unsubscribe, clientVars
      <4>2. QED
        BY <1>5, <4>1
    <3>3. QED
      BY <3>1, <3>2
  <2>6. QED
    BY <1>6, <2>1, <2>2, <2>4, <2>5
<1>18. QED
  BY <1>7, <1>8, <1>9, <1>10, <1>11, <1>12, <1>14, <1>15, <1>16, <1>17, Steps

---------------------------------------------------------------------------
(* The theorems. *)

\* The inductive invariant.
IInv == /\ Types /\ Rounds /\ ClosedOnce
        /\ Snapshots /\ Rendered /\ Geometry /\ Drawing /\ Stalls /\ Overdue

LEMMA IInvInit == Init => IInv
<1> SUFFICES ASSUME Init PROVE IInv
  OBVIOUS
<1>1. Types
  BY TypesInit
<1>2. Rounds
  BY DEF Init, Rounds, Round, AtViewer, Snapshot, Routes
<1>3. Closed = {}
  BY DEF Init, Closed
<1>4. /\ pub.gen = 0 /\ pub.pc = "idle" /\ published = Routes(0, {}) /\ subscribers = {}
      /\ \A v \in Viewers :
           /\ hand[v] = <<>> /\ snapshots[v] = <<>> /\ routes[v] = <<>>
           /\ shown[v].gen = 0 /\ drawn[v].gen = 0
           /\ stalled[v] = 0 /\ behind[v] = 0
  BY DEF Init, Snapshot, Routes
<1>5. \A v \in Viewers : ~Awaits(v) /\ ~HoldsSnapshot(v) /\ Taken(v).gen = 0 /\ LastRoutes(v).gen = 0 /\ Drawable(v).gen = 0
  BY <1>4 DEF Awaits, Rendering, Round, AtViewer, HoldsSnapshot, Taken, LastRoutes, Drawable
<1>6. Snapshots
  BY <1>4, <1>5 DEF Snapshots, InOrder, Offered
<1>7. Rendered /\ Geometry
  BY <1>4, <1>5 DEF Rendered, Rendering, Round, AtViewer, Routes, Geometry, DrawnInOrder
<1>8. Drawing /\ Stalls /\ Overdue /\ ClosedOnce
  BY <1>3, <1>4, PublisherAssumption DEF Drawing, Stalls, Bounded, Dropped, Overdue, ClosedOnce
<1>9. QED
  BY <1>1, <1>2, <1>6, <1>7, <1>8 DEF IInv

LEMMA IInvStep == IInv /\ [Next]_vars => IInv'
<1> SUFFICES ASSUME IInv, [Next]_vars PROVE IInv'
  OBVIOUS
<1>1. Types'
  BY TypesStep DEF IInv
<1>2. Rounds' /\ ClosedOnce' /\ Snapshots'
  BY RoundsStep, ClosedOnceStep, SnapshotsStep DEF IInv
<1>3. Rendered' /\ Geometry' /\ Drawing'
  BY <1>1, RenderedStep, GeometryStep, DrawingStep DEF IInv
<1>4. Stalls' /\ Overdue'
  BY <1>1, StallsStep, OverdueStep DEF IInv
<1>5. QED
  BY <1>1, <1>2, <1>3, <1>4 DEF IInv

LEMMA Invariance == Spec => []IInv
<1>1. QED
  BY IInvInit, IInvStep, PTL DEF Spec

\* Every variable keeps its type, and the two channels of a viewer never hold
\* more than the one frame they have room for: the publisher's drain and send
\* (offer, publisher.go) never overfills them and never blocks.
THEOREM TypeCorrect == Spec => []TypeOK
<1>1. IInv => TypeOK
  <2> SUFFICES ASSUME IInv PROVE TypeOK
    OBVIOUS
  <2> USE PublisherAssumption
  <2>1. Types /\ Bounded
    BY DEF IInv, Stalls
  <2>2. ASSUME NEW v \in Viewers
        PROVE  /\ Len(snapshots[v]) <= 1 /\ \A i \in DOMAIN snapshots[v] : snapshots[v][i] \in SnapshotFrames
               /\ Len(routes[v]) <= 1 /\ \A i \in DOMAIN routes[v] : routes[v][i] \in RouteFrames
    <3>1. snapshots[v] = <<>> \/ \E s \in SnapshotFrames : snapshots[v] = <<s>>
      BY <2>1 DEF Types, Slot
    <3>2. routes[v] = <<>> \/ \E r \in RouteFrames : routes[v] = <<r>>
      BY <2>1 DEF Types, Slot
    <3>3. Len(snapshots[v]) <= 1 /\ \A i \in DOMAIN snapshots[v] : snapshots[v][i] \in SnapshotFrames
      BY <3>1, AtMostOne
    <3>4. Len(routes[v]) <= 1 /\ \A i \in DOMAIN routes[v] : routes[v][i] \in RouteFrames
      BY <3>2, AtMostOne
    <3>5. QED
      BY <3>3, <3>4
  <2>3. ASSUME NEW v \in Viewers
        PROVE  stalled[v] \in 0..(MaxStalledTicks + 1) /\ behind[v] \in 0..MaxTicks
    BY <2>1 DEF Types, Bounded
  <2>4. ASSUME NEW v \in Viewers
        PROVE  /\ handler[v] \in {"absent", "writing", "select", "draining", "leaving", "gone"}
               /\ shown[v] \in SnapshotFrames /\ drawn[v] \in RouteFrames
               /\ given[v] \subseteq RouteIds
    BY <2>1 DEF Types, Handlers
  <2>5. \A v \in Viewers : done[v] \in BOOLEAN
    BY <2>1 DEF Types
  <2>6. /\ fleet \subseteq Vehicles /\ enRoute \subseteq issued /\ issued \subseteq RouteIds
        /\ lifecycle \in {"STARTING", "READY"} /\ published \in RouteFrames /\ subscribers \subseteq Viewers
        /\ pub.gen \in 0..MaxTicks /\ pub.todo \subseteq Viewers /\ pub.at \in Viewers \cup {Nobody}
    BY <2>1 DEF Types, Lifecycles, Pubs
  <2>7. cancelled \in BOOLEAN
    BY <2>1 DEF Types
  <2>8. QED
    BY <2>2, <2>3, <2>4, <2>5, <2>6, <2>7, Zenon DEF TypeOK
<1>2. QED
  BY <1>1, Invariance, PTL

\* No viewer's done channel is closed twice, which would panic: neither a viewer
\* that lags and then goes away, nor one that lags and then meets the shutdown
\* (disconnect and closeAll, publisher.go), whatever the order of the three.
THEOREM ClosedAtMostOnce == Spec => []NeverClosedTwice
<1>1. IInv => NeverClosedTwice
  BY DEF IInv, Types, ClosedOnce, Closed, NeverClosedTwice
<1>2. QED
  BY <1>1, Invariance, PTL

\* No client is ever taken back in time, although pending frames are replaced,
\* snapshots and routes travel by channels of their own, and the handler that
\* finds both pending chooses either (Publish, offer and Stream).
THEOREM ForwardOnly == Spec => ClientMovesForward
<1>1. IInv /\ [Next]_vars =>
        [\A v \in Viewers : WriteFrame(v) =>
           LET f == Head(hand[v])
           IN  IF f.kind = "snapshot" THEN f.gen > shown[v].gen ELSE f.gen >= drawn[v].gen]_vars
  <2> SUFFICES ASSUME IInv, NEW v \in Viewers, WriteFrame(v)
               PROVE  IF Head(hand[v]).kind = "snapshot" THEN Head(hand[v]).gen > shown[v].gen
                      ELSE Head(hand[v]).gen >= drawn[v].gen
    OBVIOUS
  <2>1. Types /\ InOrder(v) /\ DrawnInOrder(v)
    BY DEF IInv, Snapshots, Geometry
  <2>2. /\ Taken(v).gen \in Nat /\ shown[v].gen \in Nat
        /\ Drawable(v).gen \in Nat /\ drawn[v].gen \in Nat
    BY <2>1, FramesOfViewer
  <2>3. CASE Head(hand[v]).kind = "routes"
    <3>1. Head(hand[v]) = Drawable(v)
      BY <2>1, <2>3, Moves
    <3>2. QED
      BY <2>1, <2>2, <2>3, <3>1 DEF DrawnInOrder
  <2>4. CASE Head(hand[v]).kind # "routes"
    <3>1. HoldsSnapshot(v) /\ Head(hand[v]) = Taken(v)
      BY <2>1, <2>4, Moves
    <3>2. Taken(v).kind = "snapshot"
      BY <3>1 DEF HoldsSnapshot, Taken
    <3>3. QED
      BY <2>1, <2>2, <3>1, <3>2 DEF InOrder
  <2>5. QED
    BY <2>3, <2>4
<1>2. QED
  BY <1>1, Invariance, PTL DEF Spec, ClientMovesForward

\* A listed viewer with nothing pending, in hand or owed draws exactly the routes
\* last published, although a route frame is sent only when the set changes, may
\* replace one still pending, and may be joined halfway (routesIfChanged and
\* subscribe, publisher.go).
THEOREM SettledViewersAreUpToDate == Spec => []SettledViewerHasPublishedRoutes
<1>1. IInv => SettledViewerHasPublishedRoutes
  <2> SUFFICES ASSUME IInv, NEW v \in subscribers,
                      handler[v] = "select" /\ routes[v] = <<>> /\ ~OwedRoutes(v)
               PROVE  drawn[v].ids = published.ids
    BY DEF SettledViewerHasPublishedRoutes
  <2>1. hand[v] = <<>> /\ UpToDate(v)
    BY DEF IInv, Types, Drawing
  <2>2. LastRoutes(v) = drawn[v]
    BY <2>1 DEF LastRoutes, Drawable
  <2>3. QED
    BY <2>1, <2>2 DEF UpToDate
<1>2. QED
  BY <1>1, Invariance, PTL

\* A viewer whose stalls have run up to the limit was behind at each of that
\* many ticks running: one tick met in time clears the account, so a client that
\* keeps up is never dropped; and one that takes nothing any more is off the list
\* once it has let the limit pass (the stalled counter of Publish, publisher.go).
THEOREM LaggardsOnly == Spec => []OnlyLaggardsAreDropped
<1>1. IInv => OnlyLaggardsAreDropped
  <2> SUFFICES ASSUME IInv, NEW v \in Viewers
               PROVE  /\ v \in subscribers /\ pub.pc = "idle" => stalled[v] <= behind[v]
                      /\ done[v] /\ pub.pc # "stopped" => behind[v] > MaxStalledTicks
                      /\ v \in subscribers /\ pub.pc = "idle" /\ handler[v] # "leaving" =>
                           LetPass(v) <= MaxStalledTicks
    BY DEF OnlyLaggardsAreDropped
  <2>1. ASSUME v \in subscribers, pub.pc = "idle" PROVE stalled[v] <= behind[v]
    BY <2>1 DEF IInv, Stalls, Counted, Awaits, Rendering, Round, AtViewer
  <2>2. ASSUME done[v], pub.pc # "stopped" PROVE behind[v] > MaxStalledTicks
    <3>1. v \in Closed
      BY <2>2 DEF Closed
    <3>2. QED
      BY <2>2, <3>1 DEF IInv, Stalls, Dropped
  <2>3. ASSUME v \in subscribers, pub.pc = "idle", handler[v] # "leaving"
        PROVE  LetPass(v) <= MaxStalledTicks
    <3>1. Reckoned(v) /\ stalled[v] <= MaxStalledTicks
      BY <2>3 DEF IInv, Overdue, Stalls, Counted
    <3>2. ~Awaits(v) /\ Offered(v) = pub.gen
      BY <2>3 DEF Awaits, Offered, Rendering, Round, AtViewer
    <3>3. /\ Taken(v).gen \in Nat /\ pub.gen \in Nat /\ stalled[v] \in Nat
          /\ behind[v] \in Nat /\ MaxStalledTicks \in Nat
      BY FramesOfViewer, PublisherAssumption DEF IInv, Types
    <3>4. QED
      BY <3>1, <3>2, <3>3 DEF Reckoned, LetPass
  <2>4. QED
    BY <2>1, <2>2, <2>3
<1>2. QED
  BY <1>1, Invariance, PTL

=============================================================================
