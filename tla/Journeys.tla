------------------------------ MODULE Journeys ------------------------------
(***************************************************************************)
(* A vehicle's journeys over the generated road network: the network       *)
(* loaded (sim/graph.go), the search that plans a journey with the binary  *)
(* heap it is written with, and the roads driven point by point            *)
(* (sim/vehicle.go).  When a journey is given out is Simulator's concern   *)
(* and any time here, as is where a random choice falls.                   *)
(*                                                                         *)
(* One road, one entry of the heap or one point of a road's shape is a     *)
(* step.  A place is <<p>> at the point p and <<p, q>> somewhere between   *)
(* the points p and q.                                                     *)
(***************************************************************************)
EXTENDS Roadgen

CONSTANTS Extracts,         \* what OpenStreetMap may answer
          Metres(_, _),     \* metresBetween
          TripMin, TripMax, \* TripMinMetres, TripMaxMetres
          NoLink            \* an arrival by no road

Infinite == -1 \* math.Inf(1)

VARIABLES extract, network, \* where the network comes from; neither changes,
          graph,            \* nor does what is made of it
          leg, node, at, path,
          geometry,         \* the route the operator is shown, or NoRoute
          purpose,          \* what the plan under way is for, or "nothing"
          tries,            \* the calls of Path it may still come to
          call,             \* the one under way
          phase, distance, arrival, settled, queue, nearest, todo \* reachable

world   == <<extract, network, graph>>
vehicle == <<leg, node, at, path, geometry>>
search  == <<call, phase, distance, arrival, settled, queue, nearest, todo>>
vars    == <<world, vehicle, purpose, tries, search>>

---------------------------------------------------------------------------
(* mustLoadGraph *)

\* How far it is along a sequence of points.
Along(points) ==
  LET upTo[i \in DOMAIN points] ==
        IF i = 1 THEN 0 ELSE upTo[i - 1] + Metres(points[i - 1], points[i])
  IN  upTo[Len(points)]

\* The checks the network must pass.
Loadable(n) ==
  /\ n.positions # <<>> /\ n.roads # <<>>
  /\ \A r \in ToSet(n.roads) :
       {r.a, r.b} \subseteq DOMAIN n.positions /\ r.name \in DOMAIN n.names
  /\ \E i \in DOMAIN n.positions : Geo!Contains(ServiceArea, Place[n.positions[i]])
  /\ \E i \in DOMAIN n.positions : ~Geo!Contains(ServiceArea, Place[n.positions[i]])

\* Mutant: a road is as long as it is straight from end to end.
LinkStraight(n, i, forward) ==
  LET r == n.roads[i]
  IN  [road    |-> i,
       forward |-> forward,
       from    |-> IF forward THEN r.a ELSE r.b,
       to      |-> IF forward THEN r.b ELSE r.a,
       metres  |-> Along(<<n.positions[r.a], n.positions[r.b]>>)]

Link(n, i, forward) ==
  LET r == n.roads[i]
  IN  [road    |-> i,
       forward |-> forward,
       from    |-> IF forward THEN r.a ELSE r.b,
       to      |-> IF forward THEN r.b ELSE r.a,
       metres  |-> Along(<<n.positions[r.a]>> \o r.via \o <<n.positions[r.b]>>)]

\* The roads of a network, in every direction they may be driven in.
Links(n) ==
  {Link(n, i, TRUE) : i \in DOMAIN n.roads}
    \cup {Link(n, i, FALSE) : i \in {x \in DOMAIN n.roads : ~n.roads[x].oneway}}

\* The roads that can be driven out of an intersection.
Leaving(n, k) ==
  FlattenSeq([i \in DOMAIN n.roads |->
    (IF n.roads[i].a = k THEN <<Link(n, i, TRUE)>> ELSE <<>>)
      \o (IF n.roads[i].b = k /\ ~n.roads[i].oneway THEN <<Link(n, i, FALSE)>> ELSE <<>>)])

Load(n) ==
  LET inside == {k \in DOMAIN n.positions : Geo!Contains(ServiceArea, Place[n.positions[k]])}
  IN  [positions |-> n.positions,
       via       |-> [i \in DOMAIN n.roads |-> n.roads[i].via],
       leaving   |-> [k \in DOMAIN n.positions |-> Leaving(n, k)],
       inside    |-> inside,
       outside   |-> DOMAIN n.positions \ inside]

Nodes == DOMAIN graph.positions

\* Distances are symmetric (metresBetween).
ASSUME JourneysAssumption ==
  /\ Extracts \subseteq Seq(Elements)
  /\ \A p, q \in DOMAIN Place : Metres(p, q) \in Nat /\ Metres(p, q) = Metres(q, p)
  /\ {TripMin, TripMax} \subseteq Nat
  /\ NoLink \notin [road : Nat, forward : BOOLEAN, from : Nat, to : Nat, metres : Nat]

---------------------------------------------------------------------------
(* The heap: a sequence in which no entry is nearer than its parent. *)

Entry(n, metres) == [node |-> n, metres |-> metres]

Swap(q, i, j) == [q EXCEPT ![i] = q[j], ![j] = q[i]]

Heaps == Seq([node : Nat, metres : Nat])

\* An entry rises until its parent is as near.
SiftUp[s \in Heaps \X Nat] ==
  LET q      == s[1]
      child  == s[2]
      parent == child \div 2
  IN  IF child \notin 2..Len(q) \/ q[parent].metres <= q[child].metres THEN q
      ELSE SiftUp[<<Swap(q, parent, child), parent>>]

Push(q, e) == SiftUp[<<Append(q, e), Len(q) + 1>>]

Nearer(q, parent) ==
  {c \in {2 * parent, 2 * parent + 1} \cap DOMAIN q : q[c].metres < q[parent].metres}

\* Mutant: the left child is always the one that moves up.
LeftChild(q, parent) == Min(Nearer(q, parent))

\* The child that moves up: the nearest, the left one of two.
Smallest(q, parent) ==
  CHOOSE c \in Nearer(q, parent) :
    \A d \in Nearer(q, parent) :
      q[c].metres < q[d].metres \/ (q[c].metres = q[d].metres /\ c <= d)

\* An entry sinks until no child is nearer.
SiftDown[s \in Heaps \X (Nat \ {0})] ==
  LET q      == s[1]
      parent == s[2]
      child  == Smallest(q, parent)
  IN  IF Nearer(q, parent) = {} THEN q
      ELSE SiftDown[<<Swap(q, parent, child), child>>]

\* What is left once the first entry is taken.
Pop(q) == SiftDown[<<Front(Swap(q, 1, Len(q))), 1>>]

---------------------------------------------------------------------------
(* reachable *)

NoCall == [from |-> 1, within |-> {}, low |-> 0, high |-> 0]

Unreached == [n \in Nodes |-> Infinite]

ByNoRoad == [n \in Nodes |-> NoLink]

Idle ==
  /\ call = NoCall /\ phase = "idle"
  /\ distance = Unreached /\ arrival = ByNoRoad
  /\ settled = {} /\ queue = <<>> /\ nearest = Entry(1, 0) /\ todo = <<>>

\* What a call worked with is gone once its answer has been used.
Return ==
  /\ call' = NoCall /\ phase' = "idle"
  /\ distance' = Unreached /\ arrival' = ByNoRoad
  /\ settled' = {} /\ queue' = <<>> /\ nearest' = Entry(1, 0) /\ todo' = <<>>

\* Path is called, and calls reachable.
Begin ==
  /\ phase = "idle" /\ tries # <<>>
  /\ call' = Head(tries)
  /\ tries' = Tail(tries)
  /\ phase' = "choosing"
  /\ distance' = [distance EXCEPT ![call'.from] = 0]
  /\ queue' = Push(<<>>, Entry(call'.from, 0))
  /\ nearest' = Entry(call'.from, 0)
  /\ UNCHANGED <<world, vehicle, purpose, arrival, settled, todo>>

Choosing == phase = "choosing" /\ todo = <<>>

Beyond(metres) == call.high # Infinite /\ metres > call.high

\* An entry left behind by an improvement.
Skip ==
  /\ Choosing /\ queue # <<>> /\ queue[1].node \in settled
  /\ queue' = Pop(queue)
  /\ UNCHANGED <<world, vehicle, purpose, tries, call, phase, distance, arrival,
                 settled, nearest, todo>>

Settle ==
  /\ Choosing /\ queue # <<>>
  /\ queue[1].node \notin settled /\ ~Beyond(queue[1].metres)
  /\ settled' = settled \cup {queue[1].node}
  /\ nearest' = queue[1]
  /\ todo' = graph.leaving[queue[1].node]
  /\ queue' = Pop(queue)
  /\ UNCHANGED <<world, vehicle, purpose, tries, call, phase, distance, arrival>>

Through(l) == nearest.metres + l.metres

Improves(l) == distance[l.to] # Infinite => Through(l) < distance[l.to]

Improve ==
  /\ phase = "choosing" /\ todo # <<>> /\ Improves(Head(todo))
  /\ LET out == Head(todo)
     IN  /\ distance' = [distance EXCEPT ![out.to] = Through(out)]
         /\ arrival' = [arrival EXCEPT ![out.to] = out]
         /\ queue' = Push(queue, Entry(out.to, Through(out)))
  /\ todo' = Tail(todo)
  /\ UNCHANGED <<world, vehicle, purpose, tries, call, phase, settled, nearest>>

PassBy ==
  /\ phase = "choosing" /\ todo # <<>> /\ ~Improves(Head(todo))
  /\ todo' = Tail(todo)
  /\ UNCHANGED <<world, vehicle, purpose, tries, call, phase, distance, arrival,
                 settled, queue, nearest>>

\* The loop ends.
Finish ==
  /\ Choosing
  /\ queue # <<>> => queue[1].node \notin settled /\ Beyond(queue[1].metres)
  /\ phase' = "done"
  /\ queue' = <<>>
  /\ UNCHANGED <<world, vehicle, purpose, tries, call, distance, arrival,
                 settled, nearest, todo>>

---------------------------------------------------------------------------
(* Path *)

\* The comparisons of the code on distances that may be infinite.
AtMost(x, y) == y = Infinite \/ (x # Infinite /\ x <= y)

Eligible ==
  {n \in call.within \ {call.from} :
     AtMost(call.low, distance[n]) /\ AtMost(distance[n], call.high)}

\* Mutant: a road's shape is followed the way it is stored.
AsStored(l) == graph.via[l.road]

Shape(l) == IF l.forward THEN graph.via[l.road] ELSE Reverse(graph.via[l.road])

Found == {n \in Nodes : distance[n] # Infinite}

\* The way to an intersection, walked back to the origin and turned around.
RouteTo[n \in Found] ==
  IF n = call.from THEN <<>>
  ELSE Append(RouteTo[arrival[n].from], [node |-> n, via |-> Shape(arrival[n])])

Calls(from, within, low, high) == [from |-> from, within |-> within, low |-> low, high |-> high]

\* Mutant: the search is not widened.
WithinReach(from) == <<Calls(from, graph.inside, TripMin, TripMax)>>

\* plan: within a journey's reach, or anywhere inside.
Plan(from) == <<Calls(from, graph.inside, TripMin, TripMax),
                Calls(from, graph.inside, 0, Infinite)>>

\* customerTrip of a customer who leaves the service area.
Exit(from) == <<Calls(from, graph.outside, 0, TripMax),
                Calls(from, graph.outside, 0, Infinite)>>

---------------------------------------------------------------------------
(* The vehicle. *)

EnRoute == leg \in {"toCustomer", "toParking"}

\* The points a step leads along, the intersection last.
Points(step) == step.via \o <<graph.positions[step.node]>>

Ahead(steps) == FlattenSeq([i \in DOMAIN steps |-> Points(steps[i])])

NoRoute == [from |-> <<>>, points |-> <<>>]

\* Mutant: the route is drawn from the intersection behind.
FromBehind(steps) == [from |-> <<graph.positions[node]>>, points |-> Ahead(steps)]

\* assignRoute: what the operator is shown starts where the vehicle is.
Announced(steps) == [from |-> at, points |-> Ahead(steps)]

Dispatch(journey) ==
  /\ purpose = "nothing" /\ leg = "parked" /\ path = <<>>
  /\ purpose' = journey
  /\ tries' = Plan(node)
  /\ UNCHANGED <<world, vehicle, search>>

\* A journey under way is revised from the end of the road being driven.
Replan ==
  /\ purpose = "nothing" /\ EnRoute /\ path # <<>>
  /\ purpose' = "replan"
  /\ tries' = Plan(path[1].node)
  /\ UNCHANGED <<world, vehicle, search>>

\* A destination is drawn, and the journey to it taken up.
SetOut ==
  /\ phase = "done"
  /\ \E destination \in Eligible :
       path' = (IF purpose = "replan" THEN <<path[1]>> ELSE <<>>) \o RouteTo[destination]
  /\ leg' = IF purpose \in {"toCustomer", "toParking"} THEN purpose ELSE leg
  /\ geometry' = IF purpose = "trip" THEN geometry ELSE Announced(path')
  /\ purpose' = "nothing"
  /\ tries' = <<>>
  /\ UNCHANGED <<world, node, at>>
  /\ Return

\* Nothing qualifies: the next call is made, or nothing comes of it.
ComeToNothing ==
  /\ phase = "done" /\ Eligible = {}
  /\ purpose' = IF tries = <<>> THEN "nothing" ELSE purpose
  /\ UNCHANGED <<world, vehicle, tries>>
  /\ Return

\* advance: part of the way to the next point...
Move ==
  /\ purpose = "nothing" /\ path # <<>> /\ Len(at) = 1
  /\ at' = <<at[1], Head(Points(path[1]))>>
  /\ UNCHANGED <<world, leg, node, path, geometry, purpose, tries, search>>

\* ...past a point of the road's shape...
PassPoint ==
  /\ purpose = "nothing" /\ path # <<>> /\ path[1].via # <<>>
  /\ at' = <<path[1].via[1]>>
  /\ path' = [path EXCEPT ![1].via = Tail(@)]
  /\ UNCHANGED <<world, leg, node, geometry, purpose, tries, search>>

Reach ==
  /\ purpose = "nothing" /\ path # <<>> /\ path[1].via = <<>>
  /\ at' = <<graph.positions[path[1].node]>>
  /\ node' = path[1].node
  /\ path' = Tail(path)

\* ...to the intersection at its end...
EndRoad ==
  /\ Reach /\ Len(path) > 1
  /\ UNCHANGED <<world, leg, geometry, purpose, tries, search>>

\* ...which may be the last: at the customer, who drives on,...
Handover ==
  /\ Reach /\ Len(path) = 1 /\ leg = "toCustomer"
  /\ leg' = "withCustomer"
  /\ geometry' = NoRoute
  /\ purpose' = "trip"
  /\ tries' \in {Plan(node'), Exit(node') \o Plan(node')}
  /\ UNCHANGED <<world, search>>

\* ...or where the vehicle is left.
Park ==
  /\ Reach /\ Len(path) = 1 /\ leg \in {"withCustomer", "toParking"}
  /\ leg' = "parked"
  /\ geometry' = NoRoute
  /\ UNCHANGED <<world, purpose, tries, search>>

Init ==
  /\ extract \in Extracts
  /\ network = Generate(extract)
  /\ Usable(network)
  /\ graph = Load(network)
  /\ leg = "parked" /\ path = <<>> /\ geometry = NoRoute
  /\ node \in graph.inside
  /\ at = <<graph.positions[node]>>
  /\ purpose = "nothing" /\ tries = <<>>
  /\ Idle

Next ==
  \/ \E journey \in {"toCustomer", "toParking"} : Dispatch(journey)
  \/ Replan
  \/ Begin \/ Skip \/ Settle \/ Improve \/ PassBy \/ Finish
  \/ SetOut \/ ComeToNothing
  \/ Move \/ PassPoint \/ EndRoad \/ Handover \/ Park

Spec == Init /\ [][Next]_vars

---------------------------------------------------------------------------
(* Properties.  The reference is the extract itself and the network made   *)
(* of it, never the loaded graph. *)

\* What is reached from a set by a relation between nodes.
Reached(links, from) ==
  LET reached[S \in SUBSET (from \cup {l[2] : l \in links})] ==
        LET more == {l[2] : l \in {x \in links : x[1] \in S}}
        IN  IF more \subseteq S THEN S ELSE reached[S \cup more]
  IN  reached[from]

\* The extract lets a vehicle go from the i-th point of a street to the j-th.
Drivable(e, i, j) ==
  /\ Len(e.nodes) = Len(e.known)
  /\ i # j
  /\ \A k \in Min({i, j})..Max({i, j}) : e.known[k]
  /\ e.oneway = "-1" => j < i
  /\ e.oneway \in {"yes", "true", "1"} \/ (e.roundabout /\ e.oneway # "-1") => i < j

\* From p to q along one street, with no bend in between that could be seen.
FollowsStreet(p, q) ==
  \E e \in ToSet(extract) : \E i, j \in DOMAIN e.nodes :
    /\ e.nodes[i] = p /\ e.nodes[j] = q
    /\ Drivable(e, i, j)
    /\ \A k \in Min({i, j})..Max({i, j}) : Invisible(p, q, e.nodes[k])

\* Streets, point by point.
Streets ==
  UNION {{<<e.nodes[s[1]], e.nodes[s[2]]>> :
            s \in {x \in (DOMAIN e.nodes) \X (DOMAIN e.nodes) :
                    Drivable(e, x[1], x[2]) /\ x[1] - x[2] \in {1, -1}}} : e \in ToSet(extract)}

Mutual(p) == {q \in Reached(Streets, {p}) : p \in Reached(Streets, {q})}

\* The network holds intersections that can all reach one another by the
\* streets of the extract, no such set of them is larger, and the loaded
\* roads still take a vehicle from each to each (roadgen's strongest, whose
\* comment and graph_test.go:29 say why the simulator cannot work without).
IntersectionsReachEachOther ==
  purpose = "nothing" /\ leg = "parked" =>
    LET kept == ToSet(graph.positions)
        all  == ToSet(Build(Parse(extract)).positions)
        roads == UNION {{<<l.from, l.to>> : l \in ToSet(graph.leaving[k])} : k \in Nodes}
    IN  /\ Loadable(network)
        /\ \A p \in kept : kept = Mutual(p) \cap all
        /\ \A p \in all : Cardinality(Mutual(p) \cap all) <= Cardinality(kept)
        /\ Reached(roads, {node}) = Nodes

\* How far intersections are from one where far says so, and by one road more.
Extended(far) ==
  LET by(n) == {far[l.from] + l.metres :
                  l \in {x \in Links(network) : x.to = n /\ x.from \in DOMAIN far}}
               \cup {far[x] : x \in {n} \cap DOMAIN far}
  IN  [n \in {x \in DOMAIN network.positions : by(x) # {}} |-> Min(by(n))]

\* How far every intersection is from one: no shortest way takes more roads than
\* there are intersections.
Far(from) ==
  LET far[k \in 0..Len(network.positions)] ==
        IF k = 0 THEN [n \in {from} |-> 0] ELSE Extended(far[k - 1])
  IN  far[Len(network.positions)]

\* The streets driven along a path, from a place.
Driven(from, steps) == <<from>> \o Ahead(steps)

\* Path offers exactly the intersections asked for that lie in the range by
\* road, and the route to each is a shortest one and ends there
\* (graph.go, Path and reachable; graph_test.go:116).
JourneysAreShortest ==
  phase = "done" =>
    LET far == Far(call.from)
    IN  /\ Eligible = {n \in call.within \ {call.from} :
                         n \in DOMAIN far /\ call.low <= far[n]
                           /\ (call.high = Infinite \/ far[n] <= call.high)}
        /\ \A n \in Eligible :
             /\ Last(RouteTo[n]).node = n
             /\ Along(Driven(graph.positions[call.from], RouteTo[n])) = far[n]

\* A vehicle is never left without anywhere to go: a plan comes to nothing only
\* where the intersection it starts from is the only one inside the service area
\* (vehicle.go, plan: "a vehicle with nowhere to go would sit still for the rest
\* of the run"; roadgen, strongest).
NobodyIsStranded ==
  phase = "done" /\ tries = <<>> /\ Eligible = {} => graph.inside \subseteq {call.from}

\* Only a customer drives out of the service area: wherever a vehicle is sent, and
\* wherever it is sent instead, lies inside (graph.go, Inside; vehicle.go, plan and
\* replan).
OnlyCustomersLeave == EnRoute => path # <<>> /\ Last(path).node \in graph.inside

\* Whatever a vehicle has yet to drive follows a street, in a direction the
\* street may be driven in and through every bend that could be seen,
\* however often the journey was revised (graph_test.go:138 and 169 look at
\* routes as they are planned).
StaysOnStreets ==
  LET points == Driven(at[1], path)
  IN  /\ path # <<>> /\ Len(at) = 2 => at[2] = points[2]
      /\ \A i \in 1..Len(points) - 1 : FollowsStreet(points[i], points[i + 1])

\* The route the operator is shown of a vehicle under way starts where the
\* vehicle was, leads past where it is and ends with exactly what it has yet
\* to drive; without a journey there is none (vehicle.go, assignRoute: "a
\* route drawn from behind the marker reads as the vehicle having overshot").
ShownRouteIsDriven ==
  purpose = "nothing" =>
    IF ~EnRoute THEN geometry = NoRoute
    ELSE LET passed == Len(geometry.points) - Len(Ahead(path))
         IN  /\ path # <<>>
             /\ passed >= 0
             /\ Ahead(path) = SubSeq(geometry.points, passed + 1, Len(geometry.points))
             /\ at[1] = IF passed = 0 THEN geometry.from[1] ELSE geometry.points[passed]

\* The search with the heap is the search that takes any nearest entry.
Map(g) == [nodes |-> DOMAIN g.positions, links |-> UNION {ToSet(l) : l \in ToSet(g.leaving)}]

Nearest == INSTANCE Search WITH
  graph    <- Map(graph),
  Limits   <- {TripMax, Infinite},
  origin   <- call.from,
  limit    <- call.high,
  frontier <- ToSet(queue),
  todo     <- ToSet(todo)

SearchesNearestFirst == Nearest!Spec

=============================================================================
