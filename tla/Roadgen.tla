------------------------------ MODULE Roadgen ------------------------------
(***************************************************************************)
(* cmd/roadgen: from an OpenStreetMap extract to the road network the      *)
(* simulator drives on.  A pipeline of pure functions: the usable          *)
(* stretches of the extract (parse), cut into roads where streets meet     *)
(* (build), pruned to the intersections that can all reach one another     *)
(* (strongest), refused when the product cannot be shown on it (validate). *)
(*                                                                         *)
(* A point is named by the OpenStreetMap node it was recorded for, and     *)
(* Place gives its coordinates; a node's index is its place in the         *)
(* artefact, from 1.  An element of the extract is                         *)
(* [nodes, known, oneway, roundabout, name], with known[i] when the        *)
(* coordinates of nodes[i] came back.                                      *)
(***************************************************************************)
EXTENDS Integers, SequencesExt, FiniteSetsExt

CONSTANTS Place,       \* [node -> [lng, lat]]
          Tolerance,   \* simplifyMetres
          ServiceArea, \* a closed ring of places
          Zones        \* a set of closed rings

Geo == INSTANCE Geometry

\* Coordinates are counted in steps, and so is the tolerance.
ASSUME RoadgenAssumption ==
  /\ \A n \in DOMAIN Place : Place[n].lng \in Int /\ Place[n].lat \in Int
  /\ Tolerance \in Nat

Unnamed == ""

---------------------------------------------------------------------------
(* The extract. *)

Elements == [nodes : Seq(DOMAIN Place), known : Seq(BOOLEAN), oneway : STRING,
             roundabout : BOOLEAN, name : STRING]

Directed(e) == e.oneway \in {"yes", "true", "1", "-1"} \/ e.roundabout

Known(e, i) == i \in DOMAIN e.nodes /\ e.known[i]

\* The longest stretches of an element whose points are all known.
Runs(e) == {run \in (DOMAIN e.nodes) \X (DOMAIN e.nodes) :
              /\ run[1] < run[2]
              /\ \A k \in run[1]..run[2] : Known(e, k)
              /\ ~Known(e, run[1] - 1) /\ ~Known(e, run[2] + 1)}

\* A street driven against the order it is listed in is turned around.
Stretch(e, run) ==
  LET listed == SubSeq(e.nodes, run[1], run[2])
  IN  [nodes  |-> IF e.oneway = "-1" THEN Reverse(listed) ELSE listed,
       oneway |-> Directed(e),
       name   |-> e.name]

\* One way for each of them, in their order.
WaysOf(e) ==
  IF Len(e.nodes) # Len(e.known) THEN <<>>
  ELSE FlattenSeq([i \in DOMAIN e.nodes |->
         LET from == {run \in Runs(e) : run[1] = i}
         IN  IF from = {} THEN <<>> ELSE <<Stretch(e, CHOOSE run \in from : TRUE)>>])

Parse(extract) == FlattenSeq([k \in DOMAIN extract |-> WaysOf(extract[k])])

---------------------------------------------------------------------------
(* Shapes. *)

Square(x) == x * x

\* How far a point is off the line between two others, squared, as a multiple
\* of Scale: the points of one run are compared on the same line.
OffLine(first, last, at) ==
  LET f == Place[first]  l == Place[last]  p == Place[at]
  IN  IF f = l THEN Square(p.lng - f.lng) + Square(p.lat - f.lat)
      ELSE Square((l.lat - f.lat) * (p.lng - f.lng) - (l.lng - f.lng) * (p.lat - f.lat))

Scale(first, last) ==
  LET f == Place[first]  l == Place[last]
  IN  IF f = l THEN 1 ELSE Square(l.lng - f.lng) + Square(l.lat - f.lat)

Invisible(first, last, at) ==
  OffLine(first, last, at) <= Square(Tolerance) * Scale(first, last)

OffEnds(run, i) == OffLine(run[1], Last(run), run[i])

\* The point furthest off the line between the ends, the first of them.
Furthest(run) ==
  CHOOSE i \in 2..Len(run) - 1 :
    \A j \in 2..Len(run) - 1 : OffEnds(run, j) <= OffEnds(run, i) /\ (j < i => OffEnds(run, j) < OffEnds(run, i))

Shapes == {run \in Seq(DOMAIN Place) : Len(run) >= 2}

\* A run keeps its furthest point and what either half keeps, or only its ends.
DouglasPeucker[run \in Shapes] ==
  IF \A i \in 2..Len(run) - 1 : Invisible(run[1], Last(run), run[i])
  THEN <<run[1], Last(run)>>
  ELSE Front(DouglasPeucker[SubSeq(run, 1, Furthest(run))])
         \o DouglasPeucker[SubSeq(run, Furthest(run), Len(run))]

Simplify(run) == LET kept == DouglasPeucker[run] IN SubSeq(kept, 2, Len(kept) - 1)

---------------------------------------------------------------------------
(* The network. *)

\* The elements of a sequence at some of its places.
Picked(s, places) == FlattenSeq([i \in DOMAIN s |-> IF i \in places THEN <<s[i]>> ELSE <<>>])

\* What a sequence holds, in the order it is first met.
FirstMet(s) == Picked(s, {i \in DOMAIN s : \A j \in 1..i - 1 : s[j] # s[i]})

IndexIn(table, x) == CHOOSE i \in DOMAIN table : table[i] = x

Ends(stretch) == <<stretch.nodes[1], Last(stretch.nodes)>>

\* How often the ways pass a node; the ends of a way count once more.
Passes(ways, n) ==
  LET through == UNION {{<<k, i>> : i \in {j \in DOMAIN ways[k].nodes : ways[k].nodes[j] = n}} :
                          k \in DOMAIN ways}
      ends    == {x \in (DOMAIN ways) \X {1, 2} : Ends(ways[x[1]])[x[2]] = n}
  IN  Cardinality(through) + Cardinality(ends)

\* Where a way meets a street or ends.
Junctions(ways, w) == {i \in DOMAIN w.nodes : Passes(ways, w.nodes[i]) >= 2}

\* The piece of a way from one of its junctions to the next.
Piece(ways, w, i) ==
  [w EXCEPT !.nodes = SubSeq(w.nodes, i, Min({j \in Junctions(ways, w) : j > i}))]

Segments(ways, w) ==
  FlattenSeq([i \in DOMAIN w.nodes |->
    IF i \in Junctions(ways, w) /\ \E j \in Junctions(ways, w) : j > i
    THEN <<Piece(ways, w, i)>> ELSE <<>>])

Build(ways) ==
  LET segments  == FlattenSeq([k \in DOMAIN ways |-> Segments(ways, ways[k])])
      positions == FirstMet(FlattenSeq([k \in DOMAIN segments |-> Ends(segments[k])]))
      open      == Picked(segments, {k \in DOMAIN segments :
                                       segments[k].nodes[1] # Last(segments[k].nodes)})
      names     == FirstMet(<<Unnamed>> \o [k \in DOMAIN open |-> open[k].name])
  IN  [names     |-> names,
       positions |-> positions,
       roads     |-> [k \in DOMAIN open |->
                        [a      |-> IndexIn(positions, open[k].nodes[1]),
                         b      |-> IndexIn(positions, Last(open[k].nodes)),
                         name   |-> IndexIn(names, open[k].name),
                         oneway |-> open[k].oneway,
                         via    |-> Simplify(open[k].nodes)]]]

---------------------------------------------------------------------------
(* Pruning. *)

\* The roads that lead from a node to one that has not been seen.
Onward(roads, at, seen) ==
  {i \in DOMAIN roads :
     \/ roads[i].a = at /\ roads[i].b \notin seen
     \/ roads[i].b = at /\ roads[i].a \notin seen /\ ~roads[i].oneway}

FarEnd(road, at) == IF road.a = at THEN road.b ELSE road.a

\* The nodes a road leads to at from.
Back(roads, at) == {r.a : r \in {x \in ToSet(roads) : x.b = at}}
                     \cup {r.b : r \in {x \in ToSet(roads) : x.a = at /\ ~x.oneway}}

See(walk, at) == [walk EXCEPT !.seen = @ \cup {at}, !.stack = Append(@, at)]

\* Depth first: on by the first road to a node not seen; without one the visit of a node
\* ends; and when the visits have all ended the next node is begun with.
Walk(n, walk) ==
  LET at     == Last(walk.stack)
      onward == Onward(n.roads, at, walk.seen)
      unseen == DOMAIN n.positions \ walk.seen
  IN  CASE walk.stack # <<>> /\ onward # {} -> See(walk, FarEnd(n.roads[Min(onward)], at))
        [] walk.stack # <<>> /\ onward = {} ->
             [walk EXCEPT !.order = Append(@, at), !.stack = Front(@)]
        [] walk.stack = <<>> /\ unseen # {} -> See(walk, Min(unseen))
        [] OTHER -> walk

\* The nodes in the order in which their visits end: each is seen once, and left once.
FinishOrder(n) ==
  LET walk[k \in 0..2 * Len(n.positions)] ==
        IF k = 0 THEN [seen |-> {}, order |-> <<>>, stack |-> <<>>] ELSE Walk(n, walk[k - 1])
  IN  walk[2 * Len(n.positions)].order

\* Whatever leads to one of the members without passing through nodes that are taken.
Widen(n, taken, members) ==
  members \cup ((UNION {Back(n.roads, m) : m \in members}) \ taken)

Gather(n, taken, root) ==
  LET gather[k \in 0..Len(n.positions)] ==
        IF k = 0 THEN {root} ELSE Widen(n, taken, gather[k - 1])
  IN  gather[Len(n.positions)]

\* Mutant: the size of the largest is not kept, so any component is larger.
AnyLarger(n, found, root) ==
  LET members == Gather(n, found.taken, root)
  IN  IF root \in found.taken THEN found
      ELSE [taken |-> found.taken \cup members, best |-> members]

\* The component of a root, and the first of the largest.
Component(n, found, root) ==
  LET members == Gather(n, found.taken, root)
  IN  IF root \in found.taken THEN found
      ELSE [taken |-> found.taken \cup members,
            best  |-> IF Cardinality(members) > Cardinality(found.best)
                      THEN members ELSE found.best]

\* One component per root, the last to finish first.
Largest(n) ==
  LET roots == Reverse(FinishOrder(n))
      found[k \in 0..Len(roots)] ==
        IF k = 0 THEN [taken |-> {}, best |-> {}] ELSE Component(n, found[k - 1], roots[k])
  IN  found[Len(roots)].best

\* The names that are still used, in the order they are.
Compact(n) ==
  LET names   == FirstMet([k \in DOMAIN n.roads |-> n.names[n.roads[k].name]])
      renamed == [k \in DOMAIN n.roads |->
                    [n.roads[k] EXCEPT !.name = IndexIn(names, n.names[@])]]
  IN  [n EXCEPT !.names = names, !.roads = renamed]

\* The largest component and the roads within it, renumbered.
Strongest(n) ==
  LET best  == Largest(n)
      kept  == Picked([k \in DOMAIN n.positions |-> k], best)
      roads == Picked(n.roads, {i \in DOMAIN n.roads : {n.roads[i].a, n.roads[i].b} \subseteq best})
  IN  Compact([n EXCEPT
        !.positions = [k \in DOMAIN kept |-> n.positions[kept[k]]],
        !.roads     = [k \in DOMAIN roads |->
                         [roads[k] EXCEPT !.a = IndexIn(kept, @), !.b = IndexIn(kept, @)]]])

Generate(extract) == Strongest(Build(Parse(extract)))

\* validate: somewhere inside, somewhere outside, and somewhere in every zone.
Usable(n) ==
  LET in(ring) == {i \in DOMAIN n.positions : Geo!Contains(ring, Place[n.positions[i]])}
  IN  /\ in(ServiceArea) \notin {{}, DOMAIN n.positions}
      /\ \A zone \in Zones : in(zone) # {}

=============================================================================
