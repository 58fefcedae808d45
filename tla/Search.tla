------------------------------- MODULE Search -------------------------------
(***************************************************************************)
(* The bounded shortest-path search of the road graph (Graph.reachable),   *)
(* for any graph.  The frontier is a set of entries here and gives up any  *)
(* of its nearest ones; Journeys keeps the binary heap of the code and     *)
(* implements this module.                                                 *)
(*                                                                         *)
(* A step is one pass of either loop of the code: an entry popped, or one  *)
(* road leaving the intersection that was popped.  A graph is              *)
(* [nodes, links], a link a record with at least from, to and metres.      *)
(***************************************************************************)
EXTENDS Integers

CONSTANTS Limits,    \* how far a search may be asked to look
          NoLink     \* noLink: the intersection has not been reached

\* math.Inf(1), which is no length.
Infinite == -1

Bounds == Nat \cup {Infinite}

VARIABLES graph,     \* the Graph; it never changes
          origin, limit,
          phase,     \* "idle", "choosing" or "done"
          distance, arrival, settled,
          frontier,  \* the entries of the heap
          nearest,   \* the entry settled last
          todo       \* the roads that leave it and have not been looked at

vars == <<graph, origin, limit, phase, distance, arrival, settled, frontier, nearest, todo>>

\* Every road runs between intersections.
IsGraph(g) ==
  \A l \in g.links :
    l # NoLink /\ l.from \in g.nodes /\ l.to \in g.nodes /\ l.metres \in Nat

Entry(node, metres) == [node |-> node, metres |-> metres]

\* No search is under way.
Idle ==
  /\ origin \in graph.nodes
  /\ limit = 0
  /\ phase = "idle"
  /\ distance = [n \in graph.nodes |-> Infinite]
  /\ arrival = [n \in graph.nodes |-> NoLink]
  /\ settled = {}
  /\ frontier = {}
  /\ nearest = Entry(origin, 0)
  /\ todo = {}

Init == IsGraph(graph) /\ Idle

\* A call of reachable...
Begin(o, m) ==
  /\ phase = "idle" /\ m \in Bounds
  /\ origin' = o /\ limit' = m
  /\ phase' = "choosing"
  /\ distance' = [n \in graph.nodes |-> IF n = o THEN 0 ELSE Infinite]
  /\ arrival' = [n \in graph.nodes |-> NoLink]
  /\ settled' = {}
  /\ frontier' = {Entry(o, 0)}
  /\ nearest' = Entry(o, 0)
  /\ todo' = {}
  /\ UNCHANGED graph

\* ...and the end of the caller's use of what it returned.
Return ==
  /\ phase = "done"
  /\ UNCHANGED graph
  /\ Idle'

Choosing == phase = "choosing" /\ todo = {}

Nearest(e) == e \in frontier /\ \A f \in frontier : e.metres <= f.metres

Beyond(metres) == limit # Infinite /\ metres > limit

\* An entry that was improved on after it was pushed.
Skip(e) ==
  /\ Choosing /\ Nearest(e) /\ e.node \in settled
  /\ frontier' = frontier \ {e}
  /\ UNCHANGED <<graph, origin, limit, phase, distance, arrival, settled, nearest, todo>>

Settle(e) ==
  /\ Choosing /\ Nearest(e) /\ e.node \notin settled /\ ~Beyond(e.metres)
  /\ frontier' = frontier \ {e}
  /\ settled' = settled \cup {e.node}
  /\ nearest' = e
  /\ todo' = {l \in graph.links : l.from = e.node}
  /\ UNCHANGED <<graph, origin, limit, phase, distance, arrival>>

Through(l) == nearest.metres + l.metres

Improves(l) == distance[l.to] # Infinite => Through(l) < distance[l.to]

\* A road that leads somewhere by a shorter way than any so far...
Improve(l) ==
  /\ phase = "choosing" /\ l \in todo /\ Improves(l)
  /\ distance' = [distance EXCEPT ![l.to] = Through(l)]
  /\ arrival' = [arrival EXCEPT ![l.to] = l]
  /\ frontier' = frontier \cup {Entry(l.to, Through(l))}
  /\ todo' = todo \ {l}
  /\ UNCHANGED <<graph, origin, limit, phase, settled, nearest>>

\* ...or does not.
PassBy(l) ==
  /\ phase = "choosing" /\ l \in todo /\ ~Improves(l)
  /\ todo' = todo \ {l}
  /\ UNCHANGED <<graph, origin, limit, phase, distance, arrival, settled, frontier, nearest>>

\* Nothing is left, or nothing within the limit.
Finish ==
  /\ Choosing
  /\ \/ frontier = {}
     \/ \E e \in frontier : Nearest(e) /\ e.node \notin settled /\ Beyond(e.metres)
  /\ phase' = "done"
  /\ frontier' = {}
  /\ UNCHANGED <<graph, origin, limit, distance, arrival, settled, nearest, todo>>

Next ==
  \/ \E o \in graph.nodes, m \in Limits : Begin(o, m)
  \/ \E e \in frontier : Skip(e) \/ Settle(e)
  \/ \E l \in todo : Improve(l) \/ PassBy(l)
  \/ Finish
  \/ Return

Spec == Init /\ [][Next]_vars

---------------------------------------------------------------------------
(* What a search promises. *)

\* Every variable has its type.
TypeOK ==
  /\ IsGraph(graph)
  /\ origin \in graph.nodes
  /\ limit \in Bounds
  /\ phase \in {"idle", "choosing", "done"}
  /\ distance \in [graph.nodes -> Bounds]
  /\ arrival \in [graph.nodes -> graph.links \cup {NoLink}]
  /\ settled \subseteq graph.nodes
  /\ frontier \subseteq [node : graph.nodes, metres : Nat]
  /\ nearest \in [node : graph.nodes, metres : Nat]
  /\ todo \subseteq graph.links

Lengths == graph.nodes \X Nat

\* A set of intersections, each with a length, that a walk cannot leave.
Closed(C) ==
  /\ <<origin, 0>> \in C
  /\ \A x \in C, l \in graph.links :
       l.from = x[1] => <<l.to, x[2] + l.metres>> \in C

\* Every intersection a walk from the origin ends at, with its length.
Walks == {x \in Lengths : \A C \in SUBSET Lengths : Closed(C) => x \in C}

Reached(n) == distance[n] \in Nat

\* What reachable returns: the length of a walk to every intersection it gives
\* a distance for, and within the limit no walk is shorter and none is missed.
ExactWithinLimit ==
  phase = "done" =>
    /\ \A n \in graph.nodes : Reached(n) => <<n, distance[n]>> \in Walks
    /\ \A x \in Walks : ~Beyond(x[2]) => Reached(x[1]) /\ distance[x[1]] <= x[2]

\* The road that arrives at an intersection is the last of a shortest walk to
\* it, and leaves one whose own distance is final: Path can walk back.
ArrivesByShortestWalk ==
  \A n \in graph.nodes \ {origin} : Reached(n) =>
    /\ arrival[n] \in graph.links
    /\ arrival[n].to = n
    /\ arrival[n].from \in settled
    /\ distance[n] = distance[arrival[n].from] + arrival[n].metres

=============================================================================
