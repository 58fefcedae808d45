---------------------------- MODULE SearchProofs ----------------------------
(***************************************************************************)
(* The search finds shortest walks on every graph and within every limit.  *)
(*                                                                         *)
(* A walk is never mentioned by its roads.  Walks is the least set that    *)
(* holds the origin at length 0 and is closed under driving on: that every *)
(* distance is in it is kept by each step, and that no member is shorter   *)
(* than the distance found follows when the search is done, because the    *)
(* lengths that are not shorter are closed themselves.                     *)
(***************************************************************************)
EXTENDS Search, TLAPS

\* An entry is never nearer than the distance of its intersection...
FrontierIsLate ==
  \A e \in frontier : Reached(e.node) /\ distance[e.node] <= e.metres

\* ...and every intersection reached but not settled has an entry at exactly it.
FrontierIsComplete ==
  phase = "choosing" =>
    \A n \in graph.nodes \ settled :
      Reached(n) => Entry(n, distance[n]) \in frontier

\* What is settled is no further than what was settled last, and that is no
\* further than any entry.
SettledFirst ==
  /\ \A n \in settled : Reached(n) /\ distance[n] <= nearest.metres /\ ~Beyond(distance[n])
  /\ \A e \in frontier : nearest.metres <= e.metres

\* The roads still to be looked at leave what was settled last.
TodoLeavesNearest ==
  todo # {} =>
    /\ phase = "choosing"
    /\ nearest.node \in settled
    /\ nearest.metres = distance[nearest.node]
    /\ \A l \in todo : l.from = nearest.node

\* A road out of a settled intersection that has been looked at is no shortcut.
NoShortcut ==
  \A l \in graph.links \ todo : l.from \in settled =>
    Reached(l.to) /\ distance[l.to] <= distance[l.from] + l.metres

\* When the loop has ended, what is reached and not settled is too far.
RestIsBeyond ==
  phase = "done" => \A n \in graph.nodes \ settled : Reached(n) => Beyond(distance[n])

DistancesAreWalks ==
  \A n \in graph.nodes : Reached(n) => <<n, distance[n]>> \in Walks

OriginIsNear == phase # "idle" => distance[origin] = 0

IInv ==
  /\ TypeOK
  /\ OriginIsNear
  /\ DistancesAreWalks
  /\ FrontierIsLate
  /\ FrontierIsComplete
  /\ SettledFirst
  /\ TodoLeavesNearest
  /\ NoShortcut
  /\ RestIsBeyond
  /\ ArrivesByShortestWalk

---------------------------------------------------------------------------
(* Walks *)

\* The walk of no road.
LEMMA WalkBegins ==
  ASSUME origin \in graph.nodes
  PROVE  <<origin, 0>> \in Walks
BY DEF Walks, Lengths, Closed

\* A walk and one more road.
LEMMA WalkExtends ==
  ASSUME TypeOK,
         NEW n \in graph.nodes, NEW m \in Nat, <<n, m>> \in Walks,
         NEW l \in graph.links, l.from = n
  PROVE  <<l.to, m + l.metres>> \in Walks
<1> DEFINE y == <<l.to, m + l.metres>>
<1>1. y \in Lengths
  BY DEF IsGraph, Bounds, Infinite, TypeOK, Lengths
<1>2. ASSUME NEW C \in SUBSET Lengths, Closed(C)
      PROVE  y \in C
  <2>1. <<n, m>> \in C
    BY <1>2 DEF Walks
  <2>2. \A k \in graph.links : k.from = <<n, m>>[1] => <<k.to, <<n, m>>[2] + k.metres>> \in C
    BY <2>1, <1>2 DEF Closed
  <2> QED  BY <2>2
<1> QED  BY <1>1, <1>2 DEF Walks

\* What is closed holds every walk.
LEMMA ClosedHoldsWalks ==
  ASSUME NEW C \in SUBSET Lengths, Closed(C)
  PROVE  Walks \subseteq C
BY DEF Walks

---------------------------------------------------------------------------
(* The invariant *)

LEMMA IdleEstablishes ==
  ASSUME IsGraph(graph), Idle
  PROVE  IInv
<1>1. TypeOK
  BY DEF IsGraph, Bounds, Infinite, Idle, TypeOK, Entry
<1>2. \A n \in graph.nodes : ~Reached(n)
  BY DEF IsGraph, Bounds, Infinite, Idle, Reached
<1> QED
  BY <1>1, <1>2 DEF Idle, IInv, OriginIsNear, DistancesAreWalks, FrontierIsLate,
     FrontierIsComplete, SettledFirst, TodoLeavesNearest, NoShortcut, RestIsBeyond,
     ArrivesByShortestWalk



LEMMA BeginKeeps ==
  ASSUME IInv, NEW o \in graph.nodes, NEW m \in Limits, Begin(o, m)
  PROVE  IInv'
<1> USE DEF IsGraph, Bounds, Infinite
<1>1. TypeOK'
  BY DEF IInv, TypeOK, Begin, Entry
<1>2. \A n \in graph.nodes : Reached(n)' <=> n = o
  BY DEF IInv, TypeOK, Begin, Reached
<1>3. <<o, 0>> \in Walks'
  BY DEF Begin, Walks, Lengths, Closed
<1> QED
  BY <1>1, <1>2, <1>3 DEF Begin, IInv, Entry, OriginIsNear, DistancesAreWalks, FrontierIsLate,
     FrontierIsComplete, SettledFirst, TodoLeavesNearest, NoShortcut, RestIsBeyond,
     ArrivesByShortestWalk

\* Walks from the origin are the same while the origin is.
LEMMA WalksKept ==
  ASSUME UNCHANGED <<graph, origin>>
  PROVE  Walks' = Walks
BY DEF Walks, Lengths, Closed

LEMMA SkipKeeps ==
  ASSUME IInv, NEW e \in frontier, Skip(e)
  PROVE  IInv'
<1> USE DEF IsGraph, Bounds, Infinite, IInv, Skip
<1>1. TypeOK'
  BY DEF TypeOK
<1>2. DistancesAreWalks'
  BY WalksKept DEF DistancesAreWalks, Reached
<1>3. FrontierIsComplete'
  BY DEF FrontierIsComplete, Reached, Entry
<1>4. SettledFirst'
  BY DEF SettledFirst, Reached, Beyond
<1> QED
  BY <1>1, <1>2, <1>3, <1>4 DEF OriginIsNear, FrontierIsLate, TodoLeavesNearest,
     NoShortcut, RestIsBeyond, ArrivesByShortestWalk, Reached, Choosing

LEMMA SettleKeeps ==
  ASSUME IInv, NEW e \in frontier, Settle(e)
  PROVE  IInv'
<1> USE DEF IsGraph, Bounds, Infinite, IInv, Settle
<1>1. TypeOK'
  BY DEF TypeOK
<1>2. e \in [node : graph.nodes, metres : Nat] /\ e.metres = distance[e.node] /\ Reached(e.node)
  <2>1. Entry(e.node, distance[e.node]) \in frontier
    BY DEF TypeOK, FrontierIsComplete, FrontierIsLate, Choosing
  <2>2. e.metres <= Entry(e.node, distance[e.node]).metres
    BY <2>1 DEF Nearest
  <2> QED  BY <2>2 DEF Entry, FrontierIsLate, Reached, TypeOK
<1>3. DistancesAreWalks'
  BY WalksKept DEF DistancesAreWalks, Reached
<1>4. FrontierIsComplete'
  BY DEF FrontierIsComplete, Reached, Entry
<1>5. SettledFirst'
  <2>1. \A n \in settled' : Reached(n)' /\ distance'[n] <= nearest'.metres /\ ~Beyond(distance[n])'
    BY <1>2 DEF TypeOK, SettledFirst, Reached, Beyond
  <2>2. \A f \in frontier' : nearest'.metres <= f.metres
    BY DEF Nearest
  <2> QED  BY <2>1, <2>2 DEF SettledFirst
<1>6. TodoLeavesNearest'
  BY <1>2 DEF TodoLeavesNearest, Choosing
<1>7. NoShortcut'
  BY DEF NoShortcut, Choosing, Reached
<1> QED
  BY <1>1, <1>2, <1>3, <1>4, <1>5, <1>6, <1>7 DEF OriginIsNear, FrontierIsLate,
     RestIsBeyond, ArrivesByShortestWalk, Reached, Choosing

LEMMA ImproveKeeps ==
  ASSUME IInv, NEW l \in todo, Improve(l)
  PROVE  IInv'
<1> USE DEF IsGraph, Bounds, Infinite, IInv, Improve
<1>1. /\ l \in graph.links /\ l.from \in graph.nodes /\ l.to \in graph.nodes
      /\ l.metres \in Nat /\ l # NoLink
  BY DEF TypeOK
<1>2. /\ l.from \in settled /\ nearest.node = l.from
      /\ nearest.metres = distance[l.from] /\ distance[l.from] \in Nat
  BY <1>1 DEF TodoLeavesNearest, TypeOK, SettledFirst, Reached
<1>3. Through(l) \in Nat /\ Through(l) = distance[l.from] + l.metres
  BY <1>1, <1>2 DEF Through
<1>4. l.to \notin settled
  BY <1>1, <1>2, <1>3 DEF SettledFirst, Reached, Improves, TypeOK
<1>5. l.to # origin
  BY <1>1, <1>3 DEF OriginIsNear, Improves
<1>6. TypeOK'
  BY <1>1, <1>3 DEF TypeOK, Entry
<1>7. /\ distance'[l.to] = Through(l)
      /\ arrival'[l.to] = l
      /\ \A n \in graph.nodes \ {l.to} : distance'[n] = distance[n] /\ arrival'[n] = arrival[n]
  BY <1>1 DEF TypeOK
<1>8. OriginIsNear'
  BY <1>5, <1>7 DEF OriginIsNear, TypeOK
<1>9. DistancesAreWalks'
  <2>1. <<l.to, distance[l.from] + l.metres>> \in Walks
    BY <1>1, <1>2, WalkExtends DEF DistancesAreWalks, Reached
  <2> QED
    BY <2>1, <1>3, <1>7, WalksKept DEF DistancesAreWalks, Reached
<1>10. FrontierIsLate'
  <2>1. ASSUME NEW f \in frontier PROVE Reached(f.node)' /\ distance'[f.node] <= f.metres
    BY <1>3, <1>7 DEF FrontierIsLate, Reached, Improves, TypeOK
  <2>2. Reached(l.to)' /\ distance'[l.to] <= Through(l)
    BY <1>3, <1>7 DEF Reached
  <2> QED  BY <2>1, <2>2 DEF FrontierIsLate, Entry
<1>11. FrontierIsComplete'
  BY <1>7 DEF FrontierIsComplete, Reached
<1>12. SettledFirst'
  <2>1. \A n \in settled : n \in graph.nodes \ {l.to}
    BY <1>4 DEF TypeOK
  <2>2. \A n \in settled' : Reached(n)' /\ distance'[n] <= nearest'.metres /\ ~Beyond(distance[n])'
    BY <2>1, <1>7 DEF SettledFirst, Reached, Beyond
  <2>3. \A f \in frontier' : nearest'.metres <= f.metres
    BY <1>1, <1>2, <1>3 DEF SettledFirst, Entry
  <2> QED  BY <2>2, <2>3 DEF SettledFirst
<1>13. TodoLeavesNearest'
  BY <1>2, <1>4, <1>7 DEF TodoLeavesNearest, TypeOK
<1>14. NoShortcut'
  <2> SUFFICES ASSUME NEW k \in graph.links \ todo', k.from \in settled
               PROVE  Reached(k.to)' /\ distance'[k.to] <= distance'[k.from] + k.metres
    BY DEF NoShortcut
  <2>1. k.from \in graph.nodes \ {l.to} /\ k.to \in graph.nodes /\ k.metres \in Nat
    BY <1>4 DEF TypeOK
  <2>2. CASE k = l
    BY <2>2, <1>2, <1>3, <1>7, <2>1 DEF Reached
  <2>3. CASE k # l
    <3>1. Reached(k.to) /\ distance[k.to] <= distance[k.from] + k.metres
      BY <2>3 DEF NoShortcut
    <3>2. distance[k.from] \in Nat
      BY DEF SettledFirst, Reached
    <3>3. CASE k.to = l.to
      BY <3>1, <3>2, <3>3, <2>1, <1>3, <1>7 DEF Reached, Improves
    <3>4. CASE k.to # l.to
      BY <3>1, <3>4, <2>1, <1>7 DEF Reached
    <3> QED  BY <3>3, <3>4
  <2> QED  BY <2>2, <2>3
<1>15. RestIsBeyond'
  BY DEF RestIsBeyond
<1>16. ArrivesByShortestWalk'
  <2> SUFFICES ASSUME NEW n \in graph.nodes \ {origin}, Reached(n)'
               PROVE  /\ arrival'[n] \in graph.links
                      /\ arrival'[n].to = n
                      /\ arrival'[n].from \in settled
                      /\ distance'[n] = distance'[arrival'[n].from] + arrival'[n].metres
    BY DEF ArrivesByShortestWalk
  <2>1. CASE n = l.to
    BY <2>1, <1>1, <1>2, <1>3, <1>4, <1>7
  <2>2. CASE n # l.to
    <3>1. Reached(n)
      BY <2>2, <1>7 DEF Reached
    <3>2. arrival[n].from \in graph.nodes \ {l.to}
      BY <3>1, <1>4 DEF ArrivesByShortestWalk, TypeOK
    <3> QED  BY <2>2, <3>1, <3>2, <1>7 DEF ArrivesByShortestWalk
  <2> QED  BY <2>1, <2>2
<1> QED
  BY <1>6, <1>8, <1>9, <1>10, <1>11, <1>12, <1>13, <1>14, <1>15, <1>16

LEMMA PassByKeeps ==
  ASSUME IInv, NEW l \in todo, PassBy(l)
  PROVE  IInv'
<1> USE DEF IsGraph, Bounds, Infinite, IInv, PassBy
<1>1. TypeOK'
  BY DEF TypeOK
<1>2. DistancesAreWalks'
  BY WalksKept DEF DistancesAreWalks, Reached
<1>3. SettledFirst'
  BY DEF SettledFirst, Reached, Beyond
<1>4. NoShortcut'
  <2>1. Reached(l.to) /\ distance[l.to] <= distance[l.from] + l.metres
    <3>1. l \in graph.links /\ l.to \in graph.nodes /\ l.metres \in Nat
      BY DEF TypeOK
    <3>2. nearest.metres = distance[l.from] /\ nearest.metres \in Nat
      BY DEF TodoLeavesNearest, TypeOK
    <3> QED  BY <3>1, <3>2 DEF Improves, Through, Reached, TypeOK
  <2> QED  BY <2>1 DEF NoShortcut, Reached
<1> QED
  BY <1>1, <1>2, <1>3, <1>4 DEF OriginIsNear, FrontierIsLate, FrontierIsComplete,
     TodoLeavesNearest, RestIsBeyond, ArrivesByShortestWalk, Reached

LEMMA FinishKeeps ==
  ASSUME IInv, Finish
  PROVE  IInv'
<1> USE DEF IsGraph, Bounds, Infinite, IInv, Finish
<1>1. TypeOK'
  BY DEF TypeOK
<1>2. DistancesAreWalks'
  BY WalksKept DEF DistancesAreWalks, Reached
<1>3. SettledFirst'
  BY DEF SettledFirst, Reached, Beyond
<1>4. RestIsBeyond'
  <2> SUFFICES ASSUME NEW n \in graph.nodes \ settled, Reached(n)
               PROVE  Beyond(distance[n])
    BY DEF RestIsBeyond, Reached, Beyond
  <2>1. Entry(n, distance[n]) \in frontier
    BY DEF FrontierIsComplete, Choosing
  <2>2. PICK e \in frontier : Nearest(e) /\ Beyond(e.metres)
    BY <2>1
  <2>3. e.metres <= distance[n] /\ e.metres \in Nat
    BY <2>1, <2>2 DEF Nearest, Entry, TypeOK
  <2> QED  BY <2>2, <2>3 DEF Beyond, TypeOK, Reached
<1> QED
  BY <1>1, <1>2, <1>3, <1>4 DEF OriginIsNear, FrontierIsLate, FrontierIsComplete,
     TodoLeavesNearest, NoShortcut, ArrivesByShortestWalk, Reached, Choosing

LEMMA ReturnKeeps ==
  ASSUME IInv, Return
  PROVE  IInv'
<1>1. (IsGraph(graph))'
  BY DEF IInv, TypeOK, Return
<1>2. (IsGraph(graph) /\ Idle => IInv)'
  BY IdleEstablishes, PTL
<1> QED  BY <1>1, <1>2 DEF Return

LEMMA StepKeeps == IInv /\ [Next]_vars => IInv'
<1> SUFFICES ASSUME IInv, [Next]_vars PROVE IInv'
  OBVIOUS
<1>1. ASSUME NEW o \in graph.nodes, NEW m \in Limits, Begin(o, m) PROVE IInv'
  BY <1>1, BeginKeeps
<1>2. ASSUME NEW e \in frontier, Skip(e) PROVE IInv'
  BY <1>2, SkipKeeps
<1>3. ASSUME NEW e \in frontier, Settle(e) PROVE IInv'
  BY <1>3, SettleKeeps
<1>4. ASSUME NEW l \in todo, Improve(l) PROVE IInv'
  BY <1>4, ImproveKeeps
<1>5. ASSUME NEW l \in todo, PassBy(l) PROVE IInv'
  BY <1>5, PassByKeeps
<1>6. CASE Finish
  BY <1>6, FinishKeeps
<1>7. CASE Return
  BY <1>7, ReturnKeeps
<1>8. CASE UNCHANGED vars
  BY <1>8 DEF vars, IInv, TypeOK, OriginIsNear, DistancesAreWalks, Walks, Lengths, Closed,
     FrontierIsLate, FrontierIsComplete, SettledFirst, TodoLeavesNearest, NoShortcut,
     RestIsBeyond, ArrivesByShortestWalk, Reached, Beyond
<1> QED
  BY <1>1, <1>2, <1>3, <1>4, <1>5, <1>6, <1>7, <1>8 DEF Next

LEMMA InvariantHolds == Spec => []IInv
<1>1. Init => IInv
  BY IdleEstablishes DEF Init
<1> QED  BY <1>1, StepKeeps, PTL DEF Spec

---------------------------------------------------------------------------
(* What is promised *)

\* When the search is done, the lengths that are too long to matter or no
\* shorter than what was found are closed under driving on.
LEMMA NoShorterWalk ==
  ASSUME IInv, phase = "done"
  PROVE  \A x \in Walks : ~Beyond(x[2]) => Reached(x[1]) /\ distance[x[1]] <= x[2]
<1> USE DEF IsGraph, Bounds, Infinite, IInv
<1> DEFINE Late(n, m) == Beyond(m) \/ (Reached(n) /\ distance[n] <= m)
           C == {x \in Lengths : Late(x[1], x[2])}
<1>1. <<origin, 0>> \in C
  BY DEF TypeOK, Lengths, OriginIsNear, Reached
<1>2. ASSUME NEW n \in graph.nodes, NEW m \in Nat, Late(n, m),
             NEW l \in graph.links, l.from = n
      PROVE  l.to \in graph.nodes /\ m + l.metres \in Nat /\ Late(l.to, m + l.metres)
  <2>1. l.to \in graph.nodes /\ l.metres \in Nat
    BY DEF TypeOK
  <2>2. CASE Beyond(m)
    BY <2>1, <2>2 DEF Beyond, TypeOK
  <2>3. CASE ~Beyond(m)
    <3>1. Reached(n) /\ distance[n] <= m
      BY <1>2, <2>3
    <3>2. ~Beyond(distance[n])
      BY <3>1, <2>3 DEF Beyond, TypeOK, Reached
    <3>3. n \in settled
      BY <3>1, <3>2 DEF RestIsBeyond
    <3>4. todo = {}
      BY DEF TodoLeavesNearest
    <3>5. Reached(l.to) /\ distance[l.to] <= distance[n] + l.metres
      BY <1>2, <3>3, <3>4 DEF NoShortcut
    <3> QED  BY <2>1, <3>1, <3>5 DEF Reached
  <2> QED  BY <2>2, <2>3
<1>3. \A x \in C : \A l \in graph.links : l.from = x[1] => <<l.to, x[2] + l.metres>> \in C
  <2> SUFFICES ASSUME NEW x \in C, NEW l \in graph.links, l.from = x[1]
               PROVE  <<l.to, x[2] + l.metres>> \in C
    OBVIOUS
  <2>1. x[1] \in graph.nodes /\ x[2] \in Nat /\ Late(x[1], x[2])
    BY DEF Lengths
  <2> HIDE DEF Late
  <2>2. l.to \in graph.nodes /\ x[2] + l.metres \in Nat /\ Late(l.to, x[2] + l.metres)
    BY <2>1, <1>2
  <2> QED  BY <2>2 DEF Lengths
<1>4. Closed(C)
  BY <1>1, <1>3 DEF Closed
<1>5. Walks \subseteq C
  <2> HIDE DEF C
  <2>1. C \in SUBSET Lengths
    BY DEF C
  <2> QED  BY <2>1, <1>4, ClosedHoldsWalks
<1> QED  BY <1>5

\* Every variable of the search keeps its type (Graph.reachable).
THEOREM SearchTypeCorrect == Spec => []TypeOK
BY InvariantHolds, PTL DEF IInv

\* On every graph and within every limit, reachable returns exactly the
\* shortest lengths: none it gives is made up, none within the limit is
\* missed or could be shorter (graph.go:264, the heap with entries left
\* behind and the early stop).
THEOREM SearchIsExact == Spec => []ExactWithinLimit
<1>1. IInv => ExactWithinLimit
  BY NoShorterWalk DEF IInv, ExactWithinLimit, DistancesAreWalks
<1> QED  BY <1>1, InvariantHolds, PTL

\* The roads that arrive lead back to the origin along shortest walks, so the
\* walk back of Path ends and drives what was measured (graph.go:207).
THEOREM SearchLeadsBack == Spec => []ArrivesByShortestWalk
BY InvariantHolds, PTL DEF IInv

=============================================================================
