--------------------------- MODULE JourneysProofs ---------------------------
(***************************************************************************)
(* Theorems about Journeys, for every map, every extract and every zones   *)
(* that satisfy RoadgenAssumption and JourneysAssumption.  The parts, in   *)
(* order: the heap of the search; the network as it is loaded, and that    *)
(* what is generated can be driven; the search of Search read through the  *)
(* refinement mapping; the way back; what lies ahead of a vehicle, and the *)
(* invariant of it all; lengths of walks, and why a journey is a shortest  *)
(* one; why it keeps to the streets; why the network is a largest set of   *)
(* intersections that the streets connect; and where vehicles are sent.    *)
(***************************************************************************)
EXTENDS Journeys, RoadgenProofs

-----------------------------------------------------------------------------
(* The heap.                                                               *)

\* The places of a heap.
Slots(q) == 1..Len(q)

\* No entry is nearer than its parent.
Ordered(q) == \A i \in 2..Len(q) : q[i \div 2].metres <= q[i].metres

\* The same entries in some order.
Permuted(q, r) ==
  /\ r \in Heaps /\ Len(r) = Len(q) /\ ToSet(r) = ToSet(q)
  /\ IsInjective(q) => IsInjective(r)

\* What is in the places of a heap.
LEMMA HeapType ==
  ASSUME NEW q \in Heaps
  PROVE  /\ Len(q) \in Nat /\ DOMAIN q = Slots(q)
         /\ \A i \in Slots(q) : q[i] \in [node : Nat, metres : Nat] /\ q[i].metres \in Nat
<1>1. q \in Seq([node : Nat, metres : Nat])
  BY DEF Heaps
<1>2. Len(q) \in Nat /\ DOMAIN q = 1..Len(q)
  BY <1>1, LenProperties
<1>3. \A i \in 1..Len(q) : q[i] \in [node : Nat, metres : Nat]
  BY <1>1, ElementOfSeq
<1>4. QED
  BY <1>2, <1>3 DEF Slots

\* What a swap puts where.
LEMMA SwapValues ==
  ASSUME NEW q \in Heaps, NEW i \in Slots(q), NEW j \in Slots(q)
  PROVE  /\ Swap(q, i, j) \in Heaps /\ Len(Swap(q, i, j)) = Len(q)
         /\ \A k \in Slots(q) :
              Swap(q, i, j)[k] = IF k = j THEN q[i] ELSE IF k = i THEN q[j] ELSE q[k]
<1> DEFINE E == [node : Nat, metres : Nat]
           r == [q EXCEPT ![i] = q[j]]
<1>1. q \in Seq(E) /\ q[i] \in E /\ q[j] \in E
  BY HeapType DEF Heaps
<1>2. i \in 1..Len(q) /\ j \in 1..Len(q)
  BY DEF Slots
<1> HIDE DEF E
<1>3. /\ r \in Seq(E) /\ Len(r) = Len(q)
      /\ \A k \in 1..Len(q) : r[k] = IF k = i THEN q[j] ELSE q[k]
  BY <1>1, <1>2, ExceptSeq
<1> HIDE DEF r
<1>4. /\ [r EXCEPT ![j] = q[i]] \in Seq(E) /\ Len([r EXCEPT ![j] = q[i]]) = Len(q)
      /\ \A k \in 1..Len(q) : [r EXCEPT ![j] = q[i]][k] = IF k = j THEN q[i] ELSE r[k]
  BY <1>1, <1>2, <1>3, ExceptSeq
<1>5. Swap(q, i, j) = [r EXCEPT ![j] = q[i]]
  BY DEF Swap, r
<1>6. QED
  BY <1>3, <1>4, <1>5 DEF Slots, Heaps, E

\* A swap reorders.
LEMMA SwapPermutes ==
  ASSUME NEW q \in Heaps, NEW i \in Slots(q), NEW j \in Slots(q)
  PROVE  Permuted(q, Swap(q, i, j))
<1>1. PICK r \in Heaps : r = Swap(q, i, j)
  BY SwapValues
<1>2. /\ Len(r) = Len(q) /\ DOMAIN q = Slots(q) /\ DOMAIN r = Slots(q)
      /\ \A k \in Slots(q) : r[k] = IF k = j THEN q[i] ELSE IF k = i THEN q[j] ELSE q[k]
  BY <1>1, SwapValues, HeapType DEF Slots
<1>3. ToSet(r) = ToSet(q)
  BY <1>2 DEF ToSet
<1>4. ASSUME IsInjective(q)
      PROVE  IsInjective(r)
  BY <1>2, <1>4 DEF IsInjective
<1>5. QED
  BY <1>1, <1>2, <1>3, <1>4 DEF Permuted

\* SiftUp is the function its definition says.
LEMMA SiftUpUnfolds ==
  ASSUME NEW q \in Heaps, NEW c \in Nat
  PROVE  SiftUp[<<q, c>>] =
           IF c \notin 2..Len(q) \/ q[c \div 2].metres <= q[c].metres THEN q
           ELSE SiftUp[<<Swap(q, c \div 2, c), c \div 2>>]
<1> DEFINE D == Heaps \X Nat
           Rests(x) == x[2] \notin 2..Len(x[1]) \/ x[1][x[2] \div 2].metres <= x[1][x[2]].metres
           stop == {x \in D : Rests(x)}
           on(x) == <<Swap(x[1], x[2] \div 2, x[2]), x[2] \div 2>>
           next == [x \in D |-> IF x \in stop THEN x ELSE on(x)]
           base == [x \in D |-> x[1]]
           step == [y \in D \X Heaps |-> y[2]]
           m == [x \in D |-> x[2]]
           Meets(f) == f = [x \in D |-> IF Rests(x) THEN x[1] ELSE f[on(x)]]
<1>1. ASSUME NEW x \in D \ stop
      PROVE  on(x) \in D /\ on(x)[2] < x[2]
  <2>1. x[1] \in Heaps /\ x[2] \in Nat /\ x[2] \in 2..Len(x[1]) /\ Len(x[1]) \in Nat
    BY HeapType
  <2>2. x[2] \div 2 \in Nat /\ x[2] \div 2 >= 1 /\ x[2] \div 2 < x[2]
    BY <2>1
  <2>3. x[2] \div 2 \in Slots(x[1]) /\ x[2] \in Slots(x[1])
    BY <2>1, <2>2 DEF Slots
  <2>4. Swap(x[1], x[2] \div 2, x[2]) \in Heaps
    BY <2>1, <2>3, SwapValues
  <2>5. QED
    BY <2>2, <2>4
<1>2. next \in [D -> D] /\ \A x \in D \ stop : next[x] = on(x)
  <2> HIDE DEF D, stop, on
  <2>1. QED
    BY <1>1
<1>3. \A x \in D \ stop : m[next[x]] < m[x]
  <2> HIDE DEF stop, next
  <2>1. QED
    BY <1>1, <1>2
<1>4. base \in [D -> Heaps] /\ m \in [D -> Nat] /\ step \in [D \X Heaps -> Heaps]
  OBVIOUS
<1>5. stop \in SUBSET D
  OBVIOUS
<1>6. PICK f \in [D -> Heaps] : \A x \in D : Unfolds(f, x, stop, next, base, step)
  <2> HIDE DEF D, stop, next, base, step, m
  <2>1. QED
    BY <1>2, <1>3, <1>4, <1>5, Recursion
<1>7. ASSUME NEW x \in D
      PROVE  f[x] = IF Rests(x) THEN x[1] ELSE f[on(x)]
  <2>1. CASE Rests(x)
    BY <1>6, <2>1 DEF Unfolds
  <2>2. CASE ~Rests(x)
    <3>1. x \in D \ stop
      BY <2>2
    <3>2. next[x] \in D /\ next[x] = on(x)
      BY <1>2, <3>1
    <3> HIDE DEF next, stop
    <3>3. f[x] = step[<<x, f[next[x]]>>]
      BY <1>6, <3>1 DEF Unfolds
    <3>4. f[next[x]] \in Heaps
      BY <3>2
    <3>5. f[x] = f[on(x)]
      BY <3>2, <3>3, <3>4
    <3>6. QED
      BY <2>2, <3>5
  <2>3. QED
    BY <2>1, <2>2
<1>8. Meets(f)
  <2> HIDE DEF Rests, on, D
  <2>1. QED
    BY <1>7
<1>9. SiftUp = CHOOSE g : Meets(g)
  BY DEF SiftUp
<1>10. Meets(SiftUp)
  <2> HIDE DEF Meets
  <2>1. QED
    BY <1>8, <1>9
<1>11. <<q, c>> \in D
  OBVIOUS
<1>12. SiftUp[<<q, c>>] = IF Rests(<<q, c>>) THEN <<q, c>>[1] ELSE SiftUp[on(<<q, c>>)]
  <2> HIDE DEF D, on, Rests
  <2>1. QED
    BY <1>10, <1>11
<1>13. QED
  <2> HIDE DEF D
  <2>1. QED
    BY <1>12

\* Reordering twice is reordering.
LEMMA PermutedTransitive ==
  ASSUME NEW p, NEW q, NEW r, Permuted(p, q), Permuted(q, r)
  PROVE  Permuted(p, r)
BY DEF Permuted

\* Halving an index leads to the parent, and only the two children lead back.
LEMMA Halves ==
  ASSUME NEW i \in Nat, i >= 2
  PROVE  /\ i \div 2 \in Nat /\ 1 <= i \div 2 /\ i \div 2 < i
         /\ \A p \in Nat : i \div 2 = p <=> i \in {2 * p, 2 * p + 1}
OBVIOUS

\* A heap but for the entry at c, which may be nearer than its parent.
Rising(q, c) ==
  /\ \A i \in 2..Len(q) : i # c => q[i \div 2].metres <= q[i].metres
  /\ \A i \in 2..Len(q) : i \div 2 = c /\ c >= 2 => q[c \div 2].metres <= q[i].metres

\* An entry that rose past its parent can be out of order with its new parent only.
LEMMA RisingStep ==
  ASSUME NEW q \in Heaps, NEW c \in 2..Len(q), Rising(q, c),
         ~(q[c \div 2].metres <= q[c].metres)
  PROVE  c \div 2 \in Slots(q) /\ Rising(Swap(q, c \div 2, c), c \div 2)
<1>1. /\ Len(q) \in Nat /\ DOMAIN q = Slots(q)
      /\ \A i \in Slots(q) : q[i].metres \in Nat
  BY HeapType
<1>2. PICK p \in Nat : p = c \div 2 /\ 1 <= p /\ p < c
  BY <1>1, Halves
<1>3. p \in Slots(q) /\ c \in Slots(q)
  BY <1>1, <1>2 DEF Slots
<1>4. PICK r \in Heaps : r = Swap(q, p, c)
  BY <1>3, SwapValues
<1>5. /\ Len(r) = Len(q)
      /\ \A k \in Slots(q) : r[k] = IF k = c THEN q[p] ELSE IF k = p THEN q[c] ELSE q[k]
  BY <1>3, <1>4, SwapValues
<1>6. ASSUME NEW i \in 2..Len(q)
      PROVE  i \in Nat /\ i >= 2 /\ i \in Slots(q) /\ i \div 2 \in Slots(q) /\ i \div 2 < i
  <2>1. i \in Nat /\ i >= 2
    BY <1>1
  <2>2. i \div 2 \in Nat /\ 1 <= i \div 2 /\ i \div 2 < i
    BY <2>1, Halves
  <2>3. QED
    BY <1>1, <2>1, <2>2 DEF Slots
<1>7. q[c].metres < q[p].metres
  BY <1>1, <1>2, <1>3
<1>8. ASSUME NEW i \in 2..Len(q), i # p
      PROVE  r[i \div 2].metres <= r[i].metres
  <2>1. CASE i = c
    <3>1. r[i] = q[p] /\ r[i \div 2] = q[c]
      BY <1>2, <1>3, <1>5, <2>1
    <3>2. QED
      BY <1>1, <1>3, <1>7, <3>1
  <2>2. CASE i # c
    <3>1. r[i] = q[i] /\ q[i \div 2].metres <= q[i].metres
      BY <1>5, <1>6, <1>8, <2>2 DEF Rising
    <3>2. CASE i \div 2 = p
      <4>1. r[i \div 2] = q[c]
        BY <1>2, <1>3, <1>5, <3>2
      <4>2. QED
        BY <1>1, <1>3, <1>6, <1>7, <3>1, <3>2, <4>1, SMTT(30)
    <3>3. CASE i \div 2 = c
      <4>1. r[i \div 2] = q[p]
        BY <1>2, <1>3, <1>5, <3>3
      <4>2. q[p].metres <= q[i].metres
        BY <1>2, <3>3 DEF Rising
      <4>3. QED
        BY <3>1, <4>1, <4>2
    <3>4. CASE i \div 2 # p /\ i \div 2 # c
      BY <1>5, <1>6, <3>1, <3>4
    <3>5. QED
      BY <3>2, <3>3, <3>4
  <2>3. QED
    BY <2>1, <2>2
<1>9. ASSUME NEW i \in 2..Len(q), i \div 2 = p, p >= 2
      PROVE  r[p \div 2].metres <= r[i].metres
  <2>1. p \in 2..Len(q) /\ p \div 2 \in Slots(q) /\ p \div 2 < p /\ p # c
    BY <1>1, <1>2, <1>3, <1>6, <1>9 DEF Slots
  <2>2. p \div 2 # c /\ p \div 2 # p
    BY <1>2, <2>1 DEF Slots
  <2>3. r[p \div 2] = q[p \div 2] /\ q[p \div 2].metres <= q[p].metres
    BY <1>5, <2>1, <2>2 DEF Rising
  <2>4. CASE i = c
    <3>1. r[i] = q[p]
      BY <1>3, <1>5, <2>4
    <3>2. QED
      BY <2>3, <3>1
  <2>5. CASE i # c
    <3>1. i # p
      BY <1>6, <1>9
    <3>2. r[i] = q[i]
      BY <1>5, <1>6, <2>5, <3>1
    <3>3. q[p].metres <= q[i].metres
      BY <1>9, <2>5 DEF Rising
    <3>4. QED
      BY <1>1, <1>3, <1>6, <2>1, <2>3, <3>2, <3>3, SMTT(30)
  <2>6. QED
    BY <2>4, <2>5
<1>10. Rising(r, p)
  BY <1>5, <1>8, <1>9 DEF Rising
<1>11. QED
  BY <1>2, <1>3, <1>4, <1>10

\* What a sift is for.
Sifted(q, r) == Permuted(q, r) /\ Ordered(r)

\* Rising from one of the first k places ends in a heap.
RisesWell(k) ==
  \A q \in Heaps, c \in Nat :
    c <= k /\ c \in Slots(q) /\ Rising(q, c) => Sifted(q, SiftUp[<<q, c>>])

\* By induction on the place.
LEMMA RisesWellStep ==
  ASSUME NEW k \in Nat, RisesWell(k)
  PROVE  RisesWell(k + 1)
<1> SUFFICES ASSUME NEW q \in Heaps, NEW c \in Nat, c <= k + 1, c \in Slots(q), Rising(q, c)
             PROVE  Sifted(q, SiftUp[<<q, c>>])
  BY DEF RisesWell
<1>1. Len(q) \in Nat
  BY HeapType
<1>2. CASE c \notin 2..Len(q) \/ q[c \div 2].metres <= q[c].metres
  <2>1. SiftUp[<<q, c>>] = q
    BY <1>2, SiftUpUnfolds
  <2>2. Permuted(q, q)
    BY DEF Permuted
  <2>3. Ordered(q)
    <3>1. CASE c \in 2..Len(q)
      BY <1>2, <3>1 DEF Ordered, Rising
    <3>2. CASE c \notin 2..Len(q)
      BY <3>2 DEF Ordered, Rising
    <3>3. QED
      BY <3>1, <3>2
  <2>4. QED
    BY <2>1, <2>2, <2>3 DEF Sifted
<1>3. CASE c \in 2..Len(q) /\ ~(q[c \div 2].metres <= q[c].metres)
  <2>1. SiftUp[<<q, c>>] = SiftUp[<<Swap(q, c \div 2, c), c \div 2>>]
    BY <1>3, SiftUpUnfolds
  <2>2. PICK p \in Nat : p = c \div 2 /\ p < c
    BY <1>1, <1>3, Halves
  <2>3. p \in Slots(q) /\ Rising(Swap(q, p, c), p)
    BY <1>3, <2>2, RisingStep
  <2>4. PICK r \in Heaps : r = Swap(q, p, c) /\ Permuted(q, r) /\ Len(r) = Len(q)
    BY <2>3, SwapPermutes, SwapValues
  <2>5. p <= k /\ p \in Slots(r)
    BY <2>2, <2>3, <2>4 DEF Slots
  <2>6. Sifted(r, SiftUp[<<r, p>>])
    BY <2>3, <2>4, <2>5 DEF RisesWell
  <2>7. QED
    BY <2>1, <2>2, <2>4, <2>6, PermutedTransitive DEF Sifted
<1>4. QED
  BY <1>2, <1>3

\* push: rising mends a heap that is out of order at one place.
LEMMA SiftUpOrders ==
  ASSUME NEW q \in Heaps, NEW c \in Slots(q), Rising(q, c)
  PROVE  Sifted(q, SiftUp[<<q, c>>])
<1> DEFINE Well == {k \in Nat : RisesWell(k)}
<1>1. 0 \in Well
  <2>1. \A r \in Heaps : 0 \notin Slots(r)
    BY HeapType DEF Slots
  <2>2. RisesWell(0)
    <3> SUFFICES ASSUME NEW r \in Heaps, NEW d \in Nat, d <= 0, d \in Slots(r)
                 PROVE  FALSE
      BY DEF RisesWell
    <3>1. d = 0
      OBVIOUS
    <3>2. QED
      BY <2>1, <3>1
  <2>3. QED
    BY <2>2
<1>2. \A k \in Nat : k \in Well => k + 1 \in Well
  BY RisesWellStep
<1>3. Nat \subseteq Well
  <2> HIDE DEF Well
  <2>1. QED
    BY <1>1, <1>2, Naturally
<1>4. c \in Nat /\ RisesWell(c)
  BY <1>3, HeapType DEF Slots
<1>5. QED
  BY <1>4 DEF RisesWell

\* The child that moves up is nearer than its parent, and no further than its sibling.
LEMMA SmallestChild ==
  ASSUME NEW q \in Heaps, NEW p \in Nat \ {0}, Nearer(q, p) # {}
  PROVE  LET s == Smallest(q, p) IN
         /\ s \in Slots(q) /\ s \in {2 * p, 2 * p + 1} /\ s \div 2 = p /\ p < s /\ p \in Slots(q)
         /\ q[s].metres < q[p].metres
         /\ \A d \in {2 * p, 2 * p + 1} \cap Slots(q) : q[s].metres <= q[d].metres
<1>1. /\ Len(q) \in Nat /\ DOMAIN q = Slots(q)
      /\ \A i \in Slots(q) : q[i].metres \in Nat
  BY HeapType
<1>2. \A c \in Nearer(q, p) :
        /\ c \in {2 * p, 2 * p + 1} /\ c \in Slots(q) /\ q[c].metres < q[p].metres
        /\ c \in Nat /\ q[c].metres \in Nat
  BY <1>1 DEF Nearer, Slots
<1> DEFINE Least(c) == \A d \in Nearer(q, p) :
             q[c].metres < q[d].metres \/ (q[c].metres = q[d].metres /\ c <= d)
<1>3. \E c \in Nearer(q, p) : Least(c)
  <2>1. PICK c \in Nearer(q, p) : TRUE
    OBVIOUS
  <2>2. CASE Least(c)
    BY <2>2
  <2>3. CASE ~Least(c)
    <3>1. PICK d \in Nearer(q, p) :
            ~(q[c].metres < q[d].metres \/ (q[c].metres = q[d].metres /\ c <= d))
      BY <2>3
    <3>2. \A e \in Nearer(q, p) : e = c \/ e = d
      BY <1>2, <2>1, <3>1
    <3>3. Least(d)
      BY <1>2, <2>1, <3>1, <3>2
    <3>4. QED
      BY <3>3
  <2>4. QED
    BY <2>2, <2>3
<1> DEFINE s == Smallest(q, p)
<1>4. s \in Nearer(q, p) /\ Least(s)
  <2> HIDE DEF Least
  <2>1. Smallest(q, p) = CHOOSE c \in Nearer(q, p) : Least(c)
    BY DEF Smallest, Least
  <2>2. QED
    BY <1>3, <2>1
<1> HIDE DEF s
<1>5. s \in {2 * p, 2 * p + 1} /\ s \in Slots(q) /\ s \in Nat /\ q[s].metres < q[p].metres
  BY <1>2, <1>4
<1>6. s \div 2 = p /\ p < s /\ p \in Slots(q)
  <2>1. s >= 2 /\ p < s
    BY <1>5
  <2>2. s \div 2 = p
    BY <1>5, <2>1, Halves
  <2>3. QED
    BY <1>1, <1>5, <2>1, <2>2 DEF Slots
<1>7. ASSUME NEW d \in {2 * p, 2 * p + 1} \cap Slots(q)
      PROVE  q[s].metres <= q[d].metres
  <2>1. CASE d \in Nearer(q, p)
    BY <1>2, <1>4, <2>1
  <2>2. CASE d \notin Nearer(q, p)
    <3>1. ~(q[d].metres < q[p].metres)
      BY <1>1, <2>2 DEF Nearer
    <3>2. q[d].metres \in Nat /\ q[p].metres \in Nat /\ q[s].metres \in Nat
      BY <1>1, <1>5, <1>6
    <3>3. QED
      BY <1>5, <3>1, <3>2
  <2>3. QED
    BY <2>1, <2>2
<1>8. QED
  BY <1>5, <1>6, <1>7 DEF s

\* SiftDown is the function its definition says.
LEMMA SiftDownUnfolds ==
  ASSUME NEW q \in Heaps, NEW c \in Nat \ {0}
  PROVE  SiftDown[<<q, c>>] =
           IF Nearer(q, c) = {} THEN q
           ELSE SiftDown[<<Swap(q, c, Smallest(q, c)), Smallest(q, c)>>]
<1> DEFINE D == Heaps \X (Nat \ {0})
           Rests(x) == Nearer(x[1], x[2]) = {}
           stop == {x \in D : Rests(x)}
           on(x) == <<Swap(x[1], x[2], Smallest(x[1], x[2])), Smallest(x[1], x[2])>>
           next == [x \in D |-> IF x \in stop THEN x ELSE on(x)]
           base == [x \in D |-> x[1]]
           step == [y \in D \X Heaps |-> y[2]]
           left(x) == IF x[2] <= Len(x[1]) THEN Len(x[1]) - x[2] ELSE 0
           m == [x \in D |-> left(x)]
           Meets(f) == f = [x \in D |-> IF Rests(x) THEN x[1] ELSE f[on(x)]]
<1>1. ASSUME NEW x \in D \ stop
      PROVE  on(x) \in D /\ left(on(x)) < left(x)
  <2>1. x[1] \in Heaps /\ x[2] \in Nat \ {0} /\ Nearer(x[1], x[2]) # {} /\ Len(x[1]) \in Nat
    BY HeapType
  <2>2. PICK s \in Slots(x[1]) : s = Smallest(x[1], x[2]) /\ x[2] < s /\ x[2] \in Slots(x[1])
    BY <2>1, SmallestChild
  <2>3. PICK r \in Heaps : r = Swap(x[1], x[2], s) /\ Len(r) = Len(x[1])
    BY <2>1, <2>2, SwapValues
  <2>4. on(x) = <<r, s>>
    BY <2>2, <2>3
  <2>5. s \in Nat \ {0} /\ s <= Len(x[1]) /\ x[2] <= Len(x[1])
    BY <2>1, <2>2 DEF Slots
  <2> HIDE DEF on
  <2>6. on(x) \in D
    BY <2>4, <2>5
  <2>7. left(on(x)) = Len(x[1]) - s /\ left(x) = Len(x[1]) - x[2]
    BY <2>3, <2>4, <2>5
  <2>8. QED
    BY <2>1, <2>2, <2>5, <2>6, <2>7
<1>2. next \in [D -> D] /\ \A x \in D \ stop : next[x] = on(x)
  <2> HIDE DEF D, stop, on
  <2>1. QED
    BY <1>1
<1>3. \A x \in D \ stop : m[next[x]] < m[x]
  <2> HIDE DEF stop, next, left, on
  <2>1. QED
    BY <1>1, <1>2
<1>4. base \in [D -> Heaps] /\ step \in [D \X Heaps -> Heaps]
  OBVIOUS
<1>a. m \in [D -> Nat]
  <2>1. ASSUME NEW x \in D
        PROVE  left(x) \in Nat
    <3>1. Len(x[1]) \in Nat
      BY HeapType
    <3>2. QED
      BY <3>1
  <2> HIDE DEF left
  <2>2. QED
    BY <2>1
<1>5. stop \in SUBSET D
  OBVIOUS
<1>6. PICK f \in [D -> Heaps] : \A x \in D : Unfolds(f, x, stop, next, base, step)
  <2> HIDE DEF D, stop, next, base, step, m
  <2>1. QED
    BY <1>2, <1>3, <1>4, <1>a, <1>5, Recursion
<1>7. ASSUME NEW x \in D
      PROVE  f[x] = IF Rests(x) THEN x[1] ELSE f[on(x)]
  <2>1. CASE Rests(x)
    BY <1>6, <2>1 DEF Unfolds
  <2>2. CASE ~Rests(x)
    <3>1. x \in D \ stop
      BY <2>2
    <3>2. next[x] \in D /\ next[x] = on(x)
      BY <1>2, <3>1
    <3> HIDE DEF next, stop
    <3>3. f[x] = step[<<x, f[next[x]]>>]
      BY <1>6, <3>1 DEF Unfolds
    <3>4. f[next[x]] \in Heaps
      BY <3>2
    <3>5. f[x] = f[on(x)]
      BY <3>2, <3>3, <3>4
    <3>6. QED
      BY <2>2, <3>5
  <2>3. QED
    BY <2>1, <2>2
<1>8. Meets(f)
  <2> HIDE DEF Rests, on, D
  <2>1. QED
    BY <1>7
<1>9. SiftDown = CHOOSE g : Meets(g)
  BY DEF SiftDown
<1>10. Meets(SiftDown)
  <2> HIDE DEF Meets
  <2>1. QED
    BY <1>8, <1>9
<1>11. <<q, c>> \in D
  OBVIOUS
<1>12. SiftDown[<<q, c>>] = IF Rests(<<q, c>>) THEN <<q, c>>[1] ELSE SiftDown[on(<<q, c>>)]
  <2> HIDE DEF D, on, Rests
  <2>1. QED
    BY <1>10, <1>11
<1>13. QED
  <2> HIDE DEF D
  <2>1. QED
    BY <1>12

\* A heap but for the entry at c, which may be further than its children.
Sinking(q, c) ==
  /\ \A i \in 2..Len(q) : i \div 2 # c => q[i \div 2].metres <= q[i].metres
  /\ \A i \in 2..Len(q) : i \div 2 = c /\ c >= 2 => q[c \div 2].metres <= q[i].metres

\* An entry that sank below its smallest child can be out of order with its new children only.
LEMMA SinkingStep ==
  ASSUME NEW q \in Heaps, NEW p \in Nat \ {0}, Sinking(q, p), Nearer(q, p) # {}
  PROVE  Sinking(Swap(q, p, Smallest(q, p)), Smallest(q, p))
<1>1. /\ Len(q) \in Nat /\ DOMAIN q = Slots(q)
      /\ \A i \in Slots(q) : q[i].metres \in Nat
  BY HeapType
<1>2. PICK s \in Slots(q) :
        /\ s = Smallest(q, p) /\ s \div 2 = p /\ p < s /\ p \in Slots(q)
        /\ q[s].metres < q[p].metres
        /\ \A d \in {2 * p, 2 * p + 1} \cap Slots(q) : q[s].metres <= q[d].metres
  BY SmallestChild
<1>p. p \in Slots(q) /\ s \in Slots(q)
  BY <1>2
<1>3. PICK r \in Heaps : r = Swap(q, p, s)
  BY <1>p, SwapValues
<1>4. /\ Len(r) = Len(q)
      /\ \A k \in Slots(q) : r[k] = IF k = s THEN q[p] ELSE IF k = p THEN q[s] ELSE q[k]
  BY <1>p, <1>3, SwapValues
<1>5. ASSUME NEW i \in 2..Len(q)
      PROVE  /\ i \in Nat /\ i >= 2 /\ i \in Slots(q) /\ i \div 2 \in Slots(q) /\ i \div 2 < i
             /\ i \div 2 = p => i \in {2 * p, 2 * p + 1}
  <2>1. i \in Nat /\ i >= 2
    BY <1>1
  <2>2. /\ i \div 2 \in Nat /\ 1 <= i \div 2 /\ i \div 2 < i
        /\ i \div 2 = p => i \in {2 * p, 2 * p + 1}
    BY <2>1, Halves
  <2>3. QED
    BY <1>1, <2>1, <2>2 DEF Slots
<1>6. s \in 2..Len(q) /\ s \in Nat
  BY <1>1, <1>2 DEF Slots
<1>7. ASSUME NEW i \in 2..Len(q), i \div 2 # s
      PROVE  r[i \div 2].metres <= r[i].metres
  <2>1. CASE i = p
    <3>1. i # s /\ i \div 2 # p /\ i \div 2 # s
      BY <1>2, <1>5, <1>7, <2>1 DEF Slots
    <3>a. r[i] = q[s] /\ r[i \div 2] = q[i \div 2]
      BY <1>4, <1>5, <2>1, <3>1
    <3>2. q[i \div 2].metres <= q[s].metres
      BY <1>2, <1>5, <1>6, <2>1 DEF Sinking
    <3>3. QED
      BY <3>a, <3>2
  <2>2. CASE i = s
    <3>1. r[i] = q[p] /\ r[i \div 2] = q[s]
      BY <1>2, <1>4, <2>2
    <3>2. QED
      BY <1>1, <1>2, <3>1
  <2>3. CASE i # p /\ i # s
    <3>1. r[i] = q[i]
      BY <1>4, <1>5, <2>3
    <3>2. CASE i \div 2 = p
      <4>1. r[i \div 2] = q[s]
        BY <1>2, <1>4, <3>2
      <4>2. QED
        BY <1>2, <1>5, <3>1, <3>2, <4>1
    <3>3. CASE i \div 2 # p
      BY <1>4, <1>5, <1>7, <3>1, <3>3 DEF Sinking
    <3>4. QED
      BY <3>2, <3>3
  <2>4. QED
    BY <2>1, <2>2, <2>3
<1>8. ASSUME NEW i \in 2..Len(q), i \div 2 = s, s >= 2
      PROVE  r[s \div 2].metres <= r[i].metres
  <2>1. r[s \div 2] = q[s]
    BY <1>2, <1>4
  <2>2. i # s /\ i # p
    BY <1>2, <1>5, <1>6, <1>8 DEF Slots
  <2>3. r[i] = q[i]
    BY <1>4, <1>5, <2>2
  <2>4. q[s].metres <= q[i].metres
    BY <1>2, <1>8 DEF Sinking
  <2>5. QED
    BY <2>1, <2>3, <2>4
<1>9. Sinking(r, s)
  BY <1>4, <1>7, <1>8 DEF Sinking
<1>10. QED
  BY <1>2, <1>3, <1>9

\* Sinking from one of the last k places, or past them, ends in a heap.
SinksWell(k) ==
  \A q \in Heaps, c \in Nat \ {0} :
    Len(q) <= k + c /\ Sinking(q, c) => Sifted(q, SiftDown[<<q, c>>])

\* No child is nearer: the heap is in order.
LEMMA SinksAtRest ==
  ASSUME NEW q \in Heaps, NEW c \in Nat \ {0}, Sinking(q, c), Nearer(q, c) = {}
  PROVE  Sifted(q, SiftDown[<<q, c>>])
<1>1. /\ Len(q) \in Nat /\ DOMAIN q = Slots(q)
      /\ \A i \in Slots(q) : q[i].metres \in Nat
  BY HeapType
<1>2. SiftDown[<<q, c>>] = q
  BY SiftDownUnfolds
<1>3. Permuted(q, q)
  BY DEF Permuted
<1>4. ASSUME NEW i \in 2..Len(q)
      PROVE  q[i \div 2].metres <= q[i].metres
  <2>1. CASE i \div 2 = c
    <3>1. i \in Nat /\ i >= 2 /\ i \in Slots(q)
      BY <1>1 DEF Slots
    <3>2. i \in {2 * c, 2 * c + 1} /\ c < i
      BY <2>1, <3>1, Halves
    <3>3. ~(q[i].metres < q[c].metres)
      BY <1>1, <3>1, <3>2 DEF Nearer
    <3>4. c \in Slots(q)
      BY <1>1, <3>1, <3>2 DEF Slots
    <3>5. q[i].metres \in Nat /\ q[c].metres \in Nat
      BY <1>1, <3>1, <3>4
    <3>6. QED
      BY <2>1, <3>3, <3>5
  <2>2. CASE i \div 2 # c
    BY <2>2 DEF Sinking
  <2>3. QED
    BY <2>1, <2>2
<1>5. QED
  BY <1>2, <1>3, <1>4 DEF Sifted, Ordered

\* By induction on the places left below.
LEMMA SinksWellStep ==
  ASSUME NEW k \in Nat, SinksWell(k)
  PROVE  SinksWell(k + 1)
<1> SUFFICES ASSUME NEW q \in Heaps, NEW c \in Nat \ {0}, Len(q) <= k + 1 + c, Sinking(q, c),
                    Nearer(q, c) # {}
             PROVE  Sifted(q, SiftDown[<<q, c>>])
  BY SinksAtRest DEF SinksWell
<1>1. PICK s \in Slots(q) : s = Smallest(q, c) /\ c < s /\ c \in Slots(q)
  BY SmallestChild
<1>2. SiftDown[<<q, c>>] = SiftDown[<<Swap(q, c, s), s>>]
  BY <1>1, SiftDownUnfolds
<1>3. PICK r \in Heaps : r = Swap(q, c, s) /\ Permuted(q, r) /\ Len(r) = Len(q)
  BY <1>1, SwapPermutes, SwapValues
<1>4. Sinking(r, s)
  BY <1>1, <1>3, SinkingStep
<1>5. s \in Nat \ {0} /\ Len(q) <= k + s
  BY <1>1, HeapType DEF Slots
<1>6. Sifted(r, SiftDown[<<r, s>>])
  BY <1>3, <1>4, <1>5 DEF SinksWell
<1>7. QED
  BY <1>2, <1>3, <1>6, PermutedTransitive DEF Sifted

\* pop: sinking mends a heap that is out of order at one place.
LEMMA SiftDownOrders ==
  ASSUME NEW q \in Heaps, NEW c \in Nat \ {0}, Sinking(q, c)
  PROVE  Sifted(q, SiftDown[<<q, c>>])
<1> DEFINE Well == {k \in Nat : SinksWell(k)}
<1>1. 0 \in Well
  <2> SUFFICES ASSUME NEW r \in Heaps, NEW d \in Nat \ {0}, Len(r) <= 0 + d, Sinking(r, d)
               PROVE  Sifted(r, SiftDown[<<r, d>>])
    BY DEF SinksWell
  <2>1. Len(r) \in Nat /\ DOMAIN r = Slots(r)
    BY HeapType
  <2>2. Nearer(r, d) = {}
    BY <2>1 DEF Nearer, Slots
  <2>3. QED
    BY <2>2, SinksAtRest
<1>2. \A k \in Nat : k \in Well => k + 1 \in Well
  BY SinksWellStep
<1>3. Nat \subseteq Well
  <2> HIDE DEF Well
  <2>1. QED
    BY <1>1, <1>2, Naturally
<1>4. Len(q) \in Nat /\ SinksWell(Len(q)) /\ Len(q) <= Len(q) + c
  BY <1>3, HeapType
<1>5. QED
  BY <1>4 DEF SinksWell

\* A pushed entry is held with the others.
LEMMA PushHolds ==
  ASSUME NEW q \in Heaps, NEW e \in [node : Nat, metres : Nat], Ordered(q)
  PROVE  /\ Push(q, e) \in Heaps /\ Ordered(Push(q, e))
         /\ ToSet(Push(q, e)) = ToSet(q) \cup {e}
         /\ IsInjective(q) /\ e \notin ToSet(q) => IsInjective(Push(q, e))
<1> DEFINE n == Len(q)
<1>1. n \in Nat /\ DOMAIN q = Slots(q)
  BY HeapType
<1>2. PICK r \in Heaps :
        /\ r = Append(q, e) /\ Len(r) = n + 1
        /\ r[n + 1] = e /\ \A i \in 1..n : r[i] = q[i]
  <2> DEFINE E == [node : Nat, metres : Nat]
  <2>1. q \in Seq(E) /\ e \in E /\ Heaps = Seq(E)
    BY DEF Heaps
  <2> HIDE DEF E
  <2>2. /\ Append(q, e) \in Seq(E) /\ Len(Append(q, e)) = Len(q) + 1
        /\ \A i \in 1..Len(q) : Append(q, e)[i] = q[i]
        /\ Append(q, e)[Len(q) + 1] = e
    BY <2>1, AppendProperties
  <2>3. QED
    BY <2>1, <2>2
<1>3. /\ Len(r) = n + 1 /\ DOMAIN r = Slots(r)
      /\ r[n + 1] = e /\ \A i \in 1..n : r[i] = q[i]
  BY <1>2, HeapType
<1> HIDE DEF n
<1>4. n + 1 \in Slots(r)
  BY <1>1, <1>3 DEF Slots
<1>5. Rising(r, n + 1)
  <2>1. ASSUME NEW i \in 2..(n + 1)
        PROVE  i \in Nat /\ i >= 2 /\ i \div 2 \in 1..n /\ i \div 2 < i
    <3>1. i \in Nat /\ i >= 2
      BY <1>1
    <3>2. i \div 2 \in Nat /\ 1 <= i \div 2 /\ i \div 2 < i
      BY <3>1, Halves
    <3>3. QED
      BY <1>1, <3>1, <3>2
  <2>2. ASSUME NEW i \in 2..(n + 1), i # n + 1
        PROVE  r[i \div 2].metres <= r[i].metres
    <3>1. i \in 1..n /\ i \in 2..n /\ i \div 2 \in 1..n
      BY <1>1, <2>1, <2>2
    <3>2. QED
      BY <1>3, <3>1 DEF Ordered, n
  <2>3. ASSUME NEW i \in 2..(n + 1), i \div 2 = n + 1
        PROVE  FALSE
    BY <1>1, <2>1, <2>3
  <2>4. QED
    BY <1>3, <2>2, <2>3 DEF Rising
<1>6. PICK c \in Slots(r) : c = n + 1
  BY <1>4
<1>7. Sifted(r, SiftUp[<<r, c>>]) /\ Push(q, e) = SiftUp[<<r, c>>]
  BY <1>2, <1>5, <1>6, SiftUpOrders DEF Push, n
<1>8. ToSet(r) = ToSet(q) \cup {e}
  <2>1. \A x : x \in ToSet(r) <=> \E i \in 1..(n + 1) : r[i] = x
    BY <1>3 DEF ToSet, Slots
  <2>2. \A x : x \in ToSet(q) <=> \E i \in 1..n : q[i] = x
    BY <1>1 DEF ToSet, Slots, n
  <2>3. QED
    BY <1>1, <1>3, <2>1, <2>2
<1>9. ASSUME IsInjective(q), e \notin ToSet(q)
      PROVE  IsInjective(r)
  <2>1. \A i \in 1..n : q[i] # e
    BY <1>1, <1>9 DEF ToSet, Slots, n
  <2>2. \A i, j \in 1..n : q[i] = q[j] => i = j
    BY <1>1, <1>9 DEF IsInjective, Slots, n
  <2>3. \A i, j \in 1..(n + 1) : r[i] = r[j] => i = j
    BY <1>1, <1>3, <2>1, <2>2
  <2>4. QED
    BY <1>3, <2>3 DEF IsInjective, Slots
<1>10. QED
  BY <1>7, <1>8, <1>9 DEF Sifted, Permuted

\* Popping takes the first entry and leaves the others.
LEMMA PopLeaves ==
  ASSUME NEW q \in Heaps, q # <<>>, Ordered(q), IsInjective(q)
  PROVE  /\ Pop(q) \in Heaps /\ Ordered(Pop(q)) /\ IsInjective(Pop(q))
         /\ q[1] \in ToSet(q) /\ ToSet(Pop(q)) = ToSet(q) \ {q[1]}
<1> DEFINE n == Len(q)
<1>1. n \in Nat \ {0} /\ DOMAIN q = Slots(q) /\ 1 \in Slots(q) /\ n \in Slots(q)
  <2>1. n # 0
    BY EmptySeq, HeapType DEF Heaps
  <2>2. QED
    BY <2>1, HeapType DEF Slots
<1>2. PICK t \in Heaps : t = Swap(q, 1, n)
  BY <1>1, SwapValues
<1>3. Len(t) = n /\ \A k \in Slots(q) : t[k] = IF k = n THEN q[1] ELSE IF k = 1 THEN q[n] ELSE q[k]
  BY <1>1, <1>2, SwapValues
<1> HIDE DEF n
<1>4. PICK u \in Heaps :
        /\ u = SubSeq(t, 1, n - 1) /\ Len(u) = n - 1
        /\ \A k \in 1..(n - 1) : u[k] = t[k]
  <2> DEFINE E == [node : Nat, metres : Nat]
  <2>1. \A k \in 1..(n - 1) : t[k] \in E
    BY <1>1, <1>3, HeapType DEF Slots
  <2>2. Heaps = Seq(E) /\ n \in Nat /\ 1 \in Int /\ n - 1 \in Int
    BY <1>1 DEF Heaps
  <2> HIDE DEF E
  <2>3. /\ SubSeq(t, 1, n - 1) \in Seq(E)
        /\ Len(SubSeq(t, 1, n - 1)) = IF 1 <= n - 1 THEN (n - 1) - 1 + 1 ELSE 0
        /\ \A k \in 1..((n - 1) - 1 + 1) : SubSeq(t, 1, n - 1)[k] = t[1 + k - 1]
    BY <2>1, <2>2, SubSeqProperties
  <2>4. Len(SubSeq(t, 1, n - 1)) = n - 1
    BY <1>1, <2>3
  <2>5. \A k \in 1..(n - 1) : k \in 1..((n - 1) - 1 + 1) /\ 1 + k - 1 = k
    BY <1>1
  <2>6. QED
    BY <2>2, <2>3, <2>4, <2>5
<1>5. /\ Len(u) = n - 1 /\ DOMAIN u = 1..(n - 1)
      /\ \A k \in 1..(n - 1) : u[k] = t[k]
  BY <1>4, HeapType DEF Slots
<1>6. \A k \in 1..(n - 1) : u[k] = IF k = 1 THEN q[n] ELSE q[k]
  <2>1. \A k \in 1..(n - 1) : k \in 1..n /\ k # n
    BY <1>1
  <2>a. Slots(q) = 1..n
    BY DEF Slots, n
  <2>2. QED
    BY <1>3, <1>5, <2>1, <2>a
<1>7. Sinking(u, 1)
  <2>1. ASSUME NEW i \in 2..(n - 1), i \div 2 # 1
        PROVE  u[i \div 2].metres <= u[i].metres
    <3>1. i \in Nat /\ i >= 2
      BY <1>1
    <3>2. i \div 2 \in Nat /\ 1 <= i \div 2 /\ i \div 2 < i
      BY <3>1, Halves
    <3>3. i \in 1..(n - 1) /\ i \div 2 \in 1..(n - 1) /\ i # 1 /\ i \in 2..n
      BY <1>1, <3>1, <3>2
    <3>4. u[i] = q[i] /\ u[i \div 2] = q[i \div 2]
      BY <1>6, <2>1, <3>3
    <3>5. QED
      BY <3>3, <3>4 DEF Ordered, n
  <2>2. QED
    BY <1>5, <2>1 DEF Sinking
<1>8. Sifted(u, SiftDown[<<u, 1>>]) /\ Pop(q) = SiftDown[<<u, 1>>]
  <2>1. Sifted(u, SiftDown[<<u, 1>>])
    BY <1>7, SiftDownOrders
  <2>2. Front(t) = u
    BY <1>3, <1>4 DEF Front
  <2>3. QED
    BY <1>2, <2>1, <2>2 DEF Pop, n
<1>9. \A i, j \in 1..n : q[i] = q[j] => i = j
  BY <1>1 DEF IsInjective, Slots, n
<1>10. IsInjective(u)
  <2>1. \A i, j \in 1..(n - 1) : u[i] = u[j] => i = j
    BY <1>1, <1>6, <1>9
  <2>2. QED
    BY <1>5, <2>1 DEF IsInjective
<1>11. q[1] \in ToSet(q)
  BY <1>1 DEF ToSet
<1>12. ToSet(u) = ToSet(q) \ {q[1]}
  <2>1. \A x : x \in ToSet(u) <=> \E i \in 1..(n - 1) : u[i] = x
    BY <1>5 DEF ToSet
  <2>2. \A x : x \in ToSet(q) <=> \E i \in 1..n : q[i] = x
    BY <1>1 DEF ToSet, Slots, n
  <2>3. ASSUME NEW x \in ToSet(u)
        PROVE  x \in ToSet(q) /\ x # q[1]
    <3>1. PICK i \in 1..(n - 1) : u[i] = x
      BY <2>1
    <3>2. PICK j \in 2..n : x = q[j]
      BY <1>1, <1>6, <3>1
    <3>3. QED
      BY <1>1, <1>9, <2>2, <3>2
  <2>4. ASSUME NEW x \in ToSet(q), x # q[1]
        PROVE  x \in ToSet(u)
    <3>1. PICK j \in 1..n : x = q[j]
      BY <2>2
    <3>2. j # 1
      BY <2>4, <3>1
    <3>3. CASE j = n
      <4>1. 1 \in 1..(n - 1) /\ u[1] = x
        BY <1>1, <1>6, <3>1, <3>2, <3>3
      <4>2. QED
        BY <2>1, <4>1
    <3>4. CASE j # n
      <4>1. j \in 1..(n - 1) /\ u[j] = x
        BY <1>1, <1>6, <3>1, <3>2, <3>4
      <4>2. QED
        BY <2>1, <4>1
    <3>5. QED
      BY <3>3, <3>4
  <2>5. QED
    BY <2>3, <2>4
<1>13. QED
  BY <1>8, <1>10, <1>11, <1>12 DEF Sifted, Permuted

\* The first entry of a heap is a nearest one.
LEMMA FirstIsNearest ==
  ASSUME NEW q \in Heaps, Ordered(q), NEW e \in ToSet(q)
  PROVE  q[1].metres <= e.metres
<1> DEFINE NoNearer(i) == i \in Slots(q) => q[1].metres <= q[i].metres
           Good == {k \in Nat : \A i \in Nat : i <= k => NoNearer(i)}
<1>1. /\ Len(q) \in Nat /\ DOMAIN q = Slots(q)
      /\ \A i \in Slots(q) : q[i].metres \in Nat /\ 1 \in Slots(q)
  BY HeapType DEF Slots
<1>2. 0 \in Good
  BY <1>1 DEF Slots
<1>3. ASSUME NEW k \in Nat, k \in Good
      PROVE  k + 1 \in Good
  <2>1. NoNearer(k + 1)
    <3>1. CASE k = 0
      BY <1>1, <3>1
    <3>2. CASE k # 0 /\ k + 1 \in Slots(q)
      <4>1. k + 1 \in 2..Len(q)
        BY <1>1, <3>2 DEF Slots
      <4>2. PICK p \in Nat : p = (k + 1) \div 2 /\ 1 <= p /\ p < k + 1
        BY <3>2, Halves
      <4>3. q[p].metres <= q[k + 1].metres
        BY <4>1, <4>2 DEF Ordered
      <4>4. p \in Slots(q) /\ p <= k
        BY <1>1, <4>1, <4>2 DEF Slots
      <4>5. q[1].metres <= q[p].metres
        BY <1>3, <4>4
      <4>6. QED
        BY <1>1, <3>2, <4>3, <4>4, <4>5
    <3>3. QED
      BY <3>1, <3>2
  <2>2. ASSUME NEW i \in Nat, i <= k + 1
        PROVE  NoNearer(i)
    <3>1. i = k + 1 \/ i <= k
      BY <2>2
    <3>2. CASE i <= k
      <4> HIDE DEF NoNearer
      <4>1. QED
        BY <1>3, <3>2
    <3>3. CASE i = k + 1
      <4> HIDE DEF NoNearer
      <4>1. QED
        BY <2>1, <3>3
    <3>4. QED
      BY <3>1, <3>2, <3>3
  <2> HIDE DEF NoNearer
  <2>3. QED
    BY <2>2
<1>4. Nat \subseteq Good
  <2> HIDE DEF Good
  <2>1. QED
    BY <1>2, <1>3, Naturally
<1>5. PICK i \in Slots(q) : e = q[i]
  BY <1>1 DEF ToSet
<1>6. i \in Nat /\ NoNearer(i)
  <2>1. i \in Nat
    BY <1>1 DEF Slots
  <2> HIDE DEF NoNearer
  <2>2. QED
    BY <1>4, <2>1
<1>7. QED
  BY <1>5, <1>6

-----------------------------------------------------------------------------
(* The loaded network.                                                     *)

\* How far it is to each of a sequence of points.
Measures(f, points) ==
  \A i \in DOMAIN points :
    f[i] = IF i = 1 THEN 0 ELSE f[i - 1] + Metres(points[i - 1], points[i])

\* Along adds one distance after the other.
LEMMA AlongSteps ==
  ASSUME NEW points \in Seq(DOMAIN Place), points # <<>>
  PROVE  \E f \in [DOMAIN points -> Nat] : Measures(f, points) /\ Along(points) = f[Len(points)]
<1> DEFINE D == 1..Len(points)
           stop == {i \in D : i = 1}
           next == [i \in D |-> IF i = 1 THEN i ELSE i - 1]
           base == [i \in D |-> 0]
           step == [x \in D \X Nat |-> IF x[1] = 1 THEN 0 ELSE x[2] + Metres(points[x[1] - 1], points[x[1]])]
           m == [i \in D |-> i]
           Meets(f) == f = [i \in D |-> IF i = 1 THEN 0 ELSE f[i - 1] + Metres(points[i - 1], points[i])]
<1>1. Len(points) \in Nat \ {0} /\ DOMAIN points = D /\ \A i \in D : points[i] \in DOMAIN Place
  BY EmptySeq, LenProperties, ElementOfSeq
<1> HIDE DEF D
<1>d. D \in SUBSET Nat /\ \A i \in D : i # 1 => i - 1 \in D
  BY <1>1 DEF D
<1>2. next \in [D -> D] /\ base \in [D -> Nat] /\ m \in [D -> Nat] /\ stop \in SUBSET D
  BY <1>d
<1>3. step \in [D \X Nat -> Nat]
  <2>1. ASSUME NEW i \in D, NEW k \in Nat, i # 1
        PROVE  k + Metres(points[i - 1], points[i]) \in Nat
    <3>1. points[i - 1] \in DOMAIN Place /\ points[i] \in DOMAIN Place
      BY <1>1, <1>d, <2>1
    <3>2. Metres(points[i - 1], points[i]) \in Nat
      BY <3>1, JourneysAssumption
    <3>3. QED
      BY <3>2
  <2>2. QED
    BY <2>1
<1>4. \A i \in D \ stop : m[next[i]] < m[i]
  BY <1>d
<1>5. PICK f \in [D -> Nat] : \A i \in D : Unfolds(f, i, stop, next, base, step)
  <2> HIDE DEF stop, next, base, step, m
  <2>1. QED
    BY <1>2, <1>3, <1>4, Recursion
<1>6. ASSUME NEW i \in D
      PROVE  f[i] = IF i = 1 THEN 0 ELSE f[i - 1] + Metres(points[i - 1], points[i])
  <2>1. CASE i = 1
    BY <1>5, <2>1 DEF Unfolds
  <2>2. CASE i # 1
    <3>1. i - 1 \in D /\ next[i] = i - 1 /\ i \notin stop
      BY <1>d, <2>2
    <3>2. f[i] = step[<<i, f[i - 1]>>] /\ f[i - 1] \in Nat
      BY <1>5, <3>1 DEF Unfolds
    <3>3. QED
      BY <2>2, <3>2
  <2>3. QED
    BY <2>1, <2>2
<1>7. Meets(f)
  BY <1>6
<1> DEFINE upTo == CHOOSE g : Meets(g)
<1>8. Along(points) = upTo[Len(points)]
  BY <1>1 DEF Along
<1>9. Meets(upTo)
  <2> HIDE DEF Meets
  <2>1. QED
    BY <1>7
<1>10. Measures(upTo, points)
  <2> HIDE DEF upTo
  <2>1. QED
    BY <1>1, <1>9 DEF Measures
<1>11. upTo = f
  <2> DEFINE Same == {k \in Nat : k \in D => upTo[k] = f[k]}
  <2> HIDE DEF upTo
  <2>a. ASSUME NEW i \in D
        PROVE  upTo[i] = IF i = 1 THEN 0 ELSE upTo[i - 1] + Metres(points[i - 1], points[i])
    BY <1>1, <1>10 DEF Measures
  <2>1. 0 \in Same
    BY <1>1 DEF D
  <2>2. ASSUME NEW k \in Nat, k \in Same
        PROVE  k + 1 \in Same
    <3>1. CASE k + 1 \in D
      <4>1. k + 1 = 1 \/ (k + 1 # 1 /\ (k + 1) - 1 = k /\ k \in D)
        BY <1>d, <3>1
      <4>2. QED
        BY <1>6, <2>a, <2>2, <3>1, <4>1
    <3>2. QED
      BY <3>1
  <2>3. Nat \subseteq Same
    <3> HIDE DEF Same
    <3>1. QED
      BY <2>1, <2>2, Naturally
  <2>4. \A k \in D : upTo[k] = f[k]
    BY <1>d, <2>3
  <2>5. DOMAIN upTo = D /\ upTo = [i \in DOMAIN upTo |-> upTo[i]]
    <3>1. upTo = [i \in D |-> IF i = 1 THEN 0 ELSE upTo[i - 1] + Metres(points[i - 1], points[i])]
      BY <1>9
    <3>2. QED
      BY <3>1
  <2>6. QED
    BY <2>4, <2>5
<1>12. QED
  BY <1>1, <1>8, <1>10, <1>11

\* Lengths are natural numbers.
LEMMA AlongIsNatural ==
  ASSUME NEW points \in Seq(DOMAIN Place), points # <<>>
  PROVE  Along(points) \in Nat
<1>1. Len(points) \in DOMAIN points
  BY EmptySeq, LenProperties
<1>2. QED
  BY <1>1, AlongSteps

\* Roads in a direction, as they are loaded.
Ways == [road : Nat, forward : BOOLEAN, from : Nat, to : Nat, metres : Nat]

\* A network the program accepts.
Accepted(n) == IsNetwork(n) /\ Loadable(n)

\* What the checks of the loader and the file's types give.
LEMMA RoadsOfNetwork ==
  ASSUME NEW n, Accepted(n)
  PROVE  /\ Len(n.positions) \in Nat /\ DOMAIN n.positions = 1..Len(n.positions)
         /\ \A k \in DOMAIN n.positions : n.positions[k] \in DOMAIN Place
         /\ Len(n.roads) \in Nat /\ DOMAIN n.roads = 1..Len(n.roads)
         /\ \A i \in DOMAIN n.roads :
              /\ n.roads[i].a \in DOMAIN n.positions /\ n.roads[i].b \in DOMAIN n.positions
              /\ n.roads[i].oneway \in BOOLEAN /\ n.roads[i].via \in Seq(DOMAIN Place)
<1>1. n.positions \in Seq(DOMAIN Place) /\ n.roads \in Seq(Road)
  BY DEF Accepted, IsNetwork
<1>2. \A x \in Road : x.oneway \in BOOLEAN /\ x.via \in Seq(DOMAIN Place)
  BY DEF Road
<1>3. /\ Len(n.positions) \in Nat /\ DOMAIN n.positions = 1..Len(n.positions)
      /\ \A k \in DOMAIN n.positions : n.positions[k] \in DOMAIN Place
      /\ Len(n.roads) \in Nat /\ DOMAIN n.roads = 1..Len(n.roads)
      /\ \A i \in DOMAIN n.roads : n.roads[i] \in Road
  BY <1>1, LenProperties, ElementOfSeq
<1>4. \A r \in ToSet(n.roads) : {r.a, r.b} \subseteq DOMAIN n.positions
  BY DEF Accepted, Loadable
<1>5. \A i \in DOMAIN n.roads : {n.roads[i].a, n.roads[i].b} \subseteq DOMAIN n.positions
  BY <1>4 DEF ToSet
<1>6. QED
  BY <1>2, <1>3, <1>5

\* What Link makes of a road, in both directions.
LEMMA LinkType ==
  ASSUME NEW n, Accepted(n), NEW i \in DOMAIN n.roads
  PROVE  /\ Link(n, i, TRUE) \in Ways /\ Link(n, i, FALSE) \in Ways
         /\ Link(n, i, TRUE).road = i /\ Link(n, i, FALSE).road = i
         /\ Link(n, i, TRUE).forward = TRUE /\ Link(n, i, FALSE).forward = FALSE
         /\ Link(n, i, TRUE).from = n.roads[i].a /\ Link(n, i, FALSE).from = n.roads[i].b
         /\ Link(n, i, TRUE).to = n.roads[i].b /\ Link(n, i, FALSE).to = n.roads[i].a
<1> DEFINE r == n.roads[i]
           points == <<n.positions[r.a]>> \o r.via \o <<n.positions[r.b]>>
<1>1. /\ DOMAIN n.positions \subseteq Nat /\ i \in Nat
      /\ r.a \in DOMAIN n.positions /\ r.b \in DOMAIN n.positions /\ r.via \in Seq(DOMAIN Place)
      /\ n.positions[r.a] \in DOMAIN Place /\ n.positions[r.b] \in DOMAIN Place
  BY RoadsOfNetwork
<1>2. points \in Seq(DOMAIN Place) /\ points # <<>>
  <2>1. <<n.positions[r.a]>> \in Seq(DOMAIN Place) /\ <<n.positions[r.b]>> \in Seq(DOMAIN Place)
    BY <1>1
  <2>2. PICK s, t \in Seq(DOMAIN Place) : s = <<n.positions[r.a]>> \o r.via /\ t = <<n.positions[r.b]>>
    BY <1>1, <2>1, ConcatProperties
  <2>3. s \o t \in Seq(DOMAIN Place)
    BY ConcatProperties
  <2>4. Len(s) \in Nat /\ Len(t) = 1 /\ Len(s \o t) = Len(s) + Len(t)
    BY <2>2, LenProperties, ConcatProperties
  <2>5. Len(s \o t) # 0
    BY <2>4
  <2>6. QED
    BY <2>2, <2>3, <2>5, EmptySeq
<1> HIDE DEF points
<1>3. Along(points) \in Nat
  BY <1>2, AlongIsNatural
<1>4. /\ Link(n, i, TRUE) = [road |-> i, forward |-> TRUE, from |-> r.a, to |-> r.b,
                             metres |-> Along(points)]
      /\ Link(n, i, FALSE) = [road |-> i, forward |-> FALSE, from |-> r.b, to |-> r.a,
                              metres |-> Along(points)]
  BY DEF Link, points
<1>5. PICK a, b, c \in Nat : a = r.a /\ b = r.b /\ c = Along(points)
  BY <1>1, <1>3
<1> HIDE DEF r
<1> DEFINE on  == [road |-> i, forward |-> TRUE, from |-> a, to |-> b, metres |-> c]
           off == [road |-> i, forward |-> FALSE, from |-> b, to |-> a, metres |-> c]
<1>6. Link(n, i, TRUE) = on /\ Link(n, i, FALSE) = off
  BY <1>4, <1>5
<1>7. on \in Ways /\ off \in Ways
  BY <1>1 DEF Ways
<1>8. on.road = i /\ off.road = i /\ on.from = a /\ off.from = b /\ on.to = b /\ off.to = a
  OBVIOUS
<1>9. on.forward = TRUE /\ off.forward = FALSE
  OBVIOUS
<1> HIDE DEF on, off
<1>10. QED
  BY <1>5, <1>6, <1>7, <1>8, <1>9, Zenon DEF r

\* Loaded roads run between intersections, and none is the missing one.
LEMMA LinksType ==
  ASSUME NEW n, Accepted(n)
  PROVE  \A l \in Links(n) :
           l \in Ways /\ l.from \in DOMAIN n.positions /\ l.to \in DOMAIN n.positions /\ l # NoLink
<1> SUFFICES ASSUME NEW l \in Links(n)
             PROVE  /\ l \in Ways /\ l.from \in DOMAIN n.positions /\ l.to \in DOMAIN n.positions
                    /\ l # NoLink
  OBVIOUS
<1>1. PICK i \in DOMAIN n.roads : l = Link(n, i, TRUE) \/ l = Link(n, i, FALSE)
  BY DEF Links
<1>a. n.roads[i].a \in DOMAIN n.positions /\ n.roads[i].b \in DOMAIN n.positions
  BY RoadsOfNetwork
<1>2. NoLink \notin Ways
  BY JourneysAssumption DEF Ways
<1>b. l \in Ways
  BY <1>1, LinkType
<1>c. (l.from = n.roads[i].a \/ l.from = n.roads[i].b) /\ (l.to = n.roads[i].a \/ l.to = n.roads[i].b)
  <2>1. /\ Link(n, i, TRUE).from = n.roads[i].a /\ Link(n, i, FALSE).from = n.roads[i].b
        /\ Link(n, i, TRUE).to = n.roads[i].b /\ Link(n, i, FALSE).to = n.roads[i].a
    BY LinkType, ZenonT(30)
  <2>2. QED
    BY <1>1, <2>1, Zenon
<1>3. QED
  BY <1>2, <1>a, <1>b, <1>c

\* The roads out of an intersection, each of them once.
LEMMA LeavingHolds ==
  ASSUME NEW n, Accepted(n), NEW k \in DOMAIN n.positions
  PROVE  /\ Leaving(n, k) \in Seq(Ways) /\ IsInjective(Leaving(n, k))
         /\ ToSet(Leaving(n, k)) = {l \in Links(n) : l.from = k}
<1> DEFINE On(i)  == IF n.roads[i].a = k THEN <<Link(n, i, TRUE)>> ELSE <<>>
           Off(i) == IF n.roads[i].b = k /\ ~n.roads[i].oneway THEN <<Link(n, i, FALSE)>> ELSE <<>>
           ss == [i \in DOMAIN n.roads |-> On(i) \o Off(i)]
           Of(i) == {l \in Ways : /\ l.from = k
                                  /\ \/ l = Link(n, i, TRUE)
                                     \/ l = Link(n, i, FALSE) /\ ~n.roads[i].oneway}
<1>1. Len(n.roads) \in Nat /\ DOMAIN n.roads = 1..Len(n.roads)
  BY RoadsOfNetwork
<1>2. ASSUME NEW i \in DOMAIN n.roads
      PROVE  /\ On(i) \o Off(i) \in Seq(Ways) /\ IsInjective(On(i) \o Off(i))
             /\ ToSet(On(i) \o Off(i)) = Of(i)
  <2>a. PICK l \in Ways : l = Link(n, i, TRUE) /\ l.forward = TRUE /\ l.from = n.roads[i].a
    BY LinkType
  <2>b. PICK m \in Ways : m = Link(n, i, FALSE) /\ m.forward = FALSE /\ m.from = n.roads[i].b
    BY LinkType
  <2>1. /\ l = Link(n, i, TRUE) /\ m = Link(n, i, FALSE) /\ l # m
        /\ l.from = n.roads[i].a /\ m.from = n.roads[i].b
    BY <2>a, <2>b
  <2>2. /\ On(i) = (IF l.from = k THEN <<l>> ELSE <<>>)
        /\ Off(i) = (IF m.from = k /\ ~n.roads[i].oneway THEN <<m>> ELSE <<>>)
    BY <2>1
  <2>3. Of(i) = {x \in {l, m} : x.from = k /\ (x = m => ~n.roads[i].oneway)}
    BY <2>1
  <2> HIDE DEF On, Off, Of
  <2>4. /\ On(i) \in Seq(Ways) /\ Off(i) \in Seq(Ways)
        /\ IsInjective(On(i)) /\ IsInjective(Off(i))
        /\ ToSet(On(i)) = (IF l.from = k THEN {l} ELSE {})
        /\ ToSet(Off(i)) = (IF m.from = k /\ ~n.roads[i].oneway THEN {m} ELSE {})
    BY <2>2 DEF IsInjective, ToSet
  <2>c. PICK s, t \in Seq(Ways) : s = On(i) /\ t = Off(i)
    BY <2>4
  <2>d. ToSet(s) \cap ToSet(t) = {}
    BY <2>1, <2>4, <2>c
  <2>5. IsInjective(s \o t) /\ s \o t \in Seq(Ways) /\ ToSet(s \o t) = ToSet(s) \cup ToSet(t)
    BY <2>4, <2>c, <2>d, ConcatDistinct, ConcatProperties, ConcatHolds
  <2>e. n.roads[i].oneway \in BOOLEAN
    BY RoadsOfNetwork
  <2>6. ToSet(s) \cup ToSet(t) = Of(i)
    <3>1. \A x : x \in ToSet(s) \cup ToSet(t)
                   <=> \/ l.from = k /\ x = l
                       \/ m.from = k /\ ~n.roads[i].oneway /\ x = m
      BY <2>4, <2>c
    <3>2. QED
      BY <2>1, <2>3, <2>e, <3>1, ZenonT(30)
  <2>8. QED
    BY <2>5, <2>6, <2>c
<1> HIDE DEF On, Off, Of
<1>3. ss \in Seq(Seq(Ways)) /\ DOMAIN ss = DOMAIN n.roads /\ \A i \in DOMAIN ss : ss[i] = On(i) \o Off(i)
  BY <1>1, <1>2, FunctionIsSeq
<1>4. Leaving(n, k) = FlattenSeq(ss)
  BY DEF Leaving, On, Off
<1> HIDE DEF ss
<1>5. \A i \in DOMAIN ss : IsInjective(ss[i]) /\ ToSet(ss[i]) = Of(i)
  BY <1>2, <1>3
<1>6. ASSUME NEW i \in DOMAIN ss, NEW j \in DOMAIN ss, i # j
      PROVE  Of(i) \cap Of(j) = {}
  <2>1. \A x \in DOMAIN n.roads : Link(n, x, TRUE).road = x /\ Link(n, x, FALSE).road = x
    BY LinkType
  <2>2. QED
    BY <1>3, <1>6, <2>1 DEF Of
<1>7. IsInjective(FlattenSeq(ss))
  <2>1. \A i, j \in DOMAIN ss : i # j => ToSet(ss[i]) \cap ToSet(ss[j]) = {}
    BY <1>5, <1>6
  <2>2. QED
    BY <1>3, <1>5, <2>1, FlattenDistinct
<1>8. FlattenSeq(ss) \in Seq(Ways) /\ ToSet(FlattenSeq(ss)) = UNION {Of(i) : i \in DOMAIN n.roads}
  <2>1. FlattenSeq(ss) \in Seq(Ways) /\ ToSet(FlattenSeq(ss)) = UNION {ToSet(ss[i]) : i \in DOMAIN ss}
    BY <1>3, FlattenType, FlattenHolds
  <2>2. QED
    BY <1>3, <1>5, <2>1
<1>9. UNION {Of(i) : i \in DOMAIN n.roads} = {l \in Links(n) : l.from = k}
  <2>1. ASSUME NEW l \in Links(n), l.from = k
        PROVE  \E i \in DOMAIN n.roads : l \in Of(i)
    <3>1. l \in Ways
      BY LinksType
    <3>2. PICK i \in DOMAIN n.roads : \/ l = Link(n, i, TRUE)
                                      \/ l = Link(n, i, FALSE) /\ ~n.roads[i].oneway
      BY DEF Links
    <3>3. QED
      BY <2>1, <3>1, <3>2 DEF Of
  <2>2. ASSUME NEW i \in DOMAIN n.roads, NEW l \in Of(i)
        PROVE  l \in Links(n) /\ l.from = k
    BY DEF Of, Links
  <2>3. QED
    BY <2>1, <2>2
<1>10. QED
  BY <1>4, <1>7, <1>8, <1>9

-----------------------------------------------------------------------------
(* What roadgen makes can be loaded, and driven.                           *)

\* Whoever drives on from anywhere can come to be everywhere.
Connected(n) ==
  \A S \in SUBSET (DOMAIN n.positions) :
    S # {} /\ (\A l \in Links(n) : l.from \in S => l.to \in S) => S = DOMAIN n.positions

\* The links of a network lead where its roads do.
LEMMA LinksJoin ==
  ASSUME NEW n, Accepted(n), NEW x, NEW y
  PROVE  Joins(n, x, y) <=> \E l \in Links(n) : l.from = x /\ l.to = y
<1>1. ASSUME NEW i \in DOMAIN n.roads
      PROVE  /\ Link(n, i, TRUE).from = n.roads[i].a /\ Link(n, i, FALSE).from = n.roads[i].b
             /\ Link(n, i, TRUE).to = n.roads[i].b /\ Link(n, i, FALSE).to = n.roads[i].a
  BY LinkType, ZenonT(30)
<1>2. ASSUME Joins(n, x, y)
      PROVE  \E l \in Links(n) : l.from = x /\ l.to = y
  <2>1. PICK i \in DOMAIN n.roads : DrivenBy(n, i, x, y)
    BY <1>2 DEF Joins
  <2>2. CASE n.roads[i].a = x /\ n.roads[i].b = y
    <3>1. Link(n, i, TRUE) \in Links(n)
      BY DEF Links
    <3>2. QED
      BY <1>1, <2>2, <3>1
  <2>3. CASE n.roads[i].b = x /\ n.roads[i].a = y /\ ~n.roads[i].oneway
    <3>1. Link(n, i, FALSE) \in Links(n)
      BY <2>3 DEF Links
    <3>2. QED
      BY <1>1, <2>3, <3>1
  <2>4. QED
    BY <2>1, <2>2, <2>3 DEF DrivenBy
<1>3. ASSUME NEW l \in Links(n), l.from = x, l.to = y
      PROVE  Joins(n, x, y)
  <2>1. PICK i \in DOMAIN n.roads :
          l = Link(n, i, TRUE) \/ (l = Link(n, i, FALSE) /\ ~n.roads[i].oneway)
    BY DEF Links
  <2>2. DrivenBy(n, i, x, y)
    BY <1>1, <1>3, <2>1 DEF DrivenBy
  <2>3. QED
    BY <2>2 DEF Joins
<1>4. QED
  BY <1>2, <1>3

\* A network that passes validate can be loaded, and driven from anywhere to
\* anywhere: it is a largest class of intersections with the roads within it.
THEOREM GeneratedCanBeDriven ==
  \A e \in Extracts :
    Usable(Generate(e)) =>
      IsNetwork(Generate(e)) /\ Loadable(Generate(e)) /\ Connected(Generate(e))
<1> SUFFICES ASSUME NEW e \in Extracts, Usable(Generate(e))
             PROVE  IsNetwork(Generate(e)) /\ Loadable(Generate(e)) /\ Connected(Generate(e))
  OBVIOUS
<1>1. e \in Seq(Elements)
  BY JourneysAssumption
<1>2. PICK ways, n, m, kept : Made(e, ways, n, m, kept)
  BY <1>1, GenerateFacts
<1>3. m = Generate(e) /\ KeptOf(m, n, kept) /\ Laid(n) /\ Laid(m) /\ Usable(m)
  BY <1>2 DEF Made, BuiltOf, KeptOf
<1>4. IsNetwork(m) /\ Corners(m) = DOMAIN m.positions
  BY <1>3 DEF Laid, Corners
<1>5. PICK k, l \in Corners(m) :
        /\ Geo!Contains(ServiceArea, Place[m.positions[k]])
        /\ ~Geo!Contains(ServiceArea, Place[m.positions[l]])
  <2> DEFINE in(ring) == {i \in DOMAIN m.positions : Geo!Contains(ring, Place[m.positions[i]])}
  <2>1. in(ServiceArea) # {} /\ in(ServiceArea) # DOMAIN m.positions
    BY <1>3 DEF Usable
  <2>2. QED
    BY <1>4, <2>1
<1>6. m.positions # <<>>
  <2>1. m.positions = <<>> => DOMAIN m.positions = {}
    BY <1>4, EmptySeq, LenProperties DEF IsNetwork
  <2>2. QED
    BY <1>4, <1>5, <2>1
\* Were there no roads, nobody would come from the one to the other.
<1>7. m.roads # <<>>
  <2>1. SUFFICES ASSUME m.roads = <<>> PROVE FALSE
    OBVIOUS
  <2>2. DOMAIN m.roads = {}
    BY <2>1
  <2>3. KeptIn(m, {k})
    BY <2>2 DEF KeptIn, Joins
  <2>4. LeadsTo(m, k, l)
    BY <1>3, KeptLeads
  <2>5. l = k
    BY <2>3, <2>4 DEF LeadsTo
  <2>6. QED
    BY <1>5, <2>5
<1>8. \A r \in ToSet(m.roads) : {r.a, r.b} \subseteq DOMAIN m.positions /\ r.name \in DOMAIN m.names
  <2>1. \A i \in DOMAIN m.roads :
          /\ m.roads[i].a \in Corners(m) /\ m.roads[i].b \in Corners(m)
          /\ m.roads[i].name \in DOMAIN m.names
    BY <1>3 DEF Laid, KeptOf
  <2>2. QED
    BY <1>4, <2>1 DEF ToSet
<1>9. Loadable(m)
  BY <1>4, <1>5, <1>6, <1>7, <1>8 DEF Loadable
<1>10. Connected(m)
  <2>1. SUFFICES ASSUME NEW S \in SUBSET (DOMAIN m.positions), S # {},
                        \A f \in Links(m) : f.from \in S => f.to \in S
                 PROVE  S = DOMAIN m.positions
    BY DEF Connected
  <2>2. KeptIn(m, S)
    <3>1. Accepted(m)
      BY <1>4, <1>9 DEF Accepted
    <3>2. QED
      BY <2>1, <3>1, LinksJoin DEF KeptIn
  <2>3. PICK x \in S : TRUE
    BY <2>1
  <2>4. \A y \in Corners(m) : LeadsTo(m, x, y)
    BY <1>3, <1>4, KeptLeads
  <2>5. QED
    BY <1>4, <2>2, <2>4 DEF LeadsTo
<1>11. QED
  BY <1>3, <1>4, <1>9, <1>10

-----------------------------------------------------------------------------
(* The search, step by step.                                               *)

\* The proofs about Search, read through the refinement mapping.
P == INSTANCE SearchProofs WITH
  graph    <- Map(graph),
  Limits   <- {TripMax, Infinite},
  origin   <- call.from,
  limit    <- call.high,
  frontier <- ToSet(queue),
  todo     <- ToSet(todo)

\* The graph is what was made of a network worth having.
Loaded ==
  /\ extract \in Extracts /\ network = Generate(extract)
  /\ Accepted(network) /\ Connected(network)
  /\ graph = Load(network)

\* The loaded graph is the network, its roads listed where they leave, each once.
LEMMA GraphFacts ==
  ASSUME Loaded
  PROVE  /\ Nodes = DOMAIN network.positions /\ Nodes \subseteq Nat /\ 1 \in Nodes
         /\ graph.positions = network.positions
         /\ \A k \in Nodes : /\ graph.leaving[k] \in Seq(Ways) /\ IsInjective(graph.leaving[k])
                             /\ ToSet(graph.leaving[k]) = {l \in Links(network) : l.from = k}
         /\ graph.inside \subseteq Nodes /\ graph.outside \subseteq Nodes
<1>1. /\ graph.positions = network.positions
      /\ graph.leaving = [k \in DOMAIN network.positions |-> Leaving(network, k)]
      /\ graph.inside \subseteq DOMAIN network.positions
      /\ graph.outside \subseteq DOMAIN network.positions
  BY DEF Loaded, Load
<1>2. Nodes = DOMAIN network.positions
  BY <1>1 DEF Nodes
<1>3. Nodes \subseteq Nat /\ 1 \in Nodes
  <2>1. Len(network.positions) \in Nat /\ DOMAIN network.positions = 1..Len(network.positions)
    BY RoadsOfNetwork DEF Loaded
  <2>2. network.positions # <<>> /\ network.positions \in Seq(DOMAIN Place)
    BY DEF Loaded, Accepted, Loadable, IsNetwork
  <2>3. Len(network.positions) # 0
    BY <2>2, EmptySeq
  <2>4. QED
    BY <1>2, <2>1, <2>3
<1>4. \A k \in Nodes : /\ graph.leaving[k] \in Seq(Ways) /\ IsInjective(graph.leaving[k])
                       /\ ToSet(graph.leaving[k]) = {l \in Links(network) : l.from = k}
  BY <1>1, <1>2, LeavingHolds DEF Loaded
<1>5. QED
  BY <1>1, <1>2, <1>3, <1>4

\* It maps to a graph the abstract search accepts.
LEMMA MapFacts ==
  ASSUME Loaded
  PROVE  /\ Map(graph).nodes = Nodes /\ Map(graph).links = Links(network)
         /\ P!IsGraph(Map(graph))
<1>1. Map(graph).nodes = Nodes
  BY DEF Map, Nodes
<1>2. Map(graph).links = UNION {ToSet(l) : l \in ToSet(graph.leaving)}
  BY DEF Map
<1>3. DOMAIN graph.leaving = Nodes
  BY GraphFacts DEF Loaded, Load
<1>4. \A l \in Links(network) :
        l \in Ways /\ l.from \in Nodes /\ l.to \in Nodes /\ l # NoLink
  BY GraphFacts, LinksType DEF Loaded
<1>5. UNION {ToSet(l) : l \in ToSet(graph.leaving)} = Links(network)
  <2>1. ToSet(graph.leaving) = {graph.leaving[k] : k \in Nodes}
    BY <1>3 DEF ToSet
  <2>2. \A k \in Nodes : ToSet(graph.leaving[k]) = {l \in Links(network) : l.from = k}
    BY GraphFacts
  <2>3. QED
    BY <1>4, <2>1, <2>2
<1>6. Map(graph).links = Links(network)
  BY <1>2, <1>5
<1>7. P!IsGraph(Map(graph))
  <2>1. \A l \in Ways : l.metres \in Nat
    BY DEF Ways
  <2>2. QED
    BY <1>1, <1>4, <1>6, <2>1 DEF P!IsGraph
<1>8. QED
  BY <1>1, <1>6, <1>7

\* Taking the first of a sequence without repetitions takes it out of the set.
LEMMA TailDistinct ==
  ASSUME NEW X, NEW s \in Seq(X), s # <<>>, IsInjective(s)
  PROVE  /\ Head(s) \in ToSet(s) /\ Head(s) \in X
         /\ Tail(s) \in Seq(X) /\ IsInjective(Tail(s))
         /\ ToSet(Tail(s)) = ToSet(s) \ {Head(s)}
<1> DEFINE n == Len(s)
<1>1. n \in Nat \ {0} /\ DOMAIN s = 1..n /\ Head(s) = s[1]
  BY EmptySeq, LenProperties
<1>2. PICK t \in Seq(X) : t = Tail(s) /\ Len(t) = n - 1 /\ \A i \in 1..(n - 1) : t[i] = s[i + 1]
  <2>1. /\ Tail(s) \in Seq(X) /\ Len(Tail(s)) = n - 1
        /\ \A i \in 1..Len(Tail(s)) : Tail(s)[i] = s[i + 1]
    BY HeadTailProperties
  <2>2. QED
    BY <2>1, ZenonT(30)
<1>3. DOMAIN t = 1..(n - 1)
  BY <1>2, LenProperties
<1>4. Head(s) \in X
  BY HeadTailProperties
<1> HIDE DEF n
<1>5. \A i, j \in 1..n : s[i] = s[j] => i = j
  BY <1>1 DEF IsInjective
<1>6. IsInjective(t)
  <2>1. \A i \in 1..(n - 1) : i + 1 \in 1..n
    BY <1>1
  <2>2. \A i, j \in 1..(n - 1) : t[i] = t[j] => i = j
    BY <1>1, <1>2, <1>5, <2>1
  <2>3. QED
    BY <1>3, <2>2 DEF IsInjective
<1>7. ToSet(t) = ToSet(s) \ {s[1]}
  <2>1. \A x : x \in ToSet(t) <=> \E i \in 1..(n - 1) : t[i] = x
    BY <1>3 DEF ToSet
  <2>2. \A x : x \in ToSet(s) <=> \E i \in 1..n : s[i] = x
    BY <1>1 DEF ToSet
  <2>3. ASSUME NEW x \in ToSet(t)
        PROVE  x \in ToSet(s) /\ x # s[1]
    <3>1. PICK i \in 1..(n - 1) : t[i] = x
      BY <2>1
    <3>2. i + 1 \in 1..n /\ i + 1 # 1 /\ 1 \in 1..n /\ s[i + 1] = x
      BY <1>1, <1>2, <3>1
    <3>3. QED
      BY <1>5, <2>2, <3>2
  <2>4. ASSUME NEW x \in ToSet(s), x # s[1]
        PROVE  x \in ToSet(t)
    <3>1. PICK j \in 1..n : s[j] = x
      BY <2>2
    <3>2. j # 1
      BY <2>4, <3>1
    <3>3. PICK i \in 1..(n - 1) : j = i + 1
      <4>1. j - 1 \in 1..(n - 1) /\ j = (j - 1) + 1
        BY <1>1, <3>1, <3>2
      <4>2. QED
        BY <4>1
    <3>4. t[i] = x
      BY <1>2, <3>1, <3>3
    <3>5. QED
      BY <2>1, <3>4
  <2>5. QED
    BY <2>3, <2>4
<1>8. s[1] \in ToSet(s)
  BY <1>1 DEF ToSet
<1>9. QED
  BY <1>1, <1>2, <1>4, <1>6, <1>7, <1>8

\* What Path may be asked.
Asked == [from : Nodes, within : SUBSET Nodes, low : Nat, high : {TripMax, Infinite}]

\* The intersections settled so far, in an order in which each is reached from an
\* earlier one.
InOrder(k, rank) ==
  /\ rank \in [settled -> Nat] /\ \A n \in settled : rank[n] < k
  /\ \A n \in settled \ {call.from} :
       arrival[n].from \in settled /\ rank[arrival[n].from] < rank[n]

\* Every settled intersection was reached from one settled before it.
Ranked == \E k \in Nat, rank \in [settled -> Nat] : k = Cardinality(settled) /\ InOrder(k, rank)

\* The network is loaded, the heap is in order and holds each entry once, as todo does each
\* road, and what they map to satisfies the invariant of the abstract search.
SearchInv ==
  /\ Loaded
  /\ tries \in Seq(Asked)
  /\ call.from \in Nodes /\ call.within \in SUBSET Nodes /\ call.low \in Nat
  /\ queue \in Heaps /\ Ordered(queue) /\ IsInjective(queue)
  /\ todo \in Seq(Ways) /\ IsInjective(todo) /\ (todo # <<>> => phase = "choosing")
  /\ phase = "idle" => Idle
  /\ P!IInv

\* The empty sequence is the one that holds nothing.
LEMMA EmptyHolds ==
  ASSUME NEW X, NEW s \in Seq(X)
  PROVE  s = <<>> <=> ToSet(s) = {}
<1>1. Len(s) \in Nat /\ DOMAIN s = 1..Len(s)
  BY LenProperties
<1>2. CASE s = <<>>
  BY <1>2 DEF ToSet
<1>3. CASE s # <<>>
  <2>1. s[1] \in ToSet(s)
    BY <1>1, <1>3, EmptySeq DEF ToSet
  <2>2. QED
    BY <1>3, <2>1
<1>4. QED
  BY <1>2, <1>3

\* Each step of the search with its heap is one of the search with a set: Begin,
LEMMA BeginMaps ==
  ASSUME SearchInv, Begin
  PROVE  /\ call' \in Asked /\ call'.from \in Map(graph).nodes /\ call'.high \in {TripMax, Infinite}
         /\ P!Begin(call'.from, call'.high)
         /\ queue' \in Heaps /\ Ordered(queue') /\ IsInjective(queue')
<1>1. tries \in Seq(Asked) /\ tries # <<>> /\ call' = Head(tries) /\ Idle
  BY DEF SearchInv, Begin
<1>2. call' \in Asked
  BY <1>1, HeadTailProperties
<1>3. call'.from \in Nodes /\ call'.high \in {TripMax, Infinite}
  BY <1>2 DEF Asked
<1>4. Map(graph).nodes = Nodes /\ Nodes \subseteq Nat
  BY MapFacts, GraphFacts DEF SearchInv
<1>5. PICK e \in [node : Nat, metres : Nat] : e = Entry(call'.from, 0)
  BY <1>3, <1>4 DEF Entry
<1>6. <<>> \in Heaps /\ Ordered(<<>>) /\ IsInjective(<<>>) /\ ToSet(<<>>) = {}
  BY DEF Heaps, Ordered, IsInjective, ToSet
<1>7. queue' = Push(<<>>, e)
  BY <1>5 DEF Begin
<1>8. queue' \in Heaps /\ Ordered(queue') /\ IsInjective(queue') /\ ToSet(queue') = {e}
  BY <1>6, <1>7, PushHolds
<1>9. phase = "idle" /\ call'.high \in P!Bounds
  BY <1>3, JourneysAssumption DEF Begin, P!Bounds, P!Infinite, Infinite
<1>10. distance' = [n \in Nodes |-> IF n = call'.from THEN 0 ELSE Infinite]
  BY <1>1, <1>3 DEF Begin, Idle, Unreached
<1>11. /\ arrival' = [n \in Nodes |-> NoLink] /\ settled' = {} /\ nearest' = Entry(call'.from, 0)
       /\ todo' = <<>> /\ phase' = "choosing" /\ graph' = graph
  BY <1>1 DEF Begin, Idle, ByNoRoad, world
<1>12. ToSet(todo') = {} /\ ToSet(queue') = {Entry(call'.from, 0)}
  BY <1>5, <1>6, <1>8, <1>11
<1>13. P!Begin(call'.from, call'.high)
  BY <1>4, <1>9, <1>10, <1>11, <1>12 DEF P!Begin, P!Entry, P!Infinite, Infinite, Entry
<1>14. QED
  BY <1>2, <1>3, <1>4, <1>8, <1>13

\* What every step of the search can rely on.
LEMMA FrontierFacts ==
  ASSUME SearchInv, queue # <<>>
  PROVE  /\ queue[1] \in ToSet(queue) /\ P!Nearest(queue[1])
         /\ queue[1].node \in Nodes /\ queue[1].metres \in Nat
         /\ Pop(queue) \in Heaps /\ Ordered(Pop(queue)) /\ IsInjective(Pop(queue))
         /\ ToSet(Pop(queue)) = ToSet(queue) \ {queue[1]}
<1>1. queue \in Heaps /\ Ordered(queue) /\ IsInjective(queue) /\ P!TypeOK
  BY DEF SearchInv, P!IInv
<1>2. /\ queue[1] \in ToSet(queue)
      /\ Pop(queue) \in Heaps /\ Ordered(Pop(queue)) /\ IsInjective(Pop(queue))
      /\ ToSet(Pop(queue)) = ToSet(queue) \ {queue[1]}
  BY <1>1, PopLeaves
<1>3. \A e \in ToSet(queue) : queue[1].metres <= e.metres
  BY <1>1, FirstIsNearest
<1>4. queue[1] \in [node : Nodes, metres : Nat]
  BY <1>1, <1>2, MapFacts DEF SearchInv, P!TypeOK
<1>5. QED
  BY <1>2, <1>3, <1>4 DEF P!Nearest

\* Roads are left to look at in both or in neither.
LEMMA NothingToDo ==
  ASSUME SearchInv
  PROVE  todo = <<>> <=> ToSet(todo) = {}
BY EmptyHolds DEF SearchInv

\* Skip,
LEMMA SkipMaps ==
  ASSUME SearchInv, Skip
  PROVE  /\ P!Skip(queue[1]) /\ queue[1] \in ToSet(queue)
         /\ queue' \in Heaps /\ Ordered(queue') /\ IsInjective(queue')
<1>1. /\ phase = "choosing" /\ todo = <<>> /\ queue # <<>> /\ queue[1].node \in settled
      /\ queue' = Pop(queue) /\ todo' = todo
      /\ UNCHANGED <<graph, call, phase, distance, arrival, settled, nearest>>
  BY DEF Skip, Choosing, world
<1>2. ToSet(todo) = {} /\ ToSet(todo') = {}
  BY <1>1, NothingToDo
<1>3. QED
  BY <1>1, <1>2, FrontierFacts DEF P!Skip, P!Choosing

\* Settle: the first entry of the heap is a nearest one,
LEMMA SettleMaps ==
  ASSUME SearchInv, Settle
  PROVE  /\ P!Settle(queue[1]) /\ queue[1] \in ToSet(queue) /\ queue[1].node \in Nodes
         /\ queue' \in Heaps /\ Ordered(queue') /\ IsInjective(queue')
         /\ todo' \in Seq(Ways) /\ IsInjective(todo') /\ phase' = "choosing"
<1>1. /\ phase = "choosing" /\ todo = <<>> /\ queue # <<>> /\ queue[1].node \notin settled
      /\ ~Beyond(queue[1].metres)
      /\ queue' = Pop(queue) /\ todo' = graph.leaving[queue[1].node]
      /\ settled' = settled \cup {queue[1].node} /\ nearest' = queue[1]
      /\ UNCHANGED <<graph, call, phase, distance, arrival>>
  BY DEF Settle, Choosing, world
<1>2. ToSet(todo) = {}
  BY <1>1, NothingToDo
<1>3. queue[1].node \in Nodes
  BY <1>1, FrontierFacts
<1>4. /\ todo' \in Seq(Ways) /\ IsInjective(todo')
      /\ ToSet(todo') = {l \in Map(graph).links : l.from = queue[1].node}
  BY <1>1, <1>3, GraphFacts, MapFacts DEF SearchInv
<1>5. ~P!Beyond(queue[1].metres)
  BY <1>1 DEF P!Beyond, Beyond, P!Infinite, Infinite
<1>6. QED
  BY <1>1, <1>2, <1>3, <1>4, <1>5, FrontierFacts DEF P!Settle, P!Choosing

\* The road looked at next is a road of the network.
LEMMA TodoFacts ==
  ASSUME SearchInv, todo # <<>>
  PROVE  /\ Head(todo) \in ToSet(todo) /\ Head(todo) \in Links(network) /\ Head(todo) \in Ways
         /\ Head(todo).to \in Nodes /\ Head(todo).from \in Nodes /\ Head(todo).metres \in Nat
         /\ nearest.metres \in Nat
         /\ Tail(todo) \in Seq(Ways) /\ IsInjective(Tail(todo))
         /\ ToSet(Tail(todo)) = ToSet(todo) \ {Head(todo)}
         /\ (P!Improves(Head(todo)) <=> Improves(Head(todo)))
<1>1. /\ Head(todo) \in ToSet(todo)
      /\ Tail(todo) \in Seq(Ways) /\ IsInjective(Tail(todo))
      /\ ToSet(Tail(todo)) = ToSet(todo) \ {Head(todo)}
  BY TailDistinct DEF SearchInv
<1>2. Head(todo) \in Links(network) /\ nearest.metres \in Nat
  BY <1>1, MapFacts DEF SearchInv, P!IInv, P!TypeOK
<1>3. Head(todo) \in Ways /\ Head(todo).to \in Nodes /\ Head(todo).from \in Nodes
  BY <1>2, GraphFacts, LinksType DEF SearchInv, Loaded
<1>4. Head(todo).metres \in Nat
  BY <1>3 DEF Ways
<1>5. P!Improves(Head(todo)) <=> Improves(Head(todo))
  BY DEF P!Improves, Improves, P!Through, Through, P!Infinite, Infinite
<1>6. QED
  BY <1>1, <1>2, <1>3, <1>4, <1>5

\* Improve: the entry pushed is a new one, since the distance is,
LEMMA ImproveMaps ==
  ASSUME SearchInv, Improve
  PROVE  /\ P!Improve(Head(todo)) /\ Head(todo) \in ToSet(todo)
         /\ queue' \in Heaps /\ Ordered(queue') /\ IsInjective(queue')
         /\ todo' \in Seq(Ways) /\ IsInjective(todo') /\ phase' = "choosing"
<1> DEFINE l == Head(todo)
<1>1. /\ phase = "choosing" /\ todo # <<>> /\ Improves(l) /\ todo' = Tail(todo)
      /\ distance' = [distance EXCEPT ![l.to] = Through(l)]
      /\ arrival' = [arrival EXCEPT ![l.to] = l]
      /\ queue' = Push(queue, Entry(l.to, Through(l)))
      /\ UNCHANGED <<graph, call, phase, settled, nearest>>
  BY DEF Improve, world
<1>2. Through(l) \in Nat /\ P!Through(l) = Through(l)
  BY <1>1, TodoFacts DEF Through, P!Through
<1>3. PICK e \in [node : Nat, metres : Nat] :
        e = Entry(l.to, Through(l)) /\ e.node = l.to /\ e.metres = Through(l)
  BY <1>1, <1>2, TodoFacts, GraphFacts DEF Entry, SearchInv
<1>4. e \notin ToSet(queue)
  <2>1. ASSUME e \in ToSet(queue)
        PROVE  FALSE
    <3>1. distance[l.to] \in Nat /\ distance[l.to] <= Through(l)
      BY <1>3, <2>1 DEF SearchInv, P!IInv, P!FrontierIsLate, P!Reached
    <3>2. Through(l) < distance[l.to]
      BY <1>1, <3>1 DEF Improves, Infinite
    <3>3. QED
      BY <1>2, <3>1, <3>2
  <2>2. QED
    BY <2>1
<1>5. /\ queue' \in Heaps /\ Ordered(queue') /\ IsInjective(queue')
      /\ ToSet(queue') = ToSet(queue) \cup {e}
  <2>1. queue \in Heaps /\ Ordered(queue) /\ IsInjective(queue)
    BY DEF SearchInv
  <2>2. queue' = Push(queue, e)
    BY <1>1, <1>3
  <2>3. QED
    BY <1>4, <2>1, <2>2, PushHolds
<1>6. e = P!Entry(l.to, P!Through(l))
  BY <1>2, <1>3 DEF P!Entry, Entry
<1>7. /\ l \in ToSet(todo) /\ P!Improves(l) /\ ToSet(todo') = ToSet(todo) \ {l}
      /\ todo' \in Seq(Ways) /\ IsInjective(todo')
  BY <1>1, TodoFacts
<1> HIDE DEF l
<1>8. P!Improve(l)
  BY <1>1, <1>2, <1>5, <1>6, <1>7 DEF P!Improve
<1>9. QED
  BY <1>1, <1>5, <1>7, <1>8 DEF l

\* PassBy,
LEMMA PassByMaps ==
  ASSUME SearchInv, PassBy
  PROVE  /\ P!PassBy(Head(todo)) /\ Head(todo) \in ToSet(todo)
         /\ todo' \in Seq(Ways) /\ IsInjective(todo') /\ phase' = "choosing"
         /\ queue' = queue
<1> DEFINE l == Head(todo)
<1>1. /\ phase = "choosing" /\ todo # <<>> /\ ~Improves(l) /\ todo' = Tail(todo)
      /\ UNCHANGED <<graph, call, phase, distance, arrival, settled, queue, nearest>>
  BY DEF PassBy, world
<1>2. /\ l \in ToSet(todo) /\ ~P!Improves(l) /\ ToSet(todo') = ToSet(todo) \ {l}
      /\ todo' \in Seq(Ways) /\ IsInjective(todo')
  BY <1>1, TodoFacts
<1> HIDE DEF l
<1>3. P!PassBy(l)
  BY <1>1, <1>2 DEF P!PassBy
<1>4. QED
  BY <1>1, <1>2, <1>3 DEF l

\* Finish,
LEMMA FinishMaps ==
  ASSUME SearchInv, Finish
  PROVE  P!Finish /\ queue' = <<>> /\ todo' = <<>> /\ phase' = "done"
<1>1. /\ phase = "choosing" /\ todo = <<>>
      /\ queue # <<>> => queue[1].node \notin settled /\ Beyond(queue[1].metres)
      /\ phase' = "done" /\ queue' = <<>> /\ todo' = todo
      /\ UNCHANGED <<graph, call, distance, arrival, settled, nearest>>
  BY DEF Finish, Choosing, world
<1>2. ToSet(todo) = {} /\ ToSet(todo') = {} /\ ToSet(queue') = {}
  BY <1>1, NothingToDo DEF ToSet
<1>3. \/ ToSet(queue) = {}
      \/ \E e \in ToSet(queue) : P!Nearest(e) /\ e.node \notin settled /\ P!Beyond(e.metres)
  <2>1. CASE queue = <<>>
    BY <2>1 DEF ToSet
  <2>2. CASE queue # <<>>
    <3>1. P!Beyond(queue[1].metres)
      BY <1>1, <2>2 DEF P!Beyond, Beyond, P!Infinite, Infinite
    <3>2. QED
      BY <1>1, <2>2, <3>1, FrontierFacts
  <2>3. QED
    BY <2>1, <2>2
<1>4. QED
  BY <1>1, <1>2, <1>3 DEF P!Finish, P!Choosing

\* and Return.
LEMMA ReturnMaps ==
  ASSUME SearchInv, phase = "done", Return, UNCHANGED graph
  PROVE  P!Return /\ call' = NoCall /\ Idle'
<1>1. /\ call' = NoCall /\ phase' = "idle" /\ distance' = Unreached /\ arrival' = ByNoRoad
      /\ settled' = {} /\ queue' = <<>> /\ nearest' = Entry(1, 0) /\ todo' = <<>>
  BY DEF Return
<1>2. call'.from = 1 /\ call'.high = 0
  BY <1>1 DEF NoCall
<1>3. Map(graph)' = Map(graph) /\ Map(graph).nodes = Nodes /\ 1 \in Nodes /\ Nodes' = Nodes
  BY MapFacts, GraphFacts DEF SearchInv, Nodes
<1>4. ToSet(queue)' = {} /\ ToSet(todo)' = {}
  BY <1>1 DEF ToSet
<1>5. Idle'
  BY <1>1, <1>3 DEF Idle, NoCall, Unreached, ByNoRoad
<1>6. P!Idle'
  BY <1>1, <1>2, <1>3, <1>4 DEF P!Idle, Unreached, ByNoRoad, Entry, P!Entry, P!Infinite, Infinite
<1>7. QED
  BY <1>1, <1>3, <1>5, <1>6 DEF P!Return

-----------------------------------------------------------------------------
(* The way back.                                                           *)

\* Nothing is ranked once a call has returned,
LEMMA NothingSettled ==
  ASSUME settled' = {}
  PROVE  Ranked'
<1>1. Cardinality({}) = 0 /\ 0 \in Nat
  BY FS_EmptySet
<1>2. PICK r \in [settled' -> Nat] : TRUE
  <2>1. [n \in settled' |-> 0] \in [settled' -> Nat]
    OBVIOUS
  <2>2. QED
    BY <2>1
<1>3. InOrder(0, r)'
  BY DEF InOrder
<1>4. QED
  BY <1>1, <1>3, Zenon DEF Ranked

\* nor before anything is settled.
LEMMA NothingSettledYet ==
  ASSUME settled = {}
  PROVE  Ranked
<1>1. Cardinality({}) = 0 /\ 0 \in Nat
  BY FS_EmptySet
<1>2. PICK r \in [settled -> Nat] : TRUE
  <2>1. [n \in settled |-> 0] \in [settled -> Nat]
    OBVIOUS
  <2>2. QED
    BY <2>1
<1>3. InOrder(0, r)
  BY DEF InOrder
<1>4. QED
  BY <1>1, <1>3, Zenon DEF Ranked

\* There are no more settled intersections than intersections.
LEMMA SettledIsFinite ==
  ASSUME SearchInv
  PROVE  /\ settled \subseteq Nodes /\ IsFiniteSet(settled) /\ Cardinality(settled) \in Nat
         /\ Len(network.positions) \in Nat /\ Cardinality(settled) <= Len(network.positions)
         /\ (Nodes \ settled # {} => Cardinality(settled) < Len(network.positions))
<1> DEFINE N == Len(network.positions)
<1>1. settled \subseteq Nodes
  BY MapFacts DEF SearchInv, P!IInv, P!TypeOK
<1>2. N \in Nat /\ Nodes = 1..N
  BY GraphFacts, RoadsOfNetwork DEF SearchInv, Loaded
<1> HIDE DEF N
<1>3. IsFiniteSet(Nodes) /\ Cardinality(Nodes) = N
  <2>1. IsFiniteSet(1..N) /\ Cardinality(1..N) = IF 1 > N THEN 0 ELSE N - 1 + 1
    BY <1>2, FS_Interval
  <2>2. QED
    BY <1>2, <2>1
<1>4. IsFiniteSet(settled) /\ Cardinality(settled) <= N
  BY <1>1, <1>3, FS_Subset
<1>5. Cardinality(settled) \in Nat
  BY <1>4, FS_CardinalityType
<1>6. ASSUME NEW x \in Nodes \ settled
      PROVE  Cardinality(settled) < N
  <2>1. settled \subseteq Nodes \ {x}
    BY <1>1
  <2>2. IsFiniteSet(Nodes \ {x}) /\ Cardinality(Nodes \ {x}) = N - 1
    BY <1>3, FS_RemoveElement
  <2>3. Cardinality(settled) <= N - 1
    BY <2>1, <2>2, FS_Subset
  <2>4. QED
    BY <1>2, <1>5, <2>3
<1>7. QED
  BY <1>1, <1>2, <1>4, <1>5, <1>6 DEF N

\* The intersection settled last ranks last.
LEMMA SettleRanks ==
  ASSUME SearchInv, Ranked, Settle
  PROVE  Ranked'
<1> DEFINE x == queue[1].node
<1>1. PICK k \in Nat, rank \in [settled -> Nat] : k = Cardinality(settled) /\ InOrder(k, rank)
  BY DEF Ranked
<1>2. /\ queue # <<>> /\ x \notin settled /\ settled' = settled \cup {x}
      /\ arrival' = arrival /\ call' = call
  BY DEF Settle
<1>3. x \in Nodes /\ queue[1] \in ToSet(queue)
  BY <1>2, FrontierFacts
<1>4. x # call.from => arrival[x].from \in settled
  <2>1. P!Reached(x)
    BY <1>3 DEF SearchInv, P!IInv, P!FrontierIsLate
  <2>2. QED
    BY <1>3, <2>1, MapFacts DEF SearchInv, P!IInv, P!ArrivesByShortestWalk
<1> HIDE DEF x
<1>5. PICK r \in [settled' -> Nat] : r = [n \in settled \cup {x} |-> IF n = x THEN k ELSE rank[n]]
  <2>1. [n \in settled \cup {x} |-> IF n = x THEN k ELSE rank[n]] \in [settled' -> Nat]
    BY <1>2
  <2>2. QED
    BY <2>1
<1>6. \A n \in settled : r[n] = rank[n] /\ rank[n] < k /\ rank[n] \in Nat
  BY <1>1, <1>2, <1>5 DEF InOrder
<1>7. r[x] = k
  BY <1>5
<1>8. \A n \in settled' : r[n] < k + 1
  BY <1>2, <1>6, <1>7
<1>9. ASSUME NEW n \in settled' \ {call'.from}
      PROVE  arrival'[n].from \in settled' /\ r[arrival'[n].from] < r[n]
  <2>1. CASE n = x
    BY <1>2, <1>4, <1>6, <1>7, <2>1
  <2>2. CASE n # x
    BY <1>1, <1>2, <1>6, <2>2 DEF InOrder
  <2>3. QED
    BY <2>1, <2>2
<1>10. Cardinality(settled') = k + 1
  <2>1. IsFiniteSet(settled)
    BY SettledIsFinite
  <2>2. Cardinality(settled \cup {x}) = Cardinality(settled) + 1
    BY <1>2, <2>1, FS_AddElement
  <2>3. QED
    BY <1>1, <1>2, <2>2
<1>11. InOrder(k + 1, r)'
  BY <1>8, <1>9 DEF InOrder
<1>12. k + 1 \in Nat
  OBVIOUS
<1>13. QED
  BY <1>10, <1>11, <1>12, Zenon DEF Ranked

\* A road is no shorter way to what is settled.
LEMMA SettledIsFinal ==
  ASSUME SearchInv, Improve
  PROVE  Head(todo).to \notin settled
<1> DEFINE l == Head(todo)
<1>1. todo # <<>> /\ Improves(l)
  BY DEF Improve
<1>2. l \in ToSet(todo) /\ l.metres \in Nat /\ nearest.metres \in Nat
  BY <1>1, TodoFacts
<1>3. ASSUME l.to \in settled
      PROVE  FALSE
  <2>1. distance[l.to] \in Nat /\ distance[l.to] <= nearest.metres
    BY <1>3 DEF SearchInv, P!IInv, P!SettledFirst, P!Reached
  <2>2. Through(l) < distance[l.to]
    BY <1>1, <2>1 DEF Improves, Infinite
  <2>3. QED
    BY <1>2, <2>1, <2>2 DEF Through
<1>4. QED
  BY <1>3

\* An improvement is of an intersection that is not settled, and changes no rank.
LEMMA ImproveRanks ==
  ASSUME SearchInv, Ranked, Improve
  PROVE  Ranked'
<1>1. PICK k \in Nat, rank \in [settled -> Nat] : k = Cardinality(settled) /\ InOrder(k, rank)
  BY DEF Ranked
<1>2. /\ settled' = settled /\ call' = call /\ Head(todo).to \notin settled
      /\ arrival' = [arrival EXCEPT ![Head(todo).to] = Head(todo)]
  BY SettledIsFinal DEF Improve
<1>3. \A n \in settled : arrival'[n] = arrival[n]
  BY <1>2, MapFacts, SettledIsFinite DEF SearchInv, P!IInv, P!TypeOK
<1>4. InOrder(k, rank)'
  BY <1>1, <1>2, <1>3 DEF InOrder
<1>5. QED
  BY <1>1, <1>2, <1>4 DEF Ranked

\* Ranks are those of the search.
LEMMA RanksKept ==
  ASSUME Ranked, UNCHANGED <<settled, arrival, call>>
  PROVE  Ranked'
BY DEF Ranked, InOrder

\* Steps of a path.
Steps == [node : Nodes, via : Seq(DOMAIN Place)]

\* How far back it is from what has been found, in roads.
Leads(m) ==
  /\ \A n \in Found : m[n] = 0 <=> n = call.from
  /\ \A n \in Found \ {call.from} : m[arrival[n].from] < m[n]

\* The road that arrives somewhere comes from somewhere that has been found.
LEMMA ArrivalFacts ==
  ASSUME SearchInv, NEW n \in Found \ {call.from}
  PROVE  /\ arrival[n] \in Links(network) /\ arrival[n].to = n
         /\ arrival[n].from \in settled /\ arrival[n].from \in Found
         /\ distance[n] \in Nat /\ distance[arrival[n].from] \in Nat
         /\ distance[n] = distance[arrival[n].from] + arrival[n].metres
<1>1. distance \in [Nodes -> Nat \cup {Infinite}] /\ Map(graph).nodes = Nodes /\ Map(graph).links = Links(network)
  BY MapFacts DEF SearchInv, P!IInv, P!TypeOK, P!Bounds, P!Infinite, Infinite
<1>2. n \in Nodes /\ P!Reached(n)
  BY <1>1 DEF Found, P!Reached, Infinite
<1>3. /\ arrival[n] \in Links(network) /\ arrival[n].to = n /\ arrival[n].from \in settled
      /\ distance[n] = distance[arrival[n].from] + arrival[n].metres
  BY <1>1, <1>2 DEF SearchInv, P!IInv, P!ArrivesByShortestWalk
<1>4. arrival[n].from \in Nodes /\ distance[arrival[n].from] \in Nat
  BY <1>3, SettledIsFinite DEF SearchInv, P!IInv, P!SettledFirst, P!Reached
<1>5. QED
  BY <1>2, <1>3, <1>4 DEF Found, P!Reached, Infinite

\* Following the arrivals back from anything found comes to the origin.
LEMMA WayBack ==
  ASSUME SearchInv, Ranked
  PROVE  \E m \in [Found -> 0..Len(network.positions)] : Leads(m)
<1>1. PICK k \in Nat, rank \in [settled -> Nat] : k = Cardinality(settled) /\ InOrder(k, rank)
  BY DEF Ranked
<1>2. \A n \in settled : rank[n] \in Nat /\ rank[n] + 1 <= k
  BY <1>1 DEF InOrder
<1>3. PICK N \in Nat : N = Len(network.positions) /\ k <= N /\ (Nodes \ settled # {} => k + 1 <= N)
  BY <1>1, SettledIsFinite
<1> DEFINE to(n) == IF n = call.from THEN 0 ELSE IF n \in settled THEN rank[n] + 1 ELSE k + 1
<1>4. PICK m \in [Found -> 0..N] : m = [n \in Found |-> to(n)]
  <2>1. ASSUME NEW n \in Found
        PROVE  to(n) \in 0..N
    <3>1. n \in Nodes
      BY DEF Found
    <3>2. QED
      BY <1>2, <1>3, <3>1
  <2> HIDE DEF to
  <2>2. QED
    BY <2>1
<1>5. \A n \in Found : m[n] = 0 <=> n = call.from
  BY <1>2, <1>4
<1>6. ASSUME NEW n \in Found \ {call.from}
      PROVE  m[arrival[n].from] < m[n]
  <2>1. PICK p \in Found : p = arrival[n].from /\ p \in settled
    BY ArrivalFacts
  <2>2. n \in settled => rank[p] < rank[n]
    BY <1>1, <2>1 DEF InOrder
  <2>3. m[p] = to(p) /\ m[n] = to(n)
    BY <1>4
  <2>4. to(p) < to(n)
    BY <1>2, <2>1, <2>2
  <2>5. QED
    BY <2>1, <2>3, <2>4
<1>7. QED
  BY <1>3, <1>5, <1>6 DEF Leads

\* A sequence turned around is a sequence.
LEMMA ReverseType ==
  ASSUME NEW X, NEW s \in Seq(X)
  PROVE  /\ Reverse(s) \in Seq(X) /\ Len(Reverse(s)) = Len(s)
         /\ \A i \in 1..Len(s) : Reverse(s)[i] = s[Len(s) - i + 1]
<1>1. Len(s) \in Nat
  BY LenProperties
<1>2. Reverse(s) = [i \in 1..Len(s) |-> s[(Len(s) - i) + 1]]
  BY DEF Reverse
<1>3. \A i \in 1..Len(s) : (Len(s) - i) + 1 \in 1..Len(s)
  BY <1>1
<1>4. Reverse(s) \in [1..Len(s) -> X]
  BY <1>2, <1>3, ElementOfSeq
<1>5. QED
  BY <1>1, <1>2, <1>4, FunctionIsSeq

\* The shape of a road consists of points.
LEMMA ShapeType ==
  ASSUME Loaded, NEW l \in Links(network)
  PROVE  Shape(l) \in Seq(DOMAIN Place)
<1>1. PICK i \in DOMAIN network.roads : l = Link(network, i, TRUE) \/ l = Link(network, i, FALSE)
  BY DEF Links
<1>2. l.road = i
  <2>1. Accepted(network)
    BY DEF Loaded
  <2>2. CASE l = Link(network, i, TRUE)
    BY <2>1, <2>2, LinkType, Zenon
  <2>3. CASE l = Link(network, i, FALSE)
    BY <2>1, <2>3, LinkType, Zenon
  <2>4. QED
    BY <1>1, <2>2, <2>3
<1>3. graph.via = [j \in DOMAIN network.roads |-> network.roads[j].via]
  BY DEF Loaded, Load
<1>4. graph.via[l.road] \in Seq(DOMAIN Place)
  BY <1>2, <1>3, RoadsOfNetwork DEF Loaded
<1>5. QED
  BY <1>4, ReverseType DEF Shape

\* RouteTo is defined for whatever has been found.
LEMMA RouteUnfolds ==
  ASSUME SearchInv, Ranked
  PROVE  /\ RouteTo \in [Found -> Seq(Steps)]
         /\ \A n \in Found :
              RouteTo[n] = IF n = call.from THEN <<>>
                           ELSE Append(RouteTo[arrival[n].from], [node |-> n, via |-> Shape(arrival[n])])
<1> DEFINE D == Found
           S == Seq(Steps)
           from == call.from
           last == [n \in D |-> [node |-> n, via |-> Shape(arrival[n])]]
           stop == {n \in D : n = from}
           next == [n \in D |-> IF n = from THEN n ELSE arrival[n].from]
           base == [n \in D |-> <<>>]
           step == [x \in D \X S |-> IF x[1] = from THEN <<>> ELSE Append(x[2], last[x[1]])]
           Meets(f) == f = [n \in D |-> IF n = from THEN <<>> ELSE Append(f[arrival[n].from], last[n])]
<1>1. PICK m \in [D -> Nat] : Leads(m)
  <2>1. PICK m \in [D -> 0..Len(network.positions)] : Leads(m)
    BY WayBack
  <2>2. m \in [D -> Nat]
    BY <2>1, SettledIsFinite
  <2>3. QED
    BY <2>1, <2>2
<1>2. \A n \in D \ {from} : arrival[n].from \in D /\ last[n] \in Steps
  <2>1. ASSUME NEW n \in D \ {from}
        PROVE  arrival[n].from \in D /\ last[n] \in Steps
    <3>1. n \in Nodes /\ arrival[n].from \in D /\ Shape(arrival[n]) \in Seq(DOMAIN Place)
      BY ArrivalFacts, ShapeType DEF Found, SearchInv
    <3>2. QED
      BY <3>1 DEF Steps
  <2>2. QED
    BY <2>1
<1> HIDE DEF last
<1>3. next \in [D -> D] /\ stop \in SUBSET D
  BY <1>2
<1>4. base \in [D -> S] /\ step \in [D \X S -> S]
  BY <1>2, AppendProperties
<1>5. \A n \in D \ stop : m[next[n]] < m[n]
  BY <1>1 DEF Leads
<1>6. PICK f \in [D -> S] : \A n \in D : Unfolds(f, n, stop, next, base, step)
  <2> HIDE DEF D, S, stop, next, base, step
  <2>1. QED
    BY <1>1, <1>3, <1>4, <1>5, Recursion
<1>7. ASSUME NEW n \in D
      PROVE  f[n] = IF n = from THEN <<>> ELSE Append(f[arrival[n].from], last[n])
  <2>1. CASE n = from
    BY <1>6, <2>1 DEF Unfolds
  <2>2. CASE n # from
    <3>1. n \notin stop /\ next[n] = arrival[n].from /\ next[n] \in D
      BY <1>2, <2>2
    <3>2. f[n] = step[<<n, f[next[n]]>>] /\ f[next[n]] \in S
      BY <1>6, <3>1 DEF Unfolds
    <3>3. QED
      BY <2>2, <3>1, <3>2
  <2>3. QED
    BY <2>1, <2>2
<1>8. Meets(f)
  <2> HIDE DEF D
  <2>1. QED
    BY <1>7
<1>9. RouteTo = CHOOSE g : Meets(g)
  <2>1. \A n \in D : last[n] = [node |-> n, via |-> Shape(arrival[n])]
    BY DEF last
  <2>2. QED
    BY ZenonT(30) DEF RouteTo, Found, last
<1>10. Meets(RouteTo)
  <2> HIDE DEF Meets
  <2>1. QED
    BY <1>8, <1>9
<1>11. DOMAIN RouteTo = D
  BY <1>10
<1>12. \A n \in D : RouteTo[n] = IF n = from THEN <<>> ELSE Append(RouteTo[arrival[n].from], last[n])
  <2> HIDE DEF D
  <2>1. QED
    BY <1>10
<1>13. \A n \in D : RouteTo[n] \in S
  <2> DEFINE Good == {k \in Nat : \A n \in D : m[n] <= k => RouteTo[n] \in S}
  <2>1. 0 \in Good
    <3>1. ASSUME NEW n \in D, m[n] <= 0
          PROVE  RouteTo[n] \in S
      <4>1. m[n] = 0
        BY <1>1, <3>1
      <4>2. n = from
        BY <1>1, <4>1 DEF Leads
      <4>3. RouteTo[n] = <<>>
        BY <1>12, <4>2
      <4>4. QED
        BY <4>3, EmptySeq
    <3>2. QED
      BY <3>1
  <2>2. ASSUME NEW k \in Nat, k \in Good
        PROVE  k + 1 \in Good
    <3> SUFFICES ASSUME NEW n \in D, m[n] <= k + 1
                 PROVE  RouteTo[n] \in S
      OBVIOUS
    <3>1. CASE n = from
      <4>1. RouteTo[n] = <<>>
        BY <1>12, <3>1
      <4>2. QED
        BY <4>1, EmptySeq
    <3>2. CASE n # from
      <4>1. PICK p \in D : p = arrival[n].from /\ m[p] < m[n]
        BY <1>1, <1>2, <3>2 DEF Leads
      <4>2. m[p] <= k
        BY <1>1, <4>1
      <4>3. RouteTo[p] \in S /\ last[n] \in Steps
        BY <1>2, <2>2, <3>2, <4>2
      <4>4. RouteTo[n] = Append(RouteTo[p], last[n])
        BY <1>12, <3>2, <4>1
      <4>5. QED
        BY <4>3, <4>4, AppendProperties
    <3>3. QED
      BY <3>1, <3>2
  <2>3. Nat \subseteq Good
    <3> HIDE DEF Good
    <3>1. QED
      BY <2>1, <2>2, Naturally
  <2>4. \A n \in D : m[n] \in Nat /\ m[n] <= m[n]
    BY <1>1
  <2>5. QED
    BY <2>3, <2>4
<1>14. RouteTo \in [D -> S]
  <2>1. RouteTo = [n \in D |-> RouteTo[n]]
    BY <1>10, <1>11
  <2> HIDE DEF D, S
  <2>2. QED
    BY <1>13, <2>1
<1>15. QED
  BY <1>12, <1>14 DEF last

\* A search that is done and was not limited has found everything.
LEMMA AllFound ==
  ASSUME SearchInv, phase = "done", call.high = Infinite
  PROVE  Found = Nodes
<1>1. todo = <<>> /\ ToSet(todo) = {}
  BY NothingToDo DEF SearchInv
<1>2. /\ Map(graph).nodes = Nodes /\ Map(graph).links = Links(network)
      /\ Nodes = DOMAIN network.positions /\ settled \subseteq Nodes
  BY MapFacts, GraphFacts, SettledIsFinite DEF SearchInv
<1>3. \A n \in Nodes : n \in Found <=> P!Reached(n)
  BY <1>2 DEF Found, SearchInv, P!IInv, P!TypeOK, P!Reached, P!Bounds, P!Infinite, Infinite
<1>4. \A m : ~P!Beyond(m)
  BY DEF P!Beyond, P!Infinite, Infinite
<1>5. \A n \in Found : n \in settled
  BY <1>2, <1>3, <1>4 DEF SearchInv, P!IInv, P!RestIsBeyond, Found
<1>6. \A l \in Links(network) : l.from \in Found => l.to \in Found
  <2>1. \A l \in Links(network) : l.to \in Nodes
    BY <1>2, LinksType DEF SearchInv, Loaded
  <2>2. QED
    BY <1>1, <1>2, <1>3, <1>5, <2>1 DEF SearchInv, P!IInv, P!NoShortcut
<1>7. call.from \in Found
  BY <1>2, <1>3 DEF SearchInv, P!IInv, P!OriginIsNear, P!Reached
<1>8. Found \in SUBSET (DOMAIN network.positions)
  BY <1>2 DEF Found
<1>9. QED
  BY <1>2, <1>6, <1>7, <1>8 DEF SearchInv, Loaded, Connected

\* Path offers only what was found (its widened call has no limit: reachable finds
\* everything, the network being connected).
LEMMA EligibleIsFound ==
  ASSUME SearchInv, phase = "done", NEW n \in Eligible
  PROVE  n \in Found \ {call.from}
<1>1. n \in Nodes /\ n # call.from /\ AtMost(distance[n], call.high)
  BY DEF Eligible, SearchInv
<1>2. CASE call.high = Infinite
  BY <1>1, <1>2, AllFound
<1>3. CASE call.high # Infinite
  BY <1>1, <1>3 DEF AtMost, Found
<1>4. QED
  BY <1>2, <1>3

\* There is a way to wherever Path offers to go.
LEMMA RouteLeads ==
  ASSUME SearchInv, Ranked, phase = "done", NEW n \in Eligible
  PROVE  RouteTo[n] \in Seq(Steps) /\ RouteTo[n] # <<>>
<1>1. n \in Found /\ n # call.from
  BY EligibleIsFound
<1>2. /\ RouteTo[n] \in Seq(Steps)
      /\ RouteTo[n] = Append(RouteTo[arrival[n].from], [node |-> n, via |-> Shape(arrival[n])])
  BY <1>1, RouteUnfolds
<1>3. arrival[n].from \in Found /\ Shape(arrival[n]) \in Seq(DOMAIN Place) /\ n \in Nodes
  BY <1>1, ArrivalFacts, ShapeType DEF SearchInv, Found
<1>4. PICK s \in Seq(Steps), x \in Steps :
        s = RouteTo[arrival[n].from] /\ x = [node |-> n, via |-> Shape(arrival[n])]
  BY <1>3, RouteUnfolds DEF Steps
<1>5. Append(s, x) # <<>>
  BY AppendProperties
<1>6. QED
  BY <1>2, <1>4, <1>5

-----------------------------------------------------------------------------
(* What lies ahead.                                                        *)

\* The points of a step of a path.
LEMMA PointsType ==
  ASSUME Loaded, NEW step \in Steps
  PROVE  Points(step) \in Seq(DOMAIN Place) /\ graph.positions[step.node] \in DOMAIN Place
<1>1. step.node \in Nodes /\ step.via \in Seq(DOMAIN Place)
  BY DEF Steps
<1>2. graph.positions[step.node] \in DOMAIN Place
  BY <1>1, GraphFacts, RoadsOfNetwork DEF Loaded
<1>3. PICK s, t \in Seq(DOMAIN Place) : s = step.via /\ t = <<graph.positions[step.node]>>
  <2>1. <<graph.positions[step.node]>> \in Seq(DOMAIN Place)
    BY <1>2
  <2>2. QED
    BY <1>1, <2>1
<1>4. s \o t \in Seq(DOMAIN Place)
  BY ConcatProperties
<1>5. QED
  BY <1>2, <1>3, <1>4 DEF Points

\* The points ahead, step by step.
Pieces(steps) == [i \in DOMAIN steps |-> Points(steps[i])]

\* Their types.
LEMMA PiecesType ==
  ASSUME Loaded, NEW steps \in Seq(Steps)
  PROVE  /\ Pieces(steps) \in Seq(Seq(DOMAIN Place)) /\ Len(Pieces(steps)) = Len(steps)
         /\ \A i \in 1..Len(steps) : Pieces(steps)[i] = Points(steps[i])
<1>1. Len(steps) \in Nat /\ DOMAIN steps = 1..Len(steps)
  BY LenProperties
<1>2. \A i \in 1..Len(steps) : Points(steps[i]) \in Seq(DOMAIN Place)
  BY ElementOfSeq, PointsType
<1>3. Pieces(steps) \in [1..Len(steps) -> Seq(DOMAIN Place)]
  BY <1>1, <1>2 DEF Pieces
<1>4. QED
  BY <1>1, <1>3, FunctionIsSeq DEF Pieces

\* What lies ahead consists of points.
LEMMA AheadType ==
  ASSUME Loaded, NEW steps \in Seq(Steps)
  PROVE  Ahead(steps) \in Seq(DOMAIN Place)
BY PiecesType, FlattenType DEF Ahead, Pieces

\* Without a path nothing lies ahead.
LEMMA NothingAhead == Ahead(<<>>) = <<>>
<1>1. Pieces(<<>>) = <<>>
  BY DEF Pieces
<1>2. QED
  BY <1>1, FlattenEmpty, Zenon DEF Ahead, Pieces

\* First what the first step leads along, then the rest.
LEMMA AheadFirst ==
  ASSUME Loaded, NEW steps \in Seq(Steps), steps # <<>>
  PROVE  /\ steps[1] \in Steps /\ Tail(steps) \in Seq(Steps)
         /\ Ahead(steps) = Points(steps[1]) \o Ahead(Tail(steps))
<1>1. /\ Len(steps) \in Nat \ {0} /\ steps[1] \in Steps
      /\ Tail(steps) \in Seq(Steps) /\ Len(Tail(steps)) = Len(steps) - 1
      /\ \A i \in 1..(Len(steps) - 1) : Tail(steps)[i] = steps[i + 1]
  <2>1. /\ Tail(steps) \in Seq(Steps) /\ Len(Tail(steps)) = Len(steps) - 1
        /\ \A i \in 1..Len(Tail(steps)) : Tail(steps)[i] = steps[i + 1]
    BY HeadTailProperties
  <2>2. Len(steps) \in Nat \ {0}
    BY EmptySeq
  <2>3. QED
    BY <2>1, <2>2, ElementOfSeq
<1>2. PICK p \in Seq(DOMAIN Place) : p = Points(steps[1])
  BY <1>1, PointsType
<1>3. PICK ss, tt \in Seq(Seq(DOMAIN Place)) :
        /\ ss = Pieces(steps) /\ Len(ss) = Len(steps)
        /\ tt = Pieces(Tail(steps)) /\ Len(tt) = Len(steps) - 1
        /\ \A i \in 1..Len(steps) : ss[i] = Points(steps[i])
        /\ \A i \in 1..(Len(steps) - 1) : tt[i] = Points(Tail(steps)[i])
  BY <1>1, PiecesType, ZenonT(30)
<1>4. PICK pp \in Seq(Seq(DOMAIN Place)) : pp = <<p>> /\ Len(pp) = 1 /\ pp[1] = p
  <2>1. <<p>> \in Seq(Seq(DOMAIN Place)) /\ Len(<<p>>) = 1 /\ <<p>>[1] = p
    OBVIOUS
  <2>2. QED
    BY <2>1
<1>5. ss = pp \o tt
  <2> DEFINE S == Seq(DOMAIN Place)
  <2>1. /\ pp \o tt \in Seq(S) /\ Len(pp \o tt) = Len(pp) + Len(tt)
        /\ \A i \in 1..(Len(pp) + Len(tt)) :
             (pp \o tt)[i] = IF i <= Len(pp) THEN pp[i] ELSE tt[i - Len(pp)]
    BY ConcatProperties
  <2>a. Len(pp) = 1 /\ Len(tt) = Len(steps) - 1 /\ Len(steps) \in Nat \ {0} /\ Len(ss) = Len(steps)
    BY <1>1, <1>3, <1>4, ZenonT(30)
  <2>2. Len(pp) + Len(tt) = Len(steps)
    BY <2>a
  <2>3. ASSUME NEW i \in 1..Len(steps)
        PROVE  (pp \o tt)[i] = ss[i]
    <3>1. CASE i = 1
      <4>1. (pp \o tt)[1] = pp[1]
        BY <2>1, <2>2, <2>a, <3>1
      <4>2. ss[1] = Points(steps[1])
        BY <1>3, <3>1
      <4>3. QED
        BY <1>2, <1>4, <3>1, <4>1, <4>2
    <3>2. CASE i # 1
      <4>1. i - 1 \in 1..(Len(steps) - 1) /\ (i - 1) + 1 = i /\ ~(i <= 1)
        BY <1>1, <3>2
      <4>2. (pp \o tt)[i] = tt[i - 1]
        BY <2>1, <2>2, <2>a, <4>1
      <4>3. tt[i - 1] = Points(steps[i])
        BY <1>1, <1>3, <4>1
      <4>4. QED
        BY <1>3, <4>2, <4>3
    <3>3. QED
      BY <3>1, <3>2
  <2> HIDE DEF S
  <2>4. ss \in Seq(S) /\ Len(ss) = Len(pp \o tt)
    BY <1>3, <2>1, <2>2 DEF S
  <2>5. QED
    BY <1>3, <2>1, <2>3, <2>4, SeqEqual
<1>6. FlattenSeq(<<p>> \o tt) = p \o FlattenSeq(tt)
  BY FlattenFirst
<1>7. Ahead(steps) = FlattenSeq(ss) /\ Ahead(Tail(steps)) = FlattenSeq(tt)
  BY <1>3 DEF Ahead, Pieces
<1>8. QED
  BY <1>1, <1>2, <1>4, <1>5, <1>6, <1>7

\* What is shown leads from somewhere past here to the end of what lies ahead.
Shows(here, from, shown, ahead) ==
  LET passed == Len(shown) - Len(ahead)
  IN  /\ passed >= 0
      /\ ahead = SubSeq(shown, passed + 1, Len(shown))
      /\ here = IF passed = 0 THEN from ELSE shown[passed]

\* ...also past the next point.
LEMMA ShowsOn ==
  ASSUME NEW X, NEW shown \in Seq(X), NEW ahead \in Seq(X), ahead # <<>>, NEW here, NEW from,
         Shows(here, from, shown, ahead)
  PROVE  Shows(ahead[1], from, shown, Tail(ahead))
<1> DEFINE n == Len(shown)
           k == n - Len(ahead)
<1>1. n \in Nat /\ Len(ahead) \in Nat \ {0} /\ Len(Tail(ahead)) = Len(ahead) - 1
  BY LenProperties, EmptySeq, HeadTailProperties
<1>2. k \in Nat /\ k + 1 \in 1..n /\ n \in (k + 1)..n /\ ahead = SubSeq(shown, k + 1, n)
  BY <1>1 DEF Shows
<1> HIDE DEF k, n
<1>3. Head(ahead) = shown[k + 1] /\ Tail(ahead) = SubSeq(shown, (k + 1) + 1, n)
  BY <1>2, HeadTailOfSubSeq DEF n
<1>4. ahead[1] = shown[k + 1]
  BY <1>3
<1>5. n - Len(Tail(ahead)) = k + 1 /\ k + 1 # 0 /\ k + 1 >= 0
  <2>1. PICK j \in Nat : j = Len(ahead) /\ Len(Tail(ahead)) = j - 1
    BY <1>1, ZenonT(30)
  <2>2. n \in Nat /\ k = n - j /\ k \in Nat
    BY <1>1, <1>2, <2>1 DEF k
  <2>3. n - (j - 1) = k + 1
    BY <2>2
  <2>4. QED
    BY <2>1, <2>2, <2>3
<1>6. QED
  BY <1>3, <1>4, <1>5 DEF Shows, n

\* At the start of a route all of it lies ahead.
LEMMA ShowsAll ==
  ASSUME NEW X, NEW shown \in Seq(X), NEW from
  PROVE  Shows(from, from, shown, shown)
<1>1. Len(shown) \in Nat
  BY LenProperties
<1>2. Len(shown) - Len(shown) = 0 /\ 0 + 1 = 1
  BY <1>1
<1>3. SubSeq(shown, 1, Len(shown)) = shown
  BY SubSeqFull
<1>4. QED
  BY <1>2, <1>3 DEF Shows

\* A vehicle under way has roads to drive, and what it shows ends with them.
OnTheWay ==
  /\ path # <<>> /\ geometry.points \in Seq(DOMAIN Place)
  /\ Shows(at[1], geometry.from[1], geometry.points, Ahead(path))

\* The vehicle: it has a route exactly when it is under way, and a plan ends with its search.
VehicleInv ==
  /\ node \in Nodes /\ path \in Seq(Steps)
  /\ purpose \in {"nothing", "toCustomer", "toParking", "trip", "replan"}
  /\ purpose = "nothing" => phase = "idle" /\ tries = <<>>
  /\ purpose = "replan" => EnRoute
  /\ purpose = "trip" => ~EnRoute
  /\ IF EnRoute THEN OnTheWay ELSE geometry = NoRoute

\* The inductive invariant.
JInv == SearchInv /\ Ranked /\ VehicleInv

\* What is made of the graph is kept with it.
LEMMA PlacesKept ==
  ASSUME UNCHANGED graph
  PROVE  Nodes' = Nodes /\ Steps' = Steps /\ Asked' = Asked /\ Map(graph)' = Map(graph)
BY DEF Nodes, Steps, Asked

\* What lies ahead depends on the path and the graph.
LEMMA AheadKept ==
  ASSUME UNCHANGED graph, NEW p
  PROVE  Ahead(p)' = Ahead(p)
BY DEF Ahead, Points

\* A step of the abstract search keeps the search's part of the invariant if the
\* heap and the roads to look at are still what they should be.
LEMMA SearchStep ==
  ASSUME SearchInv, [P!Next]_(P!vars), UNCHANGED world, tries' \in Seq(Asked),
         call'.from \in Nodes, call'.within \in SUBSET Nodes, call'.low \in Nat,
         queue' \in Heaps, Ordered(queue'), IsInjective(queue'),
         todo' \in Seq(Ways), IsInjective(todo'), todo' # <<>> => phase' = "choosing",
         phase' = "idle" => Idle'
  PROVE  SearchInv'
<1>1. P!IInv'
  BY P!StepKeeps DEF SearchInv
<1>2. Loaded' /\ Nodes' = Nodes /\ Asked' = Asked
  BY PlacesKept DEF SearchInv, Loaded, world
<1>3. Ordered(queue)' /\ IsInjective(queue)' /\ IsInjective(todo)'
  BY DEF Ordered, IsInjective
<1>4. QED
  BY <1>1, <1>2, <1>3 DEF SearchInv

\* So does a step that leaves the search alone,
LEMMA SearchKept ==
  ASSUME SearchInv, UNCHANGED <<world, search>>, tries' \in Seq(Asked)
  PROVE  SearchInv' /\ UNCHANGED P!vars
<1>1. UNCHANGED P!vars
  BY DEF world, search, P!vars
<1>2. Loaded' /\ Nodes' = Nodes /\ Asked' = Asked
  BY PlacesKept DEF SearchInv, Loaded, world
<1>3. Ordered(queue)' /\ IsInjective(queue)' /\ IsInjective(todo)'
  BY DEF Ordered, IsInjective, SearchInv, search
<1>4. P!IInv'
  BY <1>1, P!StepKeeps DEF SearchInv
<1>5. phase' = "idle" => Idle'
  BY <1>2 DEF SearchInv, Idle, search, Unreached, ByNoRoad
<1>6. QED
  BY <1>1, <1>2, <1>3, <1>4, <1>5 DEF SearchInv, search

\* and a step that leaves the vehicle alone keeps the vehicle's.
LEMMA VehicleKept ==
  ASSUME JInv, UNCHANGED <<world, vehicle, purpose>>,
         purpose = "nothing" => phase' = "idle" /\ tries' = <<>>
  PROVE  VehicleInv'
<1>1. UNCHANGED <<graph, leg, node, at, path, geometry, purpose>>
  BY DEF world, vehicle
<1>2. Nodes' = Nodes /\ Steps' = Steps
  BY <1>1, PlacesKept
<1>3. Ahead(path)' = Ahead(path)
  BY <1>1 DEF Ahead, Points
<1>4. OnTheWay' = OnTheWay
  BY <1>1, <1>3 DEF OnTheWay
<1>5. QED
  BY <1>1, <1>2, <1>4 DEF JInv, VehicleInv, EnRoute

-----------------------------------------------------------------------------
(* Step by step.                                                           *)

\* A plan is a few calls of Path.
LEMMA PlanType ==
  ASSUME Loaded, NEW n \in Nodes
  PROVE  Plan(n) \in Seq(Asked) /\ Exit(n) \o Plan(n) \in Seq(Asked)
<1>1. /\ graph.inside \in SUBSET Nodes /\ graph.outside \in SUBSET Nodes
      /\ TripMin \in Nat /\ 0 \in Nat
  BY GraphFacts, JourneysAssumption
<1>2. /\ Calls(n, graph.inside, TripMin, TripMax) \in Asked
      /\ Calls(n, graph.inside, 0, Infinite) \in Asked
      /\ Calls(n, graph.outside, 0, TripMax) \in Asked
      /\ Calls(n, graph.outside, 0, Infinite) \in Asked
  BY <1>1 DEF Calls, Asked
<1>3. Plan(n) \in Seq(Asked) /\ Exit(n) \in Seq(Asked)
  BY <1>2 DEF Plan, Exit
<1>4. QED
  BY <1>3, ConcatProperties

\* Begin keeps the invariant and is a step of the abstract search,
LEMMA CallAfterBegin ==
  ASSUME JInv, Begin
  PROVE  JInv' /\ [P!Next]_(P!vars)
<1>1. SearchInv /\ Ranked /\ VehicleInv
  BY DEF JInv
<1>2. /\ tries # <<>> /\ tries' = Tail(tries) /\ phase' = "choosing" /\ settled' = settled
      /\ todo' = todo /\ Idle
      /\ UNCHANGED <<world, vehicle, purpose>>
  BY <1>1 DEF Begin, SearchInv
<1>3. [P!Next]_(P!vars)
  BY <1>1, BeginMaps DEF P!Next
<1>4. tries' \in Seq(Asked) /\ settled' = {} /\ todo' = <<>>
  BY <1>1, <1>2, HeadTailProperties DEF SearchInv, Idle
<1>5. call'.from \in Nodes /\ call'.within \in SUBSET Nodes /\ call'.low \in Nat
  BY <1>1, BeginMaps DEF Asked
<1>6. todo' \in Seq(Ways) /\ IsInjective(todo')
  BY <1>4 DEF IsInjective
<1>7. SearchInv'
  BY <1>1, <1>2, <1>3, <1>4, <1>5, <1>6, BeginMaps, SearchStep
<1>8. Ranked'
  BY <1>4, NothingSettled
<1>9. VehicleInv'
  BY <1>1, <1>2, VehicleKept DEF VehicleInv
<1>10. QED
  BY <1>3, <1>7, <1>8, <1>9 DEF JInv

\* Inside a call, the call stays and somebody waits for it.
Searches == Skip \/ Settle \/ Improve \/ PassBy \/ Finish

\* and so are the steps of the search,
LEMMA SearchingKeeps ==
  ASSUME JInv, Searches
  PROVE  JInv' /\ [P!Next]_(P!vars)
<1>1. SearchInv /\ Ranked /\ VehicleInv
  BY DEF JInv
<1>2. UNCHANGED <<world, vehicle, purpose, tries, call>> /\ phase = "choosing" /\ phase' # "idle"
  BY DEF Searches, Skip, Settle, Improve, PassBy, Finish, Choosing
<1>3. VehicleInv'
  BY <1>1, <1>2, VehicleKept DEF VehicleInv
<1>4. /\ tries' \in Seq(Asked)
      /\ call'.from \in Nodes /\ call'.within \in SUBSET Nodes /\ call'.low \in Nat
      /\ todo \in Seq(Ways) /\ IsInjective(todo)
      /\ queue \in Heaps /\ Ordered(queue) /\ IsInjective(queue)
  BY <1>1, <1>2 DEF SearchInv
<1>5. CASE Skip
  <2>1. [P!Next]_(P!vars)
    BY <1>1, <1>5, SkipMaps DEF P!Next
  <2>2. todo' = todo /\ phase' = "choosing" /\ UNCHANGED <<settled, arrival, call>>
    BY <1>2, <1>5 DEF Skip
  <2>3. SearchInv'
    BY <1>1, <1>2, <1>4, <1>5, <2>1, <2>2, SkipMaps, SearchStep
  <2>4. QED
    BY <1>1, <1>3, <2>1, <2>2, <2>3, RanksKept DEF JInv
<1>6. CASE Settle
  <2>1. [P!Next]_(P!vars)
    BY <1>1, <1>6, SettleMaps DEF P!Next
  <2>2. SearchInv'
    BY <1>1, <1>2, <1>4, <1>6, <2>1, SettleMaps, SearchStep
  <2>3. QED
    BY <1>1, <1>3, <1>6, <2>1, <2>2, SettleRanks DEF JInv
<1>7. CASE Improve
  <2>1. [P!Next]_(P!vars)
    BY <1>1, <1>7, ImproveMaps DEF P!Next
  <2>2. SearchInv'
    BY <1>1, <1>2, <1>4, <1>7, <2>1, ImproveMaps, SearchStep
  <2>3. QED
    BY <1>1, <1>3, <1>7, <2>1, <2>2, ImproveRanks DEF JInv
<1>8. CASE PassBy
  <2>1. [P!Next]_(P!vars)
    BY <1>1, <1>8, PassByMaps DEF P!Next
  <2>2. queue' = queue /\ UNCHANGED <<settled, arrival, call>>
    BY <1>2, <1>8 DEF PassBy
  <2>3. SearchInv'
    BY <1>1, <1>2, <1>4, <1>8, <2>1, <2>2, PassByMaps, SearchStep
  <2>4. QED
    BY <1>1, <1>3, <2>1, <2>2, <2>3, RanksKept DEF JInv
<1>9. CASE Finish
  <2>1. [P!Next]_(P!vars)
    BY <1>1, <1>9, FinishMaps DEF P!Next
  <2>2. UNCHANGED <<settled, arrival, call>>
    BY <1>2, <1>9 DEF Finish
  <2>3. queue' = <<>> /\ todo' = <<>> /\ phase' = "done"
    BY <1>1, <1>9, FinishMaps
  <2>4. /\ queue' \in Heaps /\ Ordered(queue') /\ IsInjective(queue')
        /\ todo' \in Seq(Ways) /\ IsInjective(todo')
    BY <2>3 DEF Heaps, Ordered, IsInjective
  <2>5. SearchInv'
    BY <1>1, <1>2, <1>4, <2>1, <2>3, <2>4, SearchStep
  <2>6. QED
    BY <1>1, <1>3, <2>1, <2>2, <2>5, RanksKept DEF JInv
<1>10. QED
  BY <1>5, <1>6, <1>7, <1>8, <1>9 DEF Searches

\* (whatever is done with an answer, the call returns)
LEMMA AnswerUsed ==
  ASSUME JInv, phase = "done", Return, UNCHANGED world, tries' \in Seq(Asked)
  PROVE  SearchInv' /\ Ranked' /\ [P!Next]_(P!vars) /\ phase' = "idle"
<1>1. SearchInv /\ UNCHANGED graph
  BY DEF JInv, world
<1>2. [P!Next]_(P!vars) /\ call' = NoCall /\ Idle'
  BY <1>1, ReturnMaps DEF P!Next
<1>3. queue' = <<>> /\ todo' = <<>> /\ settled' = {} /\ phase' = "idle"
  BY DEF Return
<1>4. /\ queue' \in Heaps /\ Ordered(queue') /\ IsInjective(queue')
      /\ todo' \in Seq(Ways) /\ IsInjective(todo')
  BY <1>3 DEF Heaps, Ordered, IsInjective
<1>5. call'.from \in Nodes /\ call'.within \in SUBSET Nodes /\ call'.low \in Nat
  BY <1>1, <1>2, GraphFacts DEF NoCall, SearchInv
<1>6. SearchInv'
  BY <1>1, <1>2, <1>3, <1>4, <1>5, SearchStep
<1>7. Ranked'
  BY <1>3, NothingSettled
<1>8. QED
  BY <1>2, <1>3, <1>6, <1>7

\* the plan that came to nothing,
LEMMA ComeToNothingKeeps ==
  ASSUME JInv, ComeToNothing
  PROVE  JInv' /\ [P!Next]_(P!vars)
<1>1. /\ phase = "done" /\ Return /\ UNCHANGED <<world, vehicle, tries>>
      /\ purpose' = IF tries = <<>> THEN "nothing" ELSE purpose
  BY DEF ComeToNothing
<1>2. SearchInv' /\ Ranked' /\ [P!Next]_(P!vars) /\ phase' = "idle"
  BY <1>1, AnswerUsed DEF JInv, SearchInv
<1>3. UNCHANGED <<graph, leg, node, at, path, geometry, tries>>
  BY <1>1 DEF world, vehicle
<1>4. Nodes' = Nodes /\ Steps' = Steps /\ Ahead(path)' = Ahead(path)
  BY <1>3, PlacesKept DEF Ahead, Points
<1>5. OnTheWay' = OnTheWay
  BY <1>3, <1>4 DEF OnTheWay
<1>6. VehicleInv'
  BY <1>1, <1>2, <1>3, <1>4, <1>5 DEF JInv, VehicleInv, EnRoute
<1>7. QED
  BY <1>2, <1>6 DEF JInv

\* and the journey set out on.  A road under way stays in front: it is the first piece
\* of the new path and of the route shown.
LEMMA SetOutKeeps ==
  ASSUME JInv, SetOut
  PROVE  JInv' /\ [P!Next]_(P!vars)
<1>1. /\ phase = "done" /\ Return /\ UNCHANGED <<world, node, at>>
      /\ leg' = (IF purpose \in {"toCustomer", "toParking"} THEN purpose ELSE leg)
      /\ geometry' = (IF purpose = "trip" THEN geometry ELSE Announced(path'))
      /\ purpose' = "nothing" /\ tries' = <<>>
  BY DEF SetOut
<1>2. PICK destination \in Eligible :
        path' = (IF purpose = "replan" THEN <<path[1]>> ELSE <<>>) \o RouteTo[destination]
  BY DEF SetOut
<1>3. SearchInv /\ Ranked /\ VehicleInv /\ UNCHANGED graph /\ Loaded
  BY <1>1 DEF JInv, SearchInv, world
<1>4. tries' \in Seq(Asked)
  BY <1>1
<1>5. SearchInv' /\ Ranked' /\ [P!Next]_(P!vars) /\ phase' = "idle"
  BY <1>1, <1>4, AnswerUsed
<1>6. PICK route \in Seq(Steps) : route = RouteTo[destination] /\ route # <<>>
  BY <1>1, <1>3, RouteLeads
<1>7. path' \in Seq(Steps) /\ path' # <<>>
  <2>1. CASE purpose = "replan"
    <3>1. path \in Seq(Steps) /\ path # <<>>
      BY <1>3, <2>1 DEF VehicleInv, OnTheWay
    <3>2. PICK s \in Seq(Steps) : s = <<path[1]>>
      <4>1. path[1] \in Steps
        BY <1>3, <3>1, AheadFirst
      <4>2. <<path[1]>> \in Seq(Steps)
        BY <4>1
      <4>3. QED
        BY <4>2
    <3>3. s \o route \in Seq(Steps) /\ s \o route # <<>>
      BY <1>6, ConcatProperties, ConcatEqualIffEmpty
    <3>4. QED
      BY <1>2, <1>6, <2>1, <3>2, <3>3
  <2>2. CASE purpose # "replan"
    <3>1. path' = <<>> \o route
      BY <1>2, <1>6, <2>2
    <3>2. <<>> \o route = route
      BY ConcatEmptySeq
    <3>3. QED
      BY <1>6, <3>1, <3>2
  <2>3. QED
    BY <2>1, <2>2
<1>8. Nodes' = Nodes /\ Steps' = Steps
  BY <1>3, PlacesKept
<1>9. CASE purpose = "trip"
  <2>1. leg' = leg /\ geometry' = geometry /\ ~EnRoute
    BY <1>1, <1>3, <1>9 DEF VehicleInv
  <2>2. ~EnRoute' /\ geometry' = NoRoute
    BY <1>3, <2>1 DEF VehicleInv, EnRoute
  <2>3. VehicleInv'
    BY <1>1, <1>3, <1>5, <1>7, <1>8, <2>2 DEF VehicleInv, NoRoute
  <2>4. QED
    BY <1>5, <2>3 DEF JInv
<1>10. CASE purpose # "trip"
  <2>1. EnRoute'
    <3>1. purpose \in {"toCustomer", "toParking", "replan"}
      BY <1>1, <1>3, <1>10 DEF VehicleInv
    <3>2. purpose = "replan" => EnRoute
      BY <1>3 DEF VehicleInv
    <3>3. QED
      BY <1>1, <3>1, <3>2 DEF EnRoute
  <2>2. PICK p \in Seq(Steps) : p = path' /\ p # <<>>
    BY <1>7
  <2>3. PICK a \in Seq(DOMAIN Place) : a = Ahead(p)
    BY <1>3, AheadType
  <2>4. geometry' = [from |-> at, points |-> a]
    BY <1>1, <1>10, <2>2, <2>3 DEF Announced
  <2>5. Ahead(path)' = a
    <3>1. Ahead(p)' = Ahead(p)
      BY <1>3, AheadKept
    <3>2. Ahead(path)' = Ahead(p)'
      BY <2>2 DEF Ahead
    <3>3. QED
      BY <2>3, <3>1, <3>2
  <2>6. Shows(at[1], at[1], a, a)
    BY ShowsAll
  <2>7. Shows(at'[1], geometry'.from[1], geometry'.points, a)
    BY <1>1, <2>4, <2>6
  <2>8. OnTheWay'
    BY <1>7, <2>4, <2>5, <2>7 DEF OnTheWay, Shows
  <2>9. VehicleInv'
    BY <1>1, <1>3, <1>5, <1>7, <1>8, <2>1, <2>8 DEF VehicleInv
  <2>10. QED
    BY <1>5, <2>9 DEF JInv
<1>11. QED
  BY <1>9, <1>10

\* The tail of two sequences, the first not empty.
LEMMA TailOfConcat ==
  ASSUME NEW X, NEW s \in Seq(X), NEW t \in Seq(X), s # <<>>
  PROVE  /\ s \o t \in Seq(X) /\ s \o t # <<>> /\ (s \o t)[1] = s[1]
         /\ Tail(s) \in Seq(X) /\ Tail(s \o t) = Tail(s) \o t
<1> DEFINE m == Len(s)
           n == Len(t)
<1>1. /\ m \in Nat \ {0} /\ n \in Nat /\ s \o t \in Seq(X) /\ Len(s \o t) = m + n
      /\ \A i \in 1..(m + n) : (s \o t)[i] = IF i <= m THEN s[i] ELSE t[i - m]
  BY EmptySeq, LenProperties, ConcatProperties
<1> HIDE DEF m, n
<1>2. s \o t # <<>> /\ (s \o t)[1] = s[1]
  <2>1. m + n # 0 /\ 1 \in 1..(m + n) /\ 1 <= m
    BY <1>1
  <2>2. QED
    BY <1>1, <2>1, EmptySeq
<1>3. PICK c \in Seq(X) : c = s \o t /\ c # <<>>
  BY <1>1, <1>2
<1>4. PICK u \in Seq(X) : u = Tail(s) /\ Len(u) = m - 1 /\ \A i \in 1..(m - 1) : u[i] = s[i + 1]
  <2>1. /\ Tail(s) \in Seq(X) /\ Len(Tail(s)) = m - 1
        /\ \A i \in 1..Len(Tail(s)) : Tail(s)[i] = s[i + 1]
    BY HeadTailProperties DEF m
  <2>2. QED
    BY <2>1
<1>5. PICK v \in Seq(X) : v = Tail(c) /\ Len(v) = m + n - 1 /\ \A i \in 1..(m + n - 1) : v[i] = c[i + 1]
  <2>1. /\ Tail(c) \in Seq(X) /\ Len(Tail(c)) = Len(c) - 1
        /\ \A i \in 1..Len(Tail(c)) : Tail(c)[i] = c[i + 1]
    BY <1>3, HeadTailProperties
  <2>2. Len(c) = m + n
    BY <1>1, <1>3
  <2>3. PICK v \in Seq(X) : v = Tail(c)
    BY <2>1
  <2>4. Len(v) = Len(c) - 1 /\ \A i \in 1..Len(v) : v[i] = c[i + 1]
    BY <2>1, <2>3
  <2>5. Len(v) = m + n - 1
    BY <1>1, <2>2, <2>4
  <2>6. QED
    BY <2>3, <2>4, <2>5
<1>6. /\ u \o t \in Seq(X) /\ Len(u \o t) = (m - 1) + n
      /\ \A i \in 1..((m - 1) + n) : (u \o t)[i] = IF i <= m - 1 THEN u[i] ELSE t[i - (m - 1)]
  <2>1. /\ u \o t \in Seq(X) /\ Len(u \o t) = Len(u) + Len(t)
        /\ \A i \in 1..(Len(u) + Len(t)) : (u \o t)[i] = IF i <= Len(u) THEN u[i] ELSE t[i - Len(u)]
    BY ConcatProperties
  <2>2. QED
    BY <1>4, <2>1 DEF n
<1>7. ASSUME NEW i \in 1..(m + n - 1)
      PROVE  v[i] = (u \o t)[i]
  <2>1. i \in 1..((m - 1) + n) /\ i + 1 \in 1..(m + n)
    BY <1>1
  <2>2. v[i] = IF i + 1 <= m THEN s[i + 1] ELSE t[(i + 1) - m]
    BY <1>1, <1>3, <1>5, <2>1
  <2>3. CASE i <= m - 1
    <3>1. i + 1 <= m /\ i \in 1..(m - 1)
      BY <1>1, <2>3
    <3>2. QED
      BY <1>4, <1>6, <2>1, <2>2, <2>3, <3>1
  <2>4. CASE ~(i <= m - 1)
    <3>1. ~(i + 1 <= m) /\ (i + 1) - m = i - (m - 1)
      BY <1>1, <2>4
    <3>2. QED
      BY <1>6, <2>1, <2>2, <2>4, <3>1
  <2>5. QED
    BY <2>3, <2>4
<1>8. v = u \o t
  <2>a. (m - 1) + n = m + n - 1
    BY <1>1
  <2>1. PICK w \in Seq(X) : w = u \o t /\ Len(w) = m + n - 1
    BY <1>6, <2>a
  <2>2. QED
    BY <1>5, <1>7, <2>1, SeqEqual
<1>9. QED
  BY <1>1, <1>2, <1>3, <1>4, <1>5, <1>8

\* A step of the vehicle leaves the search alone.
LEMMA ElsewhereKeeps ==
  ASSUME JInv, UNCHANGED <<world, search>>, tries' \in Seq(Asked)
  PROVE  SearchInv' /\ Ranked' /\ [P!Next]_(P!vars) /\ phase' = phase
<1>1. SearchInv' /\ UNCHANGED P!vars
  BY SearchKept DEF JInv
<1>2. Ranked'
  BY RanksKept DEF JInv, search
<1>3. QED
  BY <1>1, <1>2 DEF search

\* Dispatch,
LEMMA DispatchKeeps ==
  ASSUME JInv, NEW journey \in {"toCustomer", "toParking"}, Dispatch(journey)
  PROVE  JInv' /\ [P!Next]_(P!vars)
<1>1. /\ purpose' = journey /\ tries' = Plan(node)
      /\ UNCHANGED <<world, vehicle, search>>
  BY DEF Dispatch
<1>2. tries' \in Seq(Asked)
  BY <1>1, PlanType DEF JInv, SearchInv, VehicleInv
<1>3. SearchInv' /\ Ranked' /\ [P!Next]_(P!vars)
  BY <1>1, <1>2, ElsewhereKeeps
<1>4. UNCHANGED <<graph, leg, node, at, path, geometry>>
  BY <1>1 DEF world, vehicle
<1>5. Nodes' = Nodes /\ Steps' = Steps /\ Ahead(path)' = Ahead(path)
  BY <1>4, PlacesKept DEF Ahead, Points
<1>6. OnTheWay' = OnTheWay
  BY <1>4, <1>5 DEF OnTheWay
<1>7. VehicleInv'
  BY <1>1, <1>4, <1>5, <1>6 DEF JInv, VehicleInv, EnRoute
<1>8. QED
  BY <1>3, <1>7 DEF JInv

\* Replan,
LEMMA ReplanKeeps ==
  ASSUME JInv, Replan
  PROVE  JInv' /\ [P!Next]_(P!vars)
<1>1. /\ EnRoute /\ path # <<>> /\ purpose' = "replan" /\ tries' = Plan(path[1].node)
      /\ UNCHANGED <<world, vehicle, search>>
  BY DEF Replan
<1>2. path[1].node \in Nodes
  BY <1>1, AheadFirst DEF JInv, SearchInv, VehicleInv, Steps
<1>3. tries' \in Seq(Asked)
  BY <1>1, <1>2, PlanType DEF JInv, SearchInv
<1>4. SearchInv' /\ Ranked' /\ [P!Next]_(P!vars)
  BY <1>1, <1>3, ElsewhereKeeps
<1>5. UNCHANGED <<graph, leg, node, at, path, geometry>>
  BY <1>1 DEF world, vehicle
<1>6. Nodes' = Nodes /\ Steps' = Steps /\ Ahead(path)' = Ahead(path)
  BY <1>5, PlacesKept DEF Ahead, Points
<1>7. OnTheWay' = OnTheWay
  BY <1>5, <1>6 DEF OnTheWay
<1>8. VehicleInv'
  BY <1>1, <1>5, <1>6, <1>7 DEF JInv, VehicleInv, EnRoute
<1>9. QED
  BY <1>4, <1>8 DEF JInv

\* Driving past the next point of what is ahead.
LEMMA OnePointOn ==
  ASSUME JInv, EnRoute, UNCHANGED <<graph, geometry>>, NEW p \in Seq(Steps), p = path', p # <<>>,
         Ahead(path) # <<>>, Ahead(p) = Tail(Ahead(path)), at' = <<Ahead(path)[1]>>
  PROVE  OnTheWay'
<1>1. PICK a \in Seq(DOMAIN Place) : a = Ahead(path) /\ a # <<>>
  BY AheadType DEF JInv, SearchInv, VehicleInv
<1>2. /\ geometry.points \in Seq(DOMAIN Place)
      /\ Shows(at[1], geometry.from[1], geometry.points, a)
  BY <1>1 DEF JInv, VehicleInv, OnTheWay
<1>3. Shows(a[1], geometry.from[1], geometry.points, Tail(a))
  BY <1>1, <1>2, ShowsOn
<1>4. Ahead(path)' = Tail(a)
  <2>1. Ahead(p)' = Ahead(p)
    BY AheadKept
  <2>2. Ahead(path)' = Ahead(p)'
    BY DEF Ahead
  <2>3. QED
    BY <1>1, <2>1, <2>2
<1>5. at'[1] = a[1]
  BY <1>1
<1>6. Shows(at'[1], geometry'.from[1], geometry'.points, Ahead(path)')
  BY <1>3, <1>4, <1>5
<1>7. QED
  BY <1>2, <1>6 DEF OnTheWay, Shows

\* Move: the first point ahead is not passed yet,
LEMMA MoveKeeps ==
  ASSUME JInv, Move
  PROVE  JInv' /\ [P!Next]_(P!vars)
<1>1. /\ purpose = "nothing" /\ at' = <<at[1], Head(Points(path[1]))>>
      /\ UNCHANGED <<world, leg, node, path, geometry, purpose, tries, search>>
  BY DEF Move
<1>2. SearchInv' /\ Ranked' /\ [P!Next]_(P!vars) /\ phase' = phase
  BY <1>1, ElsewhereKeeps DEF JInv, SearchInv
<1>3. UNCHANGED graph /\ at'[1] = at[1]
  BY <1>1 DEF world
<1>4. Nodes' = Nodes /\ Steps' = Steps /\ Ahead(path)' = Ahead(path)
  BY <1>1, <1>3, PlacesKept DEF Ahead, Points
<1>5. OnTheWay' = OnTheWay
  BY <1>1, <1>3, <1>4 DEF OnTheWay, Shows
<1>6. VehicleInv'
  BY <1>1, <1>2, <1>4, <1>5 DEF JInv, VehicleInv, EnRoute
<1>7. QED
  BY <1>2, <1>6 DEF JInv

\* A road's shape shortened by its first point.
LEMMA Shortened ==
  ASSUME Loaded, NEW s \in Seq(Steps), s # <<>>, s[1].via # <<>>,
         NEW p, p = [s EXCEPT ![1].via = Tail(@)]
  PROVE  /\ p \in Seq(Steps) /\ p # <<>> /\ Ahead(s) # <<>>
         /\ Ahead(p) = Tail(Ahead(s)) /\ Ahead(s)[1] = s[1].via[1]
<1>1. /\ s[1] \in Steps /\ Tail(s) \in Seq(Steps)
      /\ Ahead(s) = Points(s[1]) \o Ahead(Tail(s))
  BY AheadFirst
<1>2. s[1].node \in Nodes /\ s[1].via \in Seq(DOMAIN Place)
  BY <1>1 DEF Steps
<1>3. PICK via \in Seq(DOMAIN Place), rest \in Seq(DOMAIN Place), end \in Seq(DOMAIN Place) :
        via = s[1].via /\ rest = Ahead(Tail(s)) /\ end = <<graph.positions[s[1].node]>>
  <2>1. graph.positions[s[1].node] \in DOMAIN Place
    BY <1>1, PointsType
  <2>2. <<graph.positions[s[1].node]>> \in Seq(DOMAIN Place)
    BY <2>1
  <2>3. Ahead(Tail(s)) \in Seq(DOMAIN Place)
    BY <1>1, AheadType
  <2>4. QED
    BY <1>2, <2>2, <2>3
<1>4. via # <<>> /\ Tail(via) \in Seq(DOMAIN Place)
  BY <1>3, HeadTailProperties
<1>5. PICK q \in Steps : q = [s[1] EXCEPT !.via = Tail(@)] /\ q.node = s[1].node /\ q.via = Tail(via)
  <2>1. PICK first \in Steps : first = s[1]
    BY <1>1
  <2>2. first.via = via
    BY <1>3, <2>1
  <2>3. [first EXCEPT !.via = Tail(via)] \in Steps
    BY <1>4 DEF Steps
  <2>4. /\ [first EXCEPT !.via = Tail(via)].node = first.node
        /\ [first EXCEPT !.via = Tail(via)].via = Tail(via)
    BY DEF Steps
  <2>5. [s[1] EXCEPT !.via = Tail(@)] = [first EXCEPT !.via = Tail(via)]
    BY <2>1, <2>2
  <2>6. QED
    BY <2>1, <2>3, <2>4, <2>5
<1>6. /\ p \in Seq(Steps) /\ Len(p) = Len(s) /\ p[1] = q
      /\ \A i \in 1..Len(s) : i # 1 => p[i] = s[i]
  <2>1. p = [s EXCEPT ![1] = q]
    BY <1>5
  <2>2. 1 \in 1..Len(s)
    BY EmptySeq
  <2>3. /\ [s EXCEPT ![1] = q] \in Seq(Steps)
        /\ Len([s EXCEPT ![1] = q]) = Len(s)
        /\ \A i \in 1..Len(s) : [s EXCEPT ![1] = q][i] = IF i = 1 THEN q ELSE s[i]
    BY <2>2, ExceptSeq
  <2>4. QED
    BY <2>1, <2>2, <2>3
<1>7. p # <<>> /\ Tail(p) = Tail(s)
  <2>1. Len(p) \in Nat \ {0} /\ p # <<>>
    BY <1>6, EmptySeq
  <2>2. PICK t, u \in Seq(Steps) :
          /\ t = Tail(p) /\ u = Tail(s) /\ Len(t) = Len(s) - 1 /\ Len(u) = Len(s) - 1
          /\ \A i \in 1..Len(t) : t[i] = p[i + 1]
          /\ \A i \in 1..Len(u) : u[i] = s[i + 1]
    <3>1. /\ Tail(p) \in Seq(Steps) /\ Len(Tail(p)) = Len(p) - 1
          /\ \A i \in 1..Len(Tail(p)) : Tail(p)[i] = p[i + 1]
      BY <1>6, <2>1, HeadTailProperties
    <3>2. /\ Tail(s) \in Seq(Steps) /\ Len(Tail(s)) = Len(s) - 1
          /\ \A i \in 1..Len(Tail(s)) : Tail(s)[i] = s[i + 1]
      BY HeadTailProperties
    <3>3. Len(Tail(p)) = Len(s) - 1
      BY <1>6, <3>1
    <3>4. QED
      BY <3>1, <3>2, <3>3, ZenonT(30)
  <2>3. \A i \in 1..Len(t) : t[i] = u[i]
    <3>1. \A i \in 1..Len(t) : i + 1 \in 1..Len(s) /\ i + 1 # 1 /\ i \in 1..Len(u)
      BY <1>6, <2>1, <2>2
    <3>2. QED
      BY <1>6, <2>2, <3>1
  <2>4. t = u
    BY <2>2, <2>3, SeqEqual
  <2>5. QED
    BY <2>1, <2>2, <2>4
<1>8. Ahead(p) = Points(p[1]) \o rest
  BY <1>3, <1>6, <1>7, AheadFirst
<1>9. Points(s[1]) = via \o end /\ Points(p[1]) = Tail(via) \o end
  BY <1>3, <1>5, <1>6 DEF Points
<1>10. /\ via \o end \in Seq(DOMAIN Place) /\ via \o end # <<>> /\ (via \o end)[1] = via[1]
       /\ Tail(via \o end) = Tail(via) \o end
  BY <1>4, TailOfConcat
<1>11. PICK c \in Seq(DOMAIN Place) : c = via \o end
  BY <1>10
<1>12. c \o rest # <<>> /\ (c \o rest)[1] = c[1] /\ Tail(c \o rest) = Tail(c) \o rest
  <2>1. c # <<>> /\ rest \in Seq(DOMAIN Place)
    BY <1>10, <1>11
  <2>2. QED
    BY <2>1, TailOfConcat
<1>13. Ahead(s) = c \o rest /\ Ahead(p) = Tail(c) \o rest
  BY <1>1, <1>3, <1>8, <1>9, <1>10, <1>11, ZenonT(30)
<1>14. QED
  BY <1>3, <1>6, <1>7, <1>10, <1>11, <1>12, <1>13, ZenonT(30)

\* PassPoint: one point fewer ahead,
LEMMA PassPointKeeps ==
  ASSUME JInv, PassPoint
  PROVE  JInv' /\ [P!Next]_(P!vars)
<1>1. /\ purpose = "nothing" /\ path # <<>> /\ path[1].via # <<>>
      /\ at' = <<path[1].via[1]>> /\ path' = [path EXCEPT ![1].via = Tail(@)]
      /\ UNCHANGED <<world, leg, node, geometry, purpose, tries, search>>
  BY DEF PassPoint
<1>2. SearchInv' /\ Ranked' /\ [P!Next]_(P!vars) /\ phase' = phase
  BY <1>1, ElsewhereKeeps DEF JInv, SearchInv
<1>3. UNCHANGED graph /\ Loaded /\ path \in Seq(Steps)
  BY <1>1 DEF world, JInv, SearchInv, VehicleInv
<1>4. Nodes' = Nodes /\ Steps' = Steps
  BY <1>3, PlacesKept
<1>5. /\ path' \in Seq(Steps) /\ path' # <<>> /\ Ahead(path) # <<>>
      /\ Ahead(path)[1] = path[1].via[1]
  BY <1>1, <1>3, Shortened
<1>6. PICK p \in Seq(Steps) : p = path' /\ p # <<>>
  BY <1>5
<1>7. Ahead(p) = Tail(Ahead(path))
  BY <1>1, <1>3, <1>6, Shortened
<1>8. EnRoute => OnTheWay'
  BY <1>1, <1>3, <1>5, <1>6, <1>7, OnePointOn
<1>9. VehicleInv'
  BY <1>1, <1>2, <1>4, <1>5, <1>8 DEF JInv, VehicleInv, EnRoute
<1>10. QED
  BY <1>2, <1>9 DEF JInv

\* (the last point of a road is its intersection)
LEMMA ReachFacts ==
  ASSUME JInv, Reach
  PROVE  /\ path'  \in Seq(Steps) /\ node' \in Nodes /\ path \in Seq(Steps) /\ path # <<>>
         /\ path' = Tail(path) /\ Len(path') = Len(path) - 1 /\ Len(path) \in Nat \ {0}
         /\ Ahead(path) # <<>> /\ at' = <<Ahead(path)[1]>>
         /\ Ahead(Tail(path)) = Tail(Ahead(path))
<1>1. /\ path # <<>> /\ path[1].via = <<>> /\ at' = <<graph.positions[path[1].node]>>
      /\ node' = path[1].node /\ path' = Tail(path)
  BY DEF Reach
<1>2. Loaded /\ path \in Seq(Steps)
  BY DEF JInv, SearchInv, VehicleInv
<1>3. /\ path[1] \in Steps /\ Tail(path) \in Seq(Steps)
      /\ Ahead(path) = Points(path[1]) \o Ahead(Tail(path))
  BY <1>1, <1>2, AheadFirst
<1>4. node' \in Nodes
  BY <1>1, <1>3 DEF Steps
<1>5. Len(path') = Len(path) - 1 /\ Len(path) \in Nat \ {0}
  BY <1>1, <1>2, HeadTailProperties, EmptySeq
<1>6. PICK here \in DOMAIN Place : here = graph.positions[path[1].node]
  BY <1>2, <1>3, PointsType
<1>7. PICK one \in Seq(DOMAIN Place) : one = <<here>> /\ one # <<>> /\ one[1] = here /\ Tail(one) = <<>>
  <2>1. <<here>> \in Seq(DOMAIN Place) /\ <<here>> # <<>> /\ <<here>>[1] = here
    OBVIOUS
  <2>2. Tail(<<here>>) = <<>>
    OBVIOUS
  <2>3. QED
    BY <2>1, <2>2
<1>8. Points(path[1]) = one
  <2>1. <<>> \o one = one
    BY ConcatEmptySeq
  <2>2. QED
    BY <1>1, <1>6, <1>7, <2>1 DEF Points
<1>9. PICK rest \in Seq(DOMAIN Place) : rest = Ahead(Tail(path))
  BY <1>2, <1>3, AheadType
<1>10. one \o rest # <<>> /\ (one \o rest)[1] = here /\ Tail(one \o rest) = <<>> \o rest
  BY <1>7, TailOfConcat
<1>11. <<>> \o rest = rest
  BY ConcatEmptySeq
<1>12. QED
  BY <1>1, <1>2, <1>3, <1>4, <1>5, <1>6, <1>8, <1>9, <1>10, <1>11

\* EndRoad: again one point fewer,
LEMMA EndRoadKeeps ==
  ASSUME JInv, EndRoad
  PROVE  JInv' /\ [P!Next]_(P!vars)
<1>1. /\ Reach /\ Len(path) > 1 /\ purpose = "nothing"
      /\ UNCHANGED <<world, leg, geometry, purpose, tries, search>>
  BY DEF EndRoad, Reach
<1>2. SearchInv' /\ Ranked' /\ [P!Next]_(P!vars) /\ phase' = phase
  BY <1>1, ElsewhereKeeps DEF JInv, SearchInv
<1>3. UNCHANGED graph
  BY <1>1 DEF world
<1>4. Nodes' = Nodes /\ Steps' = Steps
  BY <1>3, PlacesKept
<1>5. PICK p \in Seq(Steps) : p = path' /\ p # <<>>
  <2>1. path' \in Seq(Steps) /\ Len(path') = Len(path) - 1 /\ Len(path) \in Nat
    BY <1>1, ReachFacts
  <2>2. Len(path') # 0
    BY <1>1, <2>1
  <2>3. QED
    BY <2>1, <2>2, EmptySeq
<1>6. EnRoute => OnTheWay'
  BY <1>1, <1>3, <1>5, ReachFacts, OnePointOn
<1>7. node' \in Nodes
  BY <1>1, ReachFacts
<1>8. VehicleInv'
  BY <1>1, <1>2, <1>4, <1>5, <1>6, <1>7 DEF JInv, VehicleInv, EnRoute
<1>9. QED
  BY <1>2, <1>8 DEF JInv

\* Handover: the route is cleared,
LEMMA HandoverKeeps ==
  ASSUME JInv, Handover
  PROVE  JInv' /\ [P!Next]_(P!vars)
<1>1. /\ Reach /\ leg' = "withCustomer" /\ geometry' = NoRoute /\ purpose' = "trip"
      /\ tries' \in {Plan(node'), Exit(node') \o Plan(node')}
      /\ UNCHANGED <<world, search>>
  BY DEF Handover
<1>2. path' \in Seq(Steps) /\ node' \in Nodes
  BY <1>1, ReachFacts
<1>3. tries' \in Seq(Asked)
  BY <1>1, <1>2, PlanType DEF JInv, SearchInv
<1>4. SearchInv' /\ Ranked' /\ [P!Next]_(P!vars)
  BY <1>1, <1>3, ElsewhereKeeps
<1>5. Nodes' = Nodes /\ Steps' = Steps
  BY <1>1, PlacesKept DEF world
<1>6. VehicleInv'
  BY <1>1, <1>2, <1>5 DEF VehicleInv, EnRoute, NoRoute
<1>7. QED
  BY <1>4, <1>6 DEF JInv

\* and Park.
LEMMA ParkKeeps ==
  ASSUME JInv, Park
  PROVE  JInv' /\ [P!Next]_(P!vars)
<1>1. /\ Reach /\ leg' = "parked" /\ geometry' = NoRoute /\ purpose = "nothing"
      /\ UNCHANGED <<world, purpose, tries, search>>
  BY DEF Park, Reach
<1>2. path' \in Seq(Steps) /\ node' \in Nodes
  BY <1>1, ReachFacts
<1>3. SearchInv' /\ Ranked' /\ [P!Next]_(P!vars) /\ phase' = phase
  BY <1>1, ElsewhereKeeps DEF JInv, SearchInv
<1>4. Nodes' = Nodes /\ Steps' = Steps
  BY <1>1, PlacesKept DEF world
<1>5. VehicleInv'
  BY <1>1, <1>2, <1>3, <1>4 DEF JInv, VehicleInv, EnRoute, NoRoute
<1>6. QED
  BY <1>3, <1>5 DEF JInv

\* A parked vehicle on a loaded network satisfies the invariant.
LEMMA StartHolds == Init => JInv /\ P!Init
<1> SUFFICES ASSUME Init
             PROVE  JInv /\ P!Init
  OBVIOUS
<1>1. /\ network = Generate(extract) /\ extract \in Extracts /\ Usable(network)
      /\ graph = Load(network) /\ leg = "parked" /\ path = <<>> /\ geometry = NoRoute
      /\ node \in graph.inside /\ purpose = "nothing" /\ tries = <<>> /\ Idle
  BY DEF Init
<1>2. Loaded
  <2>1. /\ IsNetwork(Generate(extract)) /\ Loadable(Generate(extract))
        /\ Connected(Generate(extract))
    BY <1>1, GeneratedCanBeDriven
  <2>2. QED
    BY <1>1, <2>1 DEF Loaded, Accepted
<1>3. /\ Map(graph).nodes = Nodes /\ P!IsGraph(Map(graph)) /\ 1 \in Nodes /\ node \in Nodes
  BY <1>1, <1>2, MapFacts, GraphFacts
<1>4. /\ call = NoCall /\ phase = "idle" /\ distance = Unreached /\ arrival = ByNoRoad
      /\ settled = {} /\ queue = <<>> /\ nearest = Entry(1, 0) /\ todo = <<>>
  BY <1>1 DEF Idle
<1>5. ToSet(queue) = {} /\ ToSet(todo) = {}
  BY <1>4 DEF ToSet
<1>6. P!Idle
  BY <1>3, <1>4, <1>5 DEF P!Idle, P!Infinite, Infinite, P!Entry, Entry, NoCall, Unreached, ByNoRoad
<1>7. P!IInv
  BY <1>3, <1>6, P!IdleEstablishes
<1>8. Ranked
  BY <1>4, NothingSettledYet
<1>9. /\ queue \in Heaps /\ Ordered(queue) /\ IsInjective(queue)
      /\ todo \in Seq(Ways) /\ IsInjective(todo)
  BY <1>4 DEF Heaps, Ordered, IsInjective
<1>10. tries \in Seq(Asked) /\ path \in Seq(Steps)
  BY <1>1
<1>11. call.from \in Nodes /\ call.within \in SUBSET Nodes /\ call.low \in Nat
  BY <1>3, <1>4 DEF NoCall
<1>12. SearchInv
  BY <1>1, <1>2, <1>4, <1>7, <1>9, <1>10, <1>11 DEF SearchInv
<1>13. VehicleInv
  BY <1>1, <1>3, <1>4, <1>10 DEF VehicleInv, EnRoute
<1>14. QED
  BY <1>3, <1>6, <1>8, <1>12, <1>13 DEF JInv, P!Init

\* A stutter is one of the abstract search.
LEMMA StutterKeeps ==
  ASSUME JInv, UNCHANGED vars
  PROVE  JInv' /\ [P!Next]_(P!vars)
<1>1. UNCHANGED <<world, vehicle, purpose>> /\ UNCHANGED search /\ tries' = tries
  BY DEF vars
<1>2. tries' \in Seq(Asked)
  BY <1>1 DEF JInv, SearchInv
<1>3. SearchInv' /\ Ranked' /\ [P!Next]_(P!vars) /\ phase' = phase
  BY <1>1, <1>2, ElsewhereKeeps
<1>4. VehicleInv'
  BY <1>1, <1>3, VehicleKept DEF JInv, VehicleInv
<1>5. QED
  BY <1>3, <1>4 DEF JInv

\* One case per action.
LEMMA StepKeepsAll == JInv /\ [Next]_vars => JInv' /\ [P!Next]_(P!vars)
<1> SUFFICES ASSUME JInv, [Next]_vars
             PROVE  JInv' /\ [P!Next]_(P!vars)
  OBVIOUS
<1>1. ASSUME NEW journey \in {"toCustomer", "toParking"}, Dispatch(journey)
      PROVE  JInv' /\ [P!Next]_(P!vars)
  BY <1>1, DispatchKeeps
<1>2. CASE Replan
  BY <1>2, ReplanKeeps
<1>3. CASE Begin
  BY <1>3, CallAfterBegin
<1>4. CASE Skip \/ Settle \/ Improve \/ PassBy \/ Finish
  BY <1>4, SearchingKeeps DEF Searches
<1>5. CASE SetOut
  BY <1>5, SetOutKeeps
<1>6. CASE ComeToNothing
  BY <1>6, ComeToNothingKeeps
<1>7. CASE Move
  BY <1>7, MoveKeeps
<1>8. CASE PassPoint
  BY <1>8, PassPointKeeps
<1>9. CASE EndRoad
  BY <1>9, EndRoadKeeps
<1>10. CASE Handover
  BY <1>10, HandoverKeeps
<1>11. CASE Park
  BY <1>11, ParkKeeps
<1>12. CASE UNCHANGED vars
  BY <1>12, StutterKeeps
<1>13. QED
  BY <1>1, <1>2, <1>3, <1>4, <1>5, <1>6, <1>7, <1>8, <1>9, <1>10, <1>11, <1>12 DEF Next

\* The invariant, and the abstract search behind it.
LEMMA JourneysHold == Spec => []JInv /\ P!Spec
<1>1. Init => JInv /\ P!Init
  BY StartHolds
<1>2. JInv /\ [Next]_vars => JInv' /\ [P!Next]_(P!vars)
  BY StepKeepsAll
<1>3. QED
  BY <1>1, <1>2, PTL DEF Spec, P!Spec

\* The search with the binary heap takes a nearest entry every time: a step of
\* it is a step of the search that may take any nearest one (graph.go:310, up
\* and down).
THEOREM HeapSearchesNearestFirst == Spec => SearchesNearestFirst
<1>1. P!IsGraph(Map(graph)) <=> Nearest!IsGraph(Map(graph))
  BY DEF P!IsGraph, Nearest!IsGraph
<1>2. P!Init <=> Nearest!Init
  BY <1>1 DEF P!Init, Nearest!Init, P!Idle, Nearest!Idle, P!Infinite, Nearest!Infinite,
              P!Entry, Nearest!Entry
<1>3. [P!Next]_(P!vars) <=> [Nearest!Next]_(Nearest!vars)
  <2>1. \A o, m : P!Begin(o, m) <=> Nearest!Begin(o, m)
    BY DEF P!Begin, Nearest!Begin, P!Bounds, Nearest!Bounds, P!Infinite, Nearest!Infinite,
           P!Entry, Nearest!Entry
  <2>2. \A e : (P!Skip(e) <=> Nearest!Skip(e)) /\ (P!Settle(e) <=> Nearest!Settle(e))
    BY DEF P!Skip, Nearest!Skip, P!Settle, Nearest!Settle, P!Choosing, Nearest!Choosing,
           P!Nearest, Nearest!Nearest, P!Beyond, Nearest!Beyond, P!Infinite, Nearest!Infinite
  <2>3. \A l : (P!Improve(l) <=> Nearest!Improve(l)) /\ (P!PassBy(l) <=> Nearest!PassBy(l))
    BY DEF P!Improve, Nearest!Improve, P!PassBy, Nearest!PassBy, P!Improves, Nearest!Improves,
           P!Through, Nearest!Through, P!Infinite, Nearest!Infinite, P!Entry, Nearest!Entry
  <2>4. P!Finish <=> Nearest!Finish
    BY DEF P!Finish, Nearest!Finish, P!Choosing, Nearest!Choosing, P!Nearest, Nearest!Nearest,
           P!Beyond, Nearest!Beyond, P!Infinite, Nearest!Infinite
  <2>5. P!Return <=> Nearest!Return
    BY DEF P!Return, Nearest!Return, P!Idle, Nearest!Idle, P!Infinite, Nearest!Infinite,
           P!Entry, Nearest!Entry
  <2>6. P!Next <=> Nearest!Next
    BY <2>1, <2>2, <2>3, <2>4, <2>5 DEF P!Next, Nearest!Next
  <2>7. P!vars' = P!vars <=> Nearest!vars' = Nearest!vars
    BY DEF P!vars, Nearest!vars
  <2>8. QED
    BY <2>6, <2>7
<1>4. QED
  BY <1>2, <1>3, JourneysHold, PTL DEF P!Spec, SearchesNearestFirst, Nearest!Spec

\* The route the operator is shown of a vehicle under way starts where the vehicle
\* was, leads past where it is and ends with exactly what it has yet to drive, however
\* often the journey is revised; without a journey none is shown (vehicle.go,
\* assignRoute).
THEOREM ShownRouteHolds == Spec => []ShownRouteIsDriven
<1>1. JInv => ShownRouteIsDriven
  BY DEF JInv, VehicleInv, OnTheWay, Shows, ShownRouteIsDriven
<1>2. QED
  BY <1>1, JourneysHold, PTL

-----------------------------------------------------------------------------
(* How far it is along what is driven.                                     *)

\* Along two stretches that meet at a point.
LEMMA AlongBoth ==
  ASSUME NEW s \in Seq(DOMAIN Place), NEW t \in Seq(DOMAIN Place), NEW w \in Seq(DOMAIN Place),
         s # <<>>, w = <<s[Len(s)]>> \o t
  PROVE  /\ s \o t \in Seq(DOMAIN Place) /\ s \o t # <<>>
         /\ Along(s \o t) = Along(s) + Along(w)
<1> DEFINE k == Len(s)
           n == Len(t)
<1>1. /\ k \in Nat \ {0} /\ n \in Nat /\ DOMAIN s = 1..k /\ s[k] \in DOMAIN Place
      /\ \A i \in 1..k : s[i] \in DOMAIN Place
  BY EmptySeq, LenProperties, ElementOfSeq
<1>2. PICK c \in Seq(DOMAIN Place) :
        /\ c = s \o t /\ Len(c) = k + n
        /\ \A i \in 1..(k + n) : c[i] = IF i <= k THEN s[i] ELSE t[i - k]
  <2>1. /\ s \o t \in Seq(DOMAIN Place) /\ Len(s \o t) = Len(s) + Len(t)
        /\ \A i \in 1..(Len(s) + Len(t)) : (s \o t)[i] = IF i <= Len(s) THEN s[i] ELSE t[i - Len(s)]
    BY ConcatProperties
  <2>2. QED
    BY <2>1
<1>3. PICK o \in Seq(DOMAIN Place) : o = <<s[k]>> /\ Len(o) = 1 /\ o[1] = s[k]
  <2>1. <<s[k]>> \in Seq(DOMAIN Place) /\ Len(<<s[k]>>) = 1 /\ <<s[k]>>[1] = s[k]
    BY <1>1
  <2>2. QED
    BY <2>1
<1>4. /\ Len(w) = n + 1
      /\ \A i \in 1..(n + 1) : w[i] = IF i <= 1 THEN s[k] ELSE t[i - 1]
  <2>1. /\ o \o t \in Seq(DOMAIN Place) /\ Len(o \o t) = Len(o) + Len(t)
        /\ \A i \in 1..(Len(o) + Len(t)) : (o \o t)[i] = IF i <= Len(o) THEN o[i] ELSE t[i - Len(o)]
    BY ConcatProperties
  <2>2. w = o \o t /\ Len(o) + Len(t) = n + 1
    BY <1>1, <1>3
  <2>3. QED
    BY <1>1, <1>3, <2>1, <2>2
<1> HIDE DEF k, n
<1>5. c # <<>> /\ w # <<>> /\ DOMAIN c = 1..(k + n) /\ DOMAIN w = 1..(n + 1)
  <2>1. k + n # 0 /\ n + 1 # 0
    BY <1>1
  <2>2. QED
    BY <1>2, <1>4, <2>1, EmptySeq, LenProperties
<1>6. PICK f \in [DOMAIN s -> Nat] : Measures(f, s) /\ Along(s) = f[Len(s)]
  BY AlongSteps
<1>7. PICK g \in [DOMAIN w -> Nat] : Measures(g, w) /\ Along(w) = g[Len(w)]
  BY <1>5, AlongSteps
<1>8. PICK h \in [DOMAIN c -> Nat] : Measures(h, c) /\ Along(c) = h[Len(c)]
  BY <1>5, AlongSteps
<1> DEFINE First == {i \in Nat : i + 1 \in 1..k => h[i + 1] = f[i + 1]}
           Then  == {i \in Nat : i \in 0..n => h[k + i] = f[k] + g[i + 1]}
<1>9. 0 \in First
  <2>1. 0 + 1 = 1 /\ 1 \in 1..k /\ 1 \in 1..(k + n)
    BY <1>1
  <2>2. f[1] = 0 /\ h[1] = 0
    BY <1>1, <1>5, <1>6, <1>8, <2>1 DEF Measures
  <2>3. QED
    BY <2>1, <2>2
<1>10. ASSUME NEW i \in Nat, i \in First
       PROVE  i + 1 \in First
  <2>1. CASE (i + 1) + 1 \in 1..k
    <3>1. PICK j \in 1..k : j = (i + 1) + 1 /\ j - 1 = i + 1 /\ j # 1
      BY <2>1
    <3>2. j - 1 \in 1..k /\ j \in 1..(k + n) /\ j - 1 \in 1..(k + n) /\ j <= k /\ j - 1 <= k
      BY <1>1, <3>1
    <3>3. h[j - 1] = f[j - 1]
      BY <1>10, <3>1, <3>2
    <3>4. c[j] = s[j] /\ c[j - 1] = s[j - 1]
      BY <1>2, <3>2
    <3>5. h[j] = h[j - 1] + Metres(c[j - 1], c[j])
      BY <1>5, <1>8, <3>1, <3>2 DEF Measures
    <3>6. f[j] = f[j - 1] + Metres(s[j - 1], s[j])
      BY <1>1, <1>6, <3>1, <3>2 DEF Measures
    <3>7. h[j] = f[j]
      BY <3>3, <3>4, <3>5, <3>6
    <3>8. QED
      BY <3>1, <3>7
  <2>2. QED
    BY <2>1
<1>11. Nat \subseteq First
  <2> HIDE DEF First
  <2>1. QED
    BY <1>9, <1>10, Naturally
<1>12. h[k] = f[k]
  <2>1. k - 1 \in Nat /\ (k - 1) + 1 = k /\ k \in 1..k
    BY <1>1
  <2>2. QED
    BY <1>11, <2>1
<1>13. 0 \in Then
  <2>1. 0 + 1 = 1 /\ 1 \in 1..(n + 1) /\ k + 0 = k /\ k \in 1..k
    BY <1>1
  <2>2. g[1] = 0
    BY <1>5, <1>7, <2>1 DEF Measures
  <2>3. f[k] \in Nat
    BY <1>1, <1>6, <2>1
  <2>4. QED
    BY <1>12, <2>1, <2>2, <2>3
<1>14. ASSUME NEW i \in Nat, i \in Then
       PROVE  i + 1 \in Then
  <2>1. CASE i + 1 \in 0..n
    <3>1. /\ i \in 0..n /\ i + 1 \in 1..n /\ i + 1 \in 1..(n + 1) /\ i + 2 \in 1..(n + 1)
          /\ k + i \in 1..(k + n) /\ k + (i + 1) \in 1..(k + n) /\ (i + 1) + 1 = i + 2
          /\ k + (i + 1) # 1 /\ i + 2 # 1 /\ (k + (i + 1)) - 1 = k + i /\ (i + 2) - 1 = i + 1
          /\ ~(k + (i + 1) <= k) /\ (k + (i + 1)) - k = i + 1 /\ ~(i + 2 <= 1) /\ k \in 1..k
      BY <1>1, <2>1
    <3>2. h[k + i] = f[k] + g[i + 1]
      BY <1>14, <3>1
    <3>3. c[k + (i + 1)] = t[i + 1] /\ w[i + 2] = t[i + 1]
      BY <1>2, <1>4, <3>1
    <3>4. c[k + i] = w[i + 1]
      <4>1. CASE i = 0
        <5>1. k + i = k /\ i + 1 = 1
          BY <1>1, <4>1
        <5>2. QED
          BY <1>1, <1>2, <1>4, <3>1, <5>1
      <4>2. CASE i # 0
        <5>1. ~(k + i <= k) /\ (k + i) - k = i /\ ~(i + 1 <= 1) /\ (i + 1) - 1 = i
          BY <1>1, <4>2
        <5>2. c[k + i] = t[(k + i) - k]
          BY <1>2, <3>1, <5>1
        <5>3. w[i + 1] = t[(i + 1) - 1]
          BY <1>4, <3>1, <5>1
        <5>4. QED
          BY <5>1, <5>2, <5>3
      <4>3. QED
        BY <4>1, <4>2
    <3>5. h[k + (i + 1)] = h[k + i] + Metres(c[k + i], c[k + (i + 1)])
      BY <1>5, <1>8, <3>1 DEF Measures
    <3>6. g[i + 2] = g[i + 1] + Metres(w[i + 1], w[i + 2])
      BY <1>5, <1>7, <3>1 DEF Measures
    <3>7. PICK d \in Nat : d = Metres(w[i + 1], w[i + 2])
      <4>1. w[i + 1] \in DOMAIN Place /\ w[i + 2] \in DOMAIN Place
        BY <1>4, <3>1, ElementOfSeq
      <4>2. QED
        BY <4>1, JourneysAssumption
    <3>8. f[k] \in Nat /\ g[i + 1] \in Nat
      BY <1>1, <1>5, <1>6, <1>7, <3>1
    <3>9. h[k + (i + 1)] = (f[k] + g[i + 1]) + d /\ g[i + 2] = g[i + 1] + d
      BY <3>2, <3>3, <3>4, <3>5, <3>6, <3>7
    <3>10. h[k + (i + 1)] = f[k] + g[i + 2]
      BY <3>8, <3>9, SMTT(30)
    <3>11. QED
      BY <3>1, <3>10
  <2>2. QED
    BY <2>1
<1>15. Nat \subseteq Then
  <2> HIDE DEF Then
  <2>1. QED
    BY <1>13, <1>14, Naturally
<1>16. h[k + n] = f[k] + g[n + 1]
  BY <1>1, <1>15
<1>17. QED
  BY <1>2, <1>4, <1>5, <1>6, <1>7, <1>8, <1>16 DEF k

\* Along the same points the other way.
LEMMA AlongReverse ==
  ASSUME NEW s \in Seq(DOMAIN Place), s # <<>>
  PROVE  Along(Reverse(s)) = Along(s)
<1>1. PICK n \in Nat \ {0} : n = Len(s) /\ DOMAIN s = 1..n
  BY EmptySeq, LenProperties
<1>2. PICK r \in Seq(DOMAIN Place) : r = Reverse(s) /\ Len(r) = n /\ \A i \in 1..n : r[i] = s[n - i + 1]
  BY <1>1, ReverseType
<1>3. r # <<>> /\ DOMAIN r = 1..n /\ \A i \in 1..n : s[i] \in DOMAIN Place
  BY <1>1, <1>2, EmptySeq, LenProperties, ElementOfSeq
<1>4. PICK f \in [DOMAIN s -> Nat] : Measures(f, s) /\ Along(s) = f[Len(s)]
  BY AlongSteps
<1>5. PICK g \in [DOMAIN r -> Nat] : Measures(g, r) /\ Along(r) = g[Len(r)]
  BY <1>3, AlongSteps
<1> DEFINE Same == {i \in Nat : i + 1 \in 1..n => g[i + 1] + f[n - i] = f[n]}
<1>6. 0 \in Same
  <2>1. 0 + 1 = 1 /\ 1 \in 1..n /\ n - 0 = n /\ n \in 1..n
    BY <1>1
  <2>2. g[1] = 0 /\ f[n] \in Nat
    BY <1>1, <1>3, <1>4, <1>5, <2>1 DEF Measures
  <2>3. QED
    BY <2>1, <2>2
<1>7. ASSUME NEW i \in Nat, i \in Same
      PROVE  i + 1 \in Same
  <2>1. CASE (i + 1) + 1 \in 1..n
    <3>1. PICK j, p, q \in 1..n : j = i + 2 /\ p = n - i /\ q = n - (i + 1)
      <4>1. i + 2 \in 1..n /\ n - i \in 1..n /\ n - (i + 1) \in 1..n
        BY <1>1, <2>1
      <4>2. QED
        BY <4>1, Zenon
    <3>2. /\ i + 1 \in 1..n /\ j # 1 /\ j - 1 = i + 1 /\ p # 1 /\ p - 1 = q
          /\ n - j + 1 = q /\ n - (i + 1) + 1 = p /\ (i + 1) + 1 = j
      BY <1>1, <2>1, <3>1
    <3>3. g[i + 1] + f[p] = f[n]
      BY <1>7, <3>1, <3>2
    <3>4. r[j] = s[q] /\ r[i + 1] = s[p]
      BY <1>2, <3>2
    <3>5. g[j] = g[i + 1] + Metres(s[p], s[q])
      <4>1. \A x \in 1..n : g[x] = IF x = 1 THEN 0 ELSE g[x - 1] + Metres(r[x - 1], r[x])
        BY <1>3, <1>5 DEF Measures
      <4>2. g[j] = g[j - 1] + Metres(r[j - 1], r[j])
        BY <3>2, <4>1
      <4>3. QED
        BY <3>2, <3>4, <4>2
    <3>6. f[p] = f[q] + Metres(s[q], s[p])
      BY <1>1, <1>4, <3>2 DEF Measures
    <3>7. PICK d \in Nat : d = Metres(s[p], s[q]) /\ d = Metres(s[q], s[p])
      BY <1>3, JourneysAssumption
    <3>8. g[i + 1] \in Nat /\ f[q] \in Nat /\ f[p] \in Nat /\ f[n] \in Nat
      BY <1>1, <1>3, <1>4, <1>5, <3>2
    <3>9. g[j] = g[i + 1] + d /\ f[p] = f[q] + d
      BY <3>5, <3>6, <3>7
    <3>10. g[j] + f[q] = f[n]
      <4>1. PICK a, b, x \in Nat : a = g[i + 1] /\ b = f[q] /\ x = f[n]
        BY <3>8
      <4>2. a + (b + d) = x /\ g[j] = a + d
        BY <3>3, <3>9, <4>1
      <4>3. (a + d) + b = x
        BY <4>2
      <4>4. QED
        BY <4>1, <4>2, <4>3
    <3>11. QED
      BY <3>1, <3>2, <3>10
  <2>2. QED
    BY <2>1
<1>8. Nat \subseteq Same
  <2> HIDE DEF Same
  <2>1. QED
    BY <1>6, <1>7, Naturally
<1>9. g[n] = f[n]
  <2>1. n - 1 \in Nat /\ (n - 1) + 1 = n /\ n \in 1..n /\ n - (n - 1) = 1 /\ 1 \in 1..n
    BY <1>1
  <2>2. g[n] + f[1] = f[n]
    BY <1>8, <2>1
  <2>3. f[1] = 0 /\ g[n] \in Nat
    BY <1>1, <1>3, <1>4, <1>5, <2>1 DEF Measures
  <2>4. QED
    BY <2>2, <2>3
<1>10. QED
  BY <1>1, <1>2, <1>4, <1>5, <1>9

\* One more sequence at the end.
LEMMA FlattenLast ==
  ASSUME NEW X, NEW ss \in Seq(Seq(X)), NEW t \in Seq(X), NEW tt \in Seq(Seq(X)), tt = Append(ss, t)
  PROVE  FlattenSeq(tt) = FlattenSeq(ss) \o t
<1> DEFINE n == Len(ss)
<1>1. n \in Nat /\ DOMAIN ss = 1..n
  BY LenProperties
<1>2. /\ Len(tt) = n + 1 /\ DOMAIN tt = 1..(n + 1)
      /\ \A i \in 1..n : tt[i] = ss[i]
      /\ tt[n + 1] = t
  <2>1. /\ Append(ss, t) \in Seq(Seq(X)) /\ Len(Append(ss, t)) = Len(ss) + 1
        /\ \A i \in 1..Len(ss) : Append(ss, t)[i] = ss[i]
        /\ Append(ss, t)[Len(ss) + 1] = t
    BY AppendProperties
  <2>2. Len(tt) = n + 1
    BY <2>1
  <2>3. QED
    BY <2>1, <2>2, LenProperties
<1>a. tt # <<>>
  BY <1>1, <1>2, EmptySeq
<1> HIDE DEF n
<1>3. PICK g \in [DOMAIN tt -> Seq(X)] : Flattens(g, tt) /\ FlattenSeq(tt) = g[n + 1]
  BY <1>2, <1>a, FlattenSteps
<1>4. \A i \in 1..(n + 1) : g[i] \in Seq(X) /\ g[i] = IF i = 1 THEN tt[1] ELSE g[i - 1] \o tt[i]
  BY <1>2, <1>3 DEF Flattens
<1>5. CASE ss = <<>>
  <2>1. n = 0 /\ 1 \in 1..(n + 1)
    BY <1>5 DEF n
  <2>2. g[n + 1] = t
    BY <1>2, <1>4, <2>1
  <2>3. FlattenSeq(ss) = <<>>
    BY <1>5, FlattenEmpty, Zenon
  <2>4. <<>> \o t = t
    BY ConcatEmptySeq
  <2>5. QED
    BY <1>3, <2>2, <2>3, <2>4
<1>6. CASE ss # <<>>
  <2>1. n \in Nat \ {0}
    BY <1>6, EmptySeq DEF n
  <2>2. PICK f \in [DOMAIN ss -> Seq(X)] : Flattens(f, ss) /\ FlattenSeq(ss) = f[n]
    BY <1>6, FlattenSteps DEF n
  <2>3. \A i \in 1..n : f[i] \in Seq(X) /\ f[i] = IF i = 1 THEN ss[1] ELSE f[i - 1] \o ss[i]
    BY <1>1, <2>2 DEF Flattens
  <2> DEFINE Follow == {i \in Nat : i + 1 \in 1..n => g[i + 1] = f[i + 1]}
  <2>4. 0 \in Follow
    <3>1. 0 + 1 = 1 /\ 1 \in 1..(n + 1) /\ 1 \in 1..n
      BY <2>1
    <3>2. QED
      BY <1>2, <1>4, <2>3, <3>1
  <2>5. ASSUME NEW i \in Nat, i \in Follow
        PROVE  i + 1 \in Follow
    <3>1. CASE (i + 1) + 1 \in 1..n
      <4>1. /\ i + 1 \in 1..n /\ (i + 1) + 1 # 1 /\ ((i + 1) + 1) - 1 = i + 1
            /\ (i + 1) + 1 \in 1..(n + 1)
        BY <1>1, <3>1
      <4>2. PICK j \in 1..n : j = (i + 1) + 1 /\ j # 1 /\ j - 1 = i + 1 /\ j \in 1..(n + 1)
        BY <3>1, <4>1
      <4>3. g[j] = g[j - 1] \o tt[j]
        BY <1>4, <4>2
      <4>4. f[j] = f[j - 1] \o ss[j]
        BY <2>3, <4>2
      <4>5. g[j - 1] = f[j - 1] /\ tt[j] = ss[j]
        BY <1>2, <2>5, <4>1, <4>2
      <4>6. g[j] = f[j]
        BY <4>3, <4>4, <4>5, Zenon
      <4>7. QED
        BY <4>2, <4>6
    <3>2. QED
      BY <3>1
  <2>6. Nat \subseteq Follow
    <3> HIDE DEF Follow
    <3>1. QED
      BY <2>4, <2>5, Naturally
  <2>7. n - 1 \in Nat /\ (n - 1) + 1 = n /\ n \in 1..n /\ n + 1 \in 1..(n + 1) /\ n + 1 # 1 /\ (n + 1) - 1 = n
    BY <2>1
  <2>8. g[n] = f[n]
    BY <2>6, <2>7
  <2>9. g[n + 1] = g[n] \o t
    BY <1>2, <1>4, <2>7
  <2>10. QED
    BY <1>3, <2>2, <2>8, <2>9, Zenon
<1>7. QED
  BY <1>5, <1>6

\* A path with one step more has its points at the end.
LEMMA AheadLast ==
  ASSUME Loaded, NEW s \in Seq(Steps), NEW step \in Steps
  PROVE  Ahead(Append(s, step)) = Ahead(s) \o Points(step)
<1>1. PICK p \in Seq(DOMAIN Place) : p = Points(step)
  BY PointsType
<1>2. PICK n \in Nat : n = Len(s)
  BY LenProperties
<1>3. PICK a \in Seq(Steps) :
        /\ a = Append(s, step) /\ Len(a) = n + 1
        /\ \A i \in 1..n : a[i] = s[i]
        /\ a[n + 1] = step
  <2>1. /\ Append(s, step) \in Seq(Steps) /\ Len(Append(s, step)) = Len(s) + 1
        /\ \A i \in 1..Len(s) : Append(s, step)[i] = s[i]
        /\ Append(s, step)[Len(s) + 1] = step
    BY AppendProperties
  <2>2. QED
    BY <1>2, <2>1
<1>4. PICK ss \in Seq(Seq(DOMAIN Place)) :
        ss = Pieces(s) /\ Len(ss) = n /\ \A i \in 1..n : ss[i] = Points(s[i])
  BY <1>2, PiecesType
<1>5. PICK tt \in Seq(Seq(DOMAIN Place)) :
        tt = Pieces(a) /\ Len(tt) = n + 1 /\ \A i \in 1..(n + 1) : tt[i] = Points(a[i])
  BY <1>3, PiecesType
<1>6. tt = Append(ss, p)
  <2> DEFINE S == Seq(DOMAIN Place)
  <2>1. /\ Append(ss, p) \in Seq(S) /\ Len(Append(ss, p)) = Len(ss) + 1
        /\ \A i \in 1..Len(ss) : Append(ss, p)[i] = ss[i]
        /\ Append(ss, p)[Len(ss) + 1] = p
    BY AppendProperties
  <2>2. PICK b \in Seq(S) : b = Append(ss, p) /\ Len(b) = n + 1
                            /\ (\A i \in 1..n : b[i] = ss[i]) /\ b[n + 1] = p
    BY <1>4, <2>1
  <2>3. ASSUME NEW i \in 1..(n + 1)
        PROVE  tt[i] = b[i]
    <3>1. CASE i \in 1..n
      <4>1. tt[i] = Points(a[i]) /\ a[i] = s[i] /\ ss[i] = Points(s[i]) /\ b[i] = ss[i]
        BY <1>3, <1>4, <1>5, <2>2, <3>1
      <4>2. QED
        BY <4>1
    <3>2. CASE i = n + 1
      <4>1. tt[i] = Points(a[i]) /\ a[i] = step /\ b[i] = p
        BY <1>3, <1>5, <2>2, <3>2
      <4>2. QED
        BY <1>1, <4>1
    <3>3. QED
      BY <3>1, <3>2
  <2> HIDE DEF S
  <2>4. tt \in Seq(S)
    BY DEF S
  <2>5. tt = b
    BY <1>5, <2>2, <2>3, <2>4, SeqEqual
  <2>6. QED
    BY <2>2, <2>5
<1>7. FlattenSeq(tt) = FlattenSeq(ss) \o p
  BY <1>6, FlattenLast
<1>8. Ahead(a) = FlattenSeq(tt) /\ Ahead(s) = FlattenSeq(ss)
  BY <1>4, <1>5 DEF Ahead, Pieces
<1>9. QED
  BY <1>1, <1>3, <1>7, <1>8

\* The sequence w is t between x and y.
Between(w, x, t, y, n) ==
  /\ Len(w) = n + 2
  /\ \A i \in 1..(n + 2) : w[i] = IF i = 1 THEN x ELSE IF i = n + 2 THEN y ELSE t[i - 1]

\* A road's points and its ends.
Whole(a, s, b) == <<a>> \o s \o <<b>>

\* A road's ends exchange their places when its points are turned around.
LEMMA TurnedAround ==
  ASSUME NEW X, NEW a \in X, NEW b \in X, NEW s \in Seq(X)
  PROVE  /\ Whole(a, s, b) \in Seq(X) /\ Whole(a, s, b) # <<>>
         /\ Reverse(Whole(a, s, b)) = Whole(b, Reverse(s), a)
<1>1. PICK n \in Nat : n = Len(s)
  BY LenProperties
<1>2. PICK r \in Seq(X) : r = Reverse(s) /\ Len(r) = n /\ \A i \in 1..n : r[i] = s[n - i + 1]
  BY <1>1, ReverseType
<1>3. ASSUME NEW x \in X, NEW y \in X, NEW t \in Seq(X), Len(t) = n
      PROVE  <<x>> \o t \o <<y>> \in Seq(X) /\ Between(<<x>> \o t \o <<y>>, x, t, y, n)
  <2>1. PICK one, two \in Seq(X) : /\ one = <<x>> /\ Len(one) = 1 /\ one[1] = x
                                   /\ two = <<y>> /\ Len(two) = 1 /\ two[1] = y
    <3>1. <<x>> \in Seq(X) /\ Len(<<x>>) = 1 /\ <<x>>[1] = x
      OBVIOUS
    <3>2. <<y>> \in Seq(X) /\ Len(<<y>>) = 1 /\ <<y>>[1] = y
      OBVIOUS
    <3>3. QED
      BY <3>1, <3>2
  <2>2. PICK u \in Seq(X) : u = one \o t
    BY ConcatProperties
  <2>3. Len(u) = n + 1 /\ \A i \in 1..(n + 1) : u[i] = IF i = 1 THEN x ELSE t[i - 1]
    <3>1. /\ Len(u) = Len(one) + Len(t)
          /\ \A i \in 1..(Len(one) + Len(t)) :
               u[i] = IF i <= Len(one) THEN one[i] ELSE t[i - Len(one)]
      BY <2>2, ConcatProperties
    <3>2. Len(u) = 1 + n /\ \A i \in 1..(1 + n) : u[i] = IF i <= 1 THEN one[i] ELSE t[i - 1]
      BY <1>3, <2>1, <3>1
    <3>3. 1 + n = n + 1 /\ \A i \in 1..(n + 1) : i <= 1 <=> i = 1
      OBVIOUS
    <3>4. QED
      BY <2>1, <3>2, <3>3
  <2>4. PICK v \in Seq(X) : v = u \o two
    BY ConcatProperties
  <2>5. Len(v) = n + 2 /\ \A i \in 1..(n + 2) : v[i] = IF i <= n + 1 THEN u[i] ELSE two[i - (n + 1)]
    <3>1. /\ Len(v) = Len(u) + Len(two)
          /\ \A i \in 1..(Len(u) + Len(two)) :
               v[i] = IF i <= Len(u) THEN u[i] ELSE two[i - Len(u)]
      BY <2>4, ConcatProperties
    <3>2. Len(u) + Len(two) = n + 2
      BY <2>1, <2>3
    <3>3. QED
      BY <2>3, <3>1, <3>2
  <2>6. ASSUME NEW i \in 1..(n + 2)
        PROVE  v[i] = IF i = 1 THEN x ELSE IF i = n + 2 THEN y ELSE t[i - 1]
    <3>1. CASE i = n + 2
      <4>1. ~(i <= n + 1) /\ i - (n + 1) = 1 /\ i # 1
        BY <3>1
      <4>2. QED
        BY <2>1, <2>5, <3>1, <4>1
    <3>2. CASE i # n + 2
      <4>1. i <= n + 1 /\ i \in 1..(n + 1)
        BY <3>2
      <4>2. QED
        BY <2>3, <2>5, <3>2, <4>1
    <3>3. QED
      BY <3>1, <3>2
  <2>7. v = <<x>> \o t \o <<y>>
    BY <2>1, <2>2, <2>4
  <2>8. Between(v, x, t, y, n)
    BY <2>5, <2>6 DEF Between
  <2>9. QED
    BY <2>7, <2>8
<1>4. PICK v \in Seq(X) : v = <<a>> \o s \o <<b>> /\ Between(v, a, s, b, n)
  <2>1. <<a>> \o s \o <<b>> \in Seq(X) /\ Between(<<a>> \o s \o <<b>>, a, s, b, n)
    BY <1>1, <1>3
  <2>2. QED
    BY <2>1, Zenon
<1>5. PICK w \in Seq(X) : w = <<b>> \o r \o <<a>> /\ Between(w, b, r, a, n)
  <2>1. <<b>> \o r \o <<a>> \in Seq(X) /\ Between(<<b>> \o r \o <<a>>, b, r, a, n)
    BY <1>2, <1>3
  <2>2. QED
    BY <2>1, Zenon
<1>6. PICK z \in Seq(X) : z = Reverse(v) /\ Len(z) = n + 2 /\ \A i \in 1..(n + 2) : z[i] = v[(n + 2) - i + 1]
  <2>1. Len(v) = n + 2
    BY <1>4 DEF Between
  <2>2. /\ Reverse(v) \in Seq(X) /\ Len(Reverse(v)) = Len(v)
        /\ \A i \in 1..Len(v) : Reverse(v)[i] = v[Len(v) - i + 1]
    BY ReverseType
  <2>3. PICK z \in Seq(X) : z = Reverse(v)
    BY <2>2
  <2>4. Len(z) = n + 2 /\ \A i \in 1..(n + 2) : z[i] = v[(n + 2) - i + 1]
    BY <2>1, <2>2, <2>3
  <2>5. QED
    BY <2>3, <2>4
<1>7. ASSUME NEW i \in 1..(n + 2)
      PROVE  z[i] = w[i]
  <2>1. PICK j \in 1..(n + 2) : j = (n + 2) - i + 1
    <3>1. (n + 2) - i + 1 \in 1..(n + 2)
      OBVIOUS
    <3>2. QED
      BY <3>1
  <2>2. z[i] = v[j]
    BY <1>6, <2>1
  <2>3. CASE i = 1
    <3>1. j = n + 2 /\ j # 1
      BY <2>1, <2>3
    <3>2. QED
      BY <1>4, <1>5, <2>2, <2>3, <3>1 DEF Between
  <2>4. CASE i = n + 2
    <3>1. j = 1 /\ i # 1
      BY <2>1, <2>4
    <3>2. QED
      BY <1>4, <1>5, <2>2, <2>4, <3>1 DEF Between
  <2>5. CASE i # 1 /\ i # n + 2
    <3>1. j # 1 /\ j # n + 2 /\ i - 1 \in 1..n /\ n - (i - 1) + 1 = j - 1
      BY <2>1, <2>5
    <3>2. v[j] = s[j - 1] /\ w[i] = r[i - 1]
      BY <1>4, <1>5, <2>1, <2>5, <3>1 DEF Between
    <3>3. r[i - 1] = s[n - (i - 1) + 1]
      BY <1>2, <3>1
    <3>4. QED
      BY <2>2, <3>1, <3>2, <3>3
  <2>6. QED
    BY <2>3, <2>4, <2>5
<1>8. z = w
  <2>1. Len(z) = Len(w) /\ \A i \in 1..Len(z) : z[i] = w[i]
    BY <1>5, <1>6, <1>7 DEF Between
  <2>2. QED
    BY <2>1, SeqEqual
<1>9. v # <<>>
  <2>1. Len(v) # 0
    BY <1>4 DEF Between
  <2>2. QED
    BY <2>1, EmptySeq
<1>10. QED
  BY <1>2, <1>4, <1>5, <1>6, <1>8, <1>9 DEF Whole

\* A loaded road is as long as its points, from end to end.
LEMMA LinkMetres ==
  ASSUME NEW n, NEW i, NEW forward
  PROVE  Link(n, i, forward).metres =
           Along(<<n.positions[n.roads[i].a]>> \o n.roads[i].via \o <<n.positions[n.roads[i].b]>>)
BY DEF Link

\* What is driven along a road: its points, turned around where it is driven against
\* the way it is stored.
DrivenAs(l, i, w, on) ==
  /\ on = Whole(network.positions[network.roads[i].a], network.roads[i].via,
                network.positions[network.roads[i].b])
  /\ on # <<>> /\ l.metres = Along(on)
  /\ w = on \/ (w = Reverse(on) /\ ~network.roads[i].oneway)

LEMMA LinkPoints ==
  ASSUME Loaded, NEW l \in Links(network), NEW w,
         w = <<graph.positions[l.from]>> \o (Shape(l) \o <<graph.positions[l.to]>>)
  PROVE  \E i \in DOMAIN network.roads : \E on \in Seq(DOMAIN Place) : DrivenAs(l, i, w, on)
<1>1. PICK i \in DOMAIN network.roads :
        \/ l = Link(network, i, TRUE)
        \/ l = Link(network, i, FALSE) /\ ~network.roads[i].oneway
  BY DEF Links
<1>2. /\ Accepted(network) /\ graph.positions = network.positions
      /\ graph.via = [j \in DOMAIN network.roads |-> network.roads[j].via]
  BY DEF Loaded, Load
<1>a. Accepted(network)
  BY <1>2
<1>3. PICK a, b \in DOMAIN Place, via \in Seq(DOMAIN Place) :
        /\ a = network.positions[network.roads[i].a]
        /\ b = network.positions[network.roads[i].b]
        /\ via = network.roads[i].via
  BY <1>2, RoadsOfNetwork
<1> DEFINE on == Whole(a, via, b)
           back == Whole(b, Reverse(via), a)
<1>4. on \in Seq(DOMAIN Place) /\ on # <<>> /\ back = Reverse(on)
  BY TurnedAround
<1> HIDE DEF on, back
<1>b. on = Whole(network.positions[network.roads[i].a], network.roads[i].via,
                 network.positions[network.roads[i].b])
  BY <1>3, Zenon DEF on
<1>5. l.metres = Along(on)
  <2>1. CASE l = Link(network, i, TRUE)
    BY <1>3, <2>1, LinkMetres, Zenon DEF on, Whole
  <2>2. CASE l = Link(network, i, FALSE)
    BY <1>3, <2>2, LinkMetres, Zenon DEF on, Whole
  <2>3. QED
    BY <1>1, <2>1, <2>2
<1>6. ASSUME NEW x \in DOMAIN Place, NEW y \in DOMAIN Place, NEW s \in Seq(DOMAIN Place)
      PROVE  <<x>> \o (s \o <<y>>) = <<x>> \o s \o <<y>>
  <2>1. PICK p, q \in Seq(DOMAIN Place) : p = <<x>> /\ q = <<y>>
    <3>1. <<x>> \in Seq(DOMAIN Place) /\ <<y>> \in Seq(DOMAIN Place)
      OBVIOUS
    <3>2. QED
      BY <3>1
  <2>2. (p \o s) \o q = p \o (s \o q)
    BY ConcatAssociative
  <2>3. QED
    BY <2>1, <2>2
<1>7. CASE l = Link(network, i, TRUE)
  <2>1. /\ l.forward = TRUE /\ l.road = i
        /\ l.from = network.roads[i].a /\ l.to = network.roads[i].b
    <3>1. l.forward = TRUE
      BY <1>a, <1>7, LinkType, Zenon
    <3>2. l.road = i
      BY <1>a, <1>7, LinkType, Zenon
    <3>3. l.from = network.roads[i].a
      BY <1>a, <1>7, LinkType, Zenon
    <3>4. l.to = network.roads[i].b
      BY <1>a, <1>7, LinkType, Zenon
    <3>5. QED
      BY <3>1, <3>2, <3>3, <3>4
  <2>2. Shape(l) = via
    BY <1>2, <1>3, <2>1, ZenonT(30) DEF Shape
  <2>3. graph.positions[l.from] = a /\ graph.positions[l.to] = b
    BY <1>2, <1>3, <2>1
  <2>4. w = <<a>> \o (via \o <<b>>)
    BY <2>2, <2>3
  <2>5. w = on
    BY <1>6, <2>4 DEF on, Whole
  <2>6. DrivenAs(l, i, w, on)
    BY <1>4, <1>5, <1>b, <2>5, Zenon DEF DrivenAs
  <2>7. QED
    BY <1>4, <2>6, Zenon
<1>8. CASE l = Link(network, i, FALSE) /\ ~network.roads[i].oneway
  <2>1. /\ l.forward = FALSE /\ l.road = i
        /\ l.from = network.roads[i].b /\ l.to = network.roads[i].a
    <3>1. l.forward = FALSE
      BY <1>a, <1>8, LinkType, Zenon
    <3>2. l.road = i
      BY <1>a, <1>8, LinkType, Zenon
    <3>3. l.from = network.roads[i].b
      BY <1>a, <1>8, LinkType, Zenon
    <3>4. l.to = network.roads[i].a
      BY <1>a, <1>8, LinkType, Zenon
    <3>5. QED
      BY <3>1, <3>2, <3>3, <3>4
  <2>2. Shape(l) = Reverse(via)
    BY <1>2, <1>3, <2>1, ZenonT(30) DEF Shape
  <2>3. graph.positions[l.from] = b /\ graph.positions[l.to] = a
    BY <1>2, <1>3, <2>1
  <2>4. PICK s \in Seq(DOMAIN Place) : s = Reverse(via)
    BY ReverseType
  <2>5. w = <<b>> \o (s \o <<a>>)
    BY <2>2, <2>3, <2>4
  <2>6. w = back
    BY <1>6, <2>4, <2>5 DEF back, Whole
  <2>7. w = Reverse(on)
    BY <1>4, <2>6
  <2>8. DrivenAs(l, i, w, on)
    BY <1>4, <1>5, <1>b, <1>8, <2>7, Zenon DEF DrivenAs
  <2>9. QED
    BY <1>4, <2>8, Zenon
<1>9. QED
  BY <1>1, <1>7, <1>8

\* A road is as long as what is driven along it, in either direction.
LEMMA RoadDriven ==
  ASSUME Loaded, NEW l \in Links(network), NEW w,
         w = <<graph.positions[l.from]>> \o (Shape(l) \o <<graph.positions[l.to]>>)
  PROVE  w \in Seq(DOMAIN Place) /\ Along(w) = l.metres
<1>1. PICK i \in DOMAIN network.roads : \E on \in Seq(DOMAIN Place) : DrivenAs(l, i, w, on)
  BY LinkPoints, Zenon
<1>2. PICK on \in Seq(DOMAIN Place) : on # <<>> /\ l.metres = Along(on) /\ (w = on \/ w = Reverse(on))
  BY <1>1, Zenon DEF DrivenAs
<1>3. Reverse(on) \in Seq(DOMAIN Place) /\ Along(Reverse(on)) = Along(on)
  BY <1>2, ReverseType, AlongReverse
<1>4. QED
  BY <1>2, <1>3

\* The last of a sequence that was put together.
LEMMA LastOfAll ==
  ASSUME NEW X, NEW s \in Seq(X), NEW t \in Seq(X), NEW y \in X, NEW d, d = s \o (t \o <<y>>)
  PROVE  d[Len(d)] = y
<1>1. PICK q \in Seq(X) : q = <<y>> /\ Len(q) = 1 /\ q[1] = y
  <2>1. <<y>> \in Seq(X) /\ Len(<<y>>) = 1 /\ <<y>>[1] = y
    OBVIOUS
  <2>2. QED
    BY <2>1
<1>2. PICK u \in Seq(X) : u = s \o t
  BY ConcatProperties
<1>3. d = u \o q
  <2>1. (s \o t) \o q = s \o (t \o q)
    BY ConcatAssociative
  <2>2. QED
    BY <1>1, <1>2, <2>1
<1>4. PICK k \in Nat : k = Len(u)
  BY LenProperties
<1>5. /\ Len(u \o q) = Len(u) + Len(q)
      /\ \A i \in 1..(Len(u) + Len(q)) :
           (u \o q)[i] = IF i <= Len(u) THEN u[i] ELSE q[i - Len(u)]
  BY ConcatProperties
<1>6. Len(u) + Len(q) = k + 1 /\ k + 1 \in 1..(k + 1) /\ ~(k + 1 <= k) /\ (k + 1) - k = 1
  BY <1>1, <1>4
<1>7. QED
  BY <1>1, <1>3, <1>4, <1>5, <1>6

\* The way to an intersection ends there and is as long as the distance to it.
Measured(d, n) ==
  /\ d \in Seq(DOMAIN Place) /\ d # <<>>
  /\ d[Len(d)] = graph.positions[n]
  /\ Along(d) = distance[n]

\* The way to the origin is of length zero,
LEMMA NoWay ==
  ASSUME SearchInv, NEW d, d = Driven(graph.positions[call.from], <<>>), call.from \in Found
  PROVE  Measured(d, call.from)
<1>1. PICK p \in DOMAIN Place : p = graph.positions[call.from]
  BY GraphFacts, RoadsOfNetwork DEF SearchInv, Loaded
<1>2. PICK one \in Seq(DOMAIN Place) : one = <<p>> /\ Len(one) = 1 /\ one[1] = p /\ one # <<>>
  <2>1. <<p>> \in Seq(DOMAIN Place) /\ Len(<<p>>) = 1 /\ <<p>>[1] = p /\ <<p>> # <<>>
    OBVIOUS
  <2>2. QED
    BY <2>1
<1>3. d = one
  <2>1. one \o <<>> = one
    BY ConcatEmptySeq
  <2>2. d = one \o Ahead(<<>>)
    BY <1>1, <1>2 DEF Driven
  <2>3. QED
    BY <2>1, <2>2, NothingAhead
<1>4. Along(one) = 0
  <2>1. PICK f \in [DOMAIN one -> Nat] : Measures(f, one) /\ Along(one) = f[Len(one)]
    BY <1>2, AlongSteps
  <2>2. 1 \in DOMAIN one
    BY <1>2, LenProperties
  <2>3. f[1] = 0
    BY <2>1, <2>2 DEF Measures
  <2>4. QED
    BY <1>2, <2>1, <2>3
<1>5. distance[call.from] = 0
  BY DEF SearchInv, P!IInv, P!OriginIsNear, Found, Idle, Unreached
<1>6. QED
  BY <1>1, <1>2, <1>3, <1>4, <1>5 DEF Measured

\* and the way to anything else that was found is the way to the intersection it was
\* reached from and one road.
LEMMA OneRoadMore ==
  ASSUME SearchInv, Ranked, NEW n \in Found \ {call.from}, NEW f, f = arrival[n].from,
         Measured(Driven(graph.positions[call.from], RouteTo[f]), f),
         NEW d, d = Driven(graph.positions[call.from], RouteTo[n])
  PROVE  Measured(d, n)
<1>1. PICK l \in Links(network) : l = arrival[n]
  BY ArrivalFacts
<1>2. /\ l.to = n /\ l.from = f /\ f \in Found /\ distance[f] \in Nat
      /\ distance[n] = distance[f] + l.metres
  BY <1>1, ArrivalFacts
<1>3. Loaded /\ Found \subseteq Nodes /\ n \in Nodes
  BY DEF SearchInv, Found
<1>4. PICK step \in Steps : step = [node |-> n, via |-> Shape(l)]
  <2>1. Shape(l) \in Seq(DOMAIN Place)
    BY <1>3, ShapeType
  <2>2. QED
    BY <1>3, <2>1 DEF Steps
<1>5. PICK r \in Seq(Steps) : r = RouteTo[f]
  BY <1>2, RouteUnfolds
<1>6. RouteTo[n] = Append(r, step)
  BY <1>1, <1>2, <1>4, <1>5, RouteUnfolds
<1>7. Ahead(RouteTo[n]) = Ahead(r) \o Points(step)
  BY <1>3, <1>6, AheadLast
<1>8. PICK p, a, b \in Seq(DOMAIN Place) :
        p = <<graph.positions[call.from]>> /\ a = Ahead(r) /\ b = Points(step)
  <2>1. graph.positions[call.from] \in DOMAIN Place
    BY GraphFacts, RoadsOfNetwork DEF SearchInv, Loaded
  <2>2. <<graph.positions[call.from]>> \in Seq(DOMAIN Place)
    BY <2>1
  <2>3. Ahead(r) \in Seq(DOMAIN Place) /\ Points(step) \in Seq(DOMAIN Place)
    BY <1>3, AheadType, PointsType
  <2>4. QED
    BY <2>2, <2>3
<1>9. PICK s \in Seq(DOMAIN Place) :
        s = p \o a /\ s # <<>> /\ s[Len(s)] = graph.positions[f] /\ Along(s) = distance[f]
  <2>1. Driven(graph.positions[call.from], RouteTo[f]) = p \o a
    BY <1>5, <1>8 DEF Driven
  <2>2. Measured(p \o a, f)
    BY <2>1
  <2>3. QED
    BY <2>2 DEF Measured
<1>10. d = s \o b
  <2>1. d = p \o (a \o b)
    BY <1>7, <1>8 DEF Driven
  <2>2. p \in Seq(DOMAIN Place) /\ a \in Seq(DOMAIN Place) /\ b \in Seq(DOMAIN Place)
    OBVIOUS
  <2>3. (p \o a) \o b = p \o (a \o b)
    BY <2>2, ConcatAssociative, SMTT(30)
  <2>4. QED
    BY <1>9, <2>1, <2>3
<1>11. b = Shape(l) \o <<graph.positions[n]>>
  BY <1>4, <1>8 DEF Points
<1>12. PICK w \in Seq(DOMAIN Place) : w = <<s[Len(s)]>> \o b /\ Along(w) = l.metres
  <2>1. <<s[Len(s)]>> \o b = <<graph.positions[l.from]>> \o (Shape(l) \o <<graph.positions[l.to]>>)
    BY <1>2, <1>9, <1>11
  <2>2. QED
    BY <1>3, <2>1, RoadDriven
<1>13. /\ s \o b \in Seq(DOMAIN Place) /\ s \o b # <<>>
       /\ Along(s \o b) = Along(s) + Along(w)
  <2>1. s # <<>> /\ w = <<s[Len(s)]>> \o b
    BY <1>9, <1>12
  <2>2. QED
    BY <2>1, AlongBoth, Zenon
<1>14. d[Len(d)] = graph.positions[n]
  <2>1. PICK t \in Seq(DOMAIN Place), y \in DOMAIN Place : t = Shape(l) /\ y = graph.positions[n]
    BY <1>3, ShapeType, GraphFacts, RoadsOfNetwork DEF Loaded
  <2>2. d = s \o (t \o <<y>>)
    BY <1>10, <1>11, <2>1
  <2>3. QED
    BY <2>1, <2>2, LastOfAll
<1>15. QED
  BY <1>2, <1>9, <1>10, <1>12, <1>13, <1>14 DEF Measured

\* By induction on the way back: each route ends where it should, and its points add up
\* to the distance found.
LEMMA RouteMeasured ==
  ASSUME SearchInv, Ranked, NEW n \in Found
  PROVE  Measured(Driven(graph.positions[call.from], RouteTo[n]), n)
<1>1. PICK m \in [Found -> 0..Len(network.positions)] : Leads(m)
  BY WayBack
<1>2. Len(network.positions) \in Nat /\ \A x \in Found : m[x] \in Nat
  BY <1>1, RoadsOfNetwork DEF SearchInv, Loaded
<1> DEFINE way(x) == Driven(graph.positions[call.from], RouteTo[x])
           Far1(k) == \A x \in Found : m[x] <= k => Measured(way(x), x)
           Good == {k \in Nat : Far1(k)}
<1>3. ASSUME NEW x \in Found, x = call.from
      PROVE  Measured(way(x), x)
  <2>1. RouteTo[x] = <<>>
    BY <1>3, RouteUnfolds
  <2>2. way(x) = Driven(graph.positions[call.from], <<>>)
    BY <2>1
  <2>3. QED
    BY <1>3, <2>2, NoWay
<1>4. 0 \in Good
  <2>1. ASSUME NEW x \in Found, m[x] <= 0
        PROVE  x = call.from
    BY <1>1, <1>2, <2>1 DEF Leads
  <2> HIDE DEF way
  <2>2. QED
    BY <1>3, <2>1
<1>5. ASSUME NEW k \in Nat, k \in Good
      PROVE  k + 1 \in Good
  <2>1. ASSUME NEW x \in Found, m[x] <= k + 1
        PROVE  Measured(way(x), x)
    <3>1. CASE x = call.from
      BY <1>3, <3>1
    <3>2. CASE x # call.from
      <4>1. PICK f \in Found : f = arrival[x].from /\ m[f] < m[x]
        BY <1>1, <3>2, ArrivalFacts DEF Leads
      <4>2. m[f] <= k
        BY <1>2, <2>1, <4>1
      <4>3. Measured(way(f), f)
        BY <1>5, <4>2
      <4>4. QED
        BY <3>2, <4>1, <4>3, OneRoadMore
    <3>3. QED
      BY <3>1, <3>2
  <2> HIDE DEF way
  <2>2. QED
    BY <2>1
<1>6. Nat \subseteq Good
  <2> HIDE DEF Good
  <2>1. QED
    BY <1>4, <1>5, Naturally
<1>7. m[n] <= m[n] /\ m[n] \in Good
  BY <1>2, <1>6
<1> HIDE DEF way
<1>8. Measured(way(n), n)
  BY <1>7
<1>9. QED
  BY <1>8 DEF way

-----------------------------------------------------------------------------
(* How far it is to everywhere.                                            *)

\* What may be known of how far intersections are.
FarMaps == UNION {[S -> Nat] : S \in SUBSET Nodes}

\* How far it may be to an intersection, with one road more.
By(far, n) ==
  {far[l.from] + l.metres : l \in {x \in Links(network) : x.to = n /\ x.from \in DOMAIN far}}
    \cup {far[x] : x \in {n} \cap DOMAIN far}

\* Its types.
LEMMA FarMapFacts ==
  ASSUME NEW far \in FarMaps
  PROVE  DOMAIN far \subseteq Nodes /\ \A n \in DOMAIN far : far[n] \in Nat
BY DEF FarMaps

\* What it may be by one road more, or none.
LEMMA ByHolds ==
  ASSUME Loaded, NEW far \in FarMaps, NEW n
  PROVE  /\ By(far, n) \in SUBSET Nat
         /\ \A l \in Links(network) :
              l.to = n /\ l.from \in DOMAIN far => far[l.from] + l.metres \in By(far, n)
         /\ n \in DOMAIN far => far[n] \in By(far, n)
         /\ \A y \in By(far, n) :
              \/ n \in DOMAIN far /\ y = far[n]
              \/ \E l \in Links(network) :
                   l.to = n /\ l.from \in DOMAIN far /\ y = far[l.from] + l.metres
<1>1. \A l \in Links(network) : l.metres \in Nat
  BY LinksType DEF Loaded, Ways
<1>2. \A x \in DOMAIN far : far[x] \in Nat
  BY FarMapFacts
<1>3. \A l \in Links(network) : l.from \in DOMAIN far => far[l.from] + l.metres \in Nat
  BY <1>1, <1>2
<1>4. QED
  BY <1>2, <1>3 DEF By

\* The least of it.
LEMMA ExtendedHolds ==
  ASSUME Loaded, NEW far \in FarMaps
  PROVE  /\ Extended(far) \in FarMaps
         /\ DOMAIN Extended(far) = {n \in Nodes : By(far, n) # {}}
         /\ \A n \in Nodes : By(far, n) # {} =>
              Extended(far)[n] \in By(far, n) /\ \A y \in By(far, n) : Extended(far)[n] <= y
<1>1. DOMAIN network.positions = Nodes
  BY GraphFacts
<1> DEFINE S == {n \in Nodes : By(far, n) # {}}
<1>2. Extended(far) = [n \in S |-> Min(By(far, n))]
  BY <1>1, Zenon DEF Extended, By
<1>3. ASSUME NEW n \in S
      PROVE  Min(By(far, n)) \in By(far, n) /\ \A y \in By(far, n) : Min(By(far, n)) <= y
  <2>1. PICK T \in SUBSET Nat : T = By(far, n) /\ T # {}
    BY ByHolds
  <2>2. \E x \in T : \A y \in T : x <= y
    BY <2>1, LeastOf
  <2>3. Min(T) \in T /\ \A y \in T : Min(T) <= y
    BY <2>2 DEF Min
  <2>4. QED
    BY <2>1, <2>3
<1>4. \A n \in S : Min(By(far, n)) \in Nat
  BY <1>3, ByHolds
<1>5. [n \in S |-> Min(By(far, n))] \in [S -> Nat]
  BY <1>4
<1>6. Extended(far) \in FarMaps
  <2>1. S \in SUBSET Nodes
    OBVIOUS
  <2> HIDE DEF S
  <2>2. QED
    BY <1>2, <1>5, <2>1 DEF FarMaps
<1>7. QED
  BY <1>2, <1>3, <1>6

\* How far it is by at most so many roads.
Distances(f, from) ==
  /\ f \in [0..Len(network.positions) -> FarMaps]
  /\ f[0] = [n \in {from} |-> 0]
  /\ \A k \in 1..Len(network.positions) : f[k] = Extended(f[k - 1])

\* Far extends what is known as often as there are intersections.
LEMMA FarSteps ==
  ASSUME Loaded, NEW from \in Nodes
  PROVE  \E f : Distances(f, from) /\ Far(from) = f[Len(network.positions)]
<1>1. PICK N \in Nat : N = Len(network.positions)
  BY RoadsOfNetwork DEF Loaded
<1> DEFINE D == 0..N
           start == [n \in {from} |-> 0]
           stop == {0}
           next == [k \in D |-> IF k = 0 THEN 0 ELSE k - 1]
           base == [k \in D |-> start]
           step == [x \in D \X FarMaps |-> Extended(x[2])]
           m == [k \in D |-> k]
           Meets(f) == f = [k \in D |-> IF k = 0 THEN start ELSE Extended(f[k - 1])]
<1>2. next \in [D -> D] /\ m \in [D -> Nat] /\ stop \in SUBSET D
  OBVIOUS
<1>3. start \in FarMaps
  <2>1. start \in [{from} -> Nat] /\ {from} \in SUBSET Nodes
    OBVIOUS
  <2> HIDE DEF start
  <2>2. QED
    BY <2>1 DEF FarMaps
<1> HIDE DEF start
<1>4. base \in [D -> FarMaps]
  BY <1>3
<1>5. step \in [D \X FarMaps -> FarMaps]
  BY ExtendedHolds
<1>6. \A k \in D \ stop : m[next[k]] < m[k]
  OBVIOUS
<1>7. PICK f \in [D -> FarMaps] : \A k \in D : Unfolds(f, k, stop, next, base, step)
  <2> HIDE DEF D, stop, next, base, step, m
  <2>1. QED
    BY <1>2, <1>4, <1>5, <1>6, Recursion
<1>8. ASSUME NEW k \in D
      PROVE  f[k] = IF k = 0 THEN start ELSE Extended(f[k - 1])
  <2>1. CASE k = 0
    BY <1>7, <2>1 DEF Unfolds
  <2>2. CASE k # 0
    <3>1. k - 1 \in D /\ next[k] = k - 1 /\ k \notin stop
      BY <2>2
    <3>2. f[k] = step[<<k, f[k - 1]>>] /\ f[k - 1] \in FarMaps
      BY <1>7, <3>1 DEF Unfolds
    <3>3. QED
      BY <2>2, <3>2
  <2>3. QED
    BY <2>1, <2>2
<1>9. Meets(f)
  BY <1>8
<1> DEFINE far == CHOOSE g : Meets(g)
<1>10. Far(from) = far[N]
  BY <1>1 DEF Far, start
<1>11. Meets(far)
  <2> HIDE DEF Meets
  <2>1. QED
    BY <1>9
<1>12. ASSUME NEW k \in D
       PROVE  far[k] = IF k = 0 THEN start ELSE Extended(far[k - 1])
  <2> HIDE DEF far
  <2>1. QED
    BY <1>11
<1>13. far[N] = f[N]
  <2> DEFINE Same == {k \in Nat : k \in D => far[k] = f[k]}
  <2> HIDE DEF far
  <2>1. 0 \in Same
    BY <1>8, <1>12
  <2>2. ASSUME NEW k \in Nat, k \in Same
        PROVE  k + 1 \in Same
    <3>1. CASE k + 1 \in D
      <4>1. k + 1 # 0 /\ (k + 1) - 1 = k /\ k \in D
        BY <3>1
      <4>2. QED
        BY <1>8, <1>12, <2>2, <3>1, <4>1
    <3>2. QED
      BY <3>1
  <2>3. Nat \subseteq Same
    <3> HIDE DEF Same
    <3>1. QED
      BY <2>1, <2>2, Naturally
  <2>4. QED
    BY <2>3
<1>14. Distances(f, from)
  <2>1. f[0] = start
    BY <1>8
  <2>2. \A k \in 1..N : f[k] = Extended(f[k - 1])
    BY <1>8
  <2>3. QED
    BY <1>1, <2>1, <2>2 DEF Distances, start
<1>15. QED
  BY <1>1, <1>10, <1>13, <1>14

\* However far it is said to be, there is a way of that length.
LEMMA FarIsDriven ==
  ASSUME SearchInv, NEW f, Distances(f, call.from), NEW n \in DOMAIN f[Len(network.positions)]
  PROVE  n \in Nodes /\ f[Len(network.positions)][n] \in Nat
         /\ <<n, f[Len(network.positions)][n]>> \in P!Walks
<1>1. PICK N \in Nat : N = Len(network.positions)
  BY RoadsOfNetwork DEF SearchInv, Loaded
<1>2. /\ f \in [0..N -> FarMaps] /\ f[0] = [x \in {call.from} |-> 0]
      /\ \A k \in 1..N : f[k] = Extended(f[k - 1])
  BY <1>1 DEF Distances
<1>3. Map(graph).nodes = Nodes /\ Map(graph).links = Links(network) /\ P!TypeOK /\ call.from \in Nodes
  BY MapFacts DEF SearchInv, P!IInv
<1> DEFINE Good == {k \in Nat : k \in 0..N => \A x \in DOMAIN f[k] : <<x, f[k][x]>> \in P!Walks}
<1>4. 0 \in Good
  BY <1>2, <1>3, P!WalkBegins
<1>5. ASSUME NEW k \in Nat, k \in Good
      PROVE  k + 1 \in Good
  <2>1. ASSUME k + 1 \in 0..N, NEW x \in DOMAIN f[k + 1]
        PROVE  <<x, f[k + 1][x]>> \in P!Walks
    <3>1. k \in 0..N /\ k + 1 \in 1..N /\ (k + 1) - 1 = k
      BY <2>1
    <3>2. PICK far \in FarMaps : far = f[k] /\ f[k + 1] = Extended(far)
      BY <1>2, <3>1
    <3>3. x \in Nodes /\ Extended(far)[x] \in By(far, x)
      BY <2>1, <3>2, ExtendedHolds DEF SearchInv
    <3>4. \A z \in DOMAIN far : z \in Nodes /\ far[z] \in Nat /\ <<z, far[z]>> \in P!Walks
      BY <1>5, <3>1, <3>2, FarMapFacts
    <3>5. PICK y : y = Extended(far)[x]
      OBVIOUS
    <3>6. \/ x \in DOMAIN far /\ y = far[x]
          \/ \E l \in Links(network) :
               l.to = x /\ l.from \in DOMAIN far /\ y = far[l.from] + l.metres
      BY <3>3, <3>5, ByHolds DEF SearchInv
    <3>7. CASE x \in DOMAIN far /\ y = far[x]
      BY <3>2, <3>4, <3>5, <3>7
    <3>8. ASSUME NEW l \in Links(network), l.to = x, l.from \in DOMAIN far, y = far[l.from] + l.metres
          PROVE  <<x, y>> \in P!Walks
      <4>1. <<l.to, far[l.from] + l.metres>> \in P!Walks
        BY <1>3, <3>4, <3>8, P!WalkExtends
      <4>2. QED
        BY <3>8, <4>1
    <3>9. QED
      BY <3>2, <3>5, <3>6, <3>7, <3>8
  <2>2. QED
    BY <2>1
<1>6. Nat \subseteq Good
  <2> HIDE DEF Good
  <2>1. QED
    BY <1>4, <1>5, Naturally
<1>7. N \in Good /\ N \in 0..N
  BY <1>6
<1>8. f[N] \in FarMaps
  BY <1>2, <1>7
<1>9. QED
  BY <1>1, <1>7, <1>8, FarMapFacts

\* What has been found is no further than that.
LEMMA FoundIsFar ==
  ASSUME SearchInv, Ranked, NEW f, Distances(f, call.from), NEW n \in Found
  PROVE  /\ n \in DOMAIN f[Len(network.positions)]
         /\ f[Len(network.positions)][n] <= distance[n]
<1>1. PICK N \in Nat : N = Len(network.positions)
  BY RoadsOfNetwork DEF SearchInv, Loaded
<1>2. /\ f \in [0..N -> FarMaps] /\ f[0] = [x \in {call.from} |-> 0]
      /\ \A k \in 1..N : f[k] = Extended(f[k - 1])
  BY <1>1 DEF Distances
<1>3. PICK m \in [Found -> 0..N] : Leads(m)
  BY <1>1, WayBack
<1>4. /\ \A x \in Found : m[x] \in Nat /\ m[x] <= N /\ (m[x] = 0 <=> x = call.from)
      /\ \A x \in Found \ {call.from} : m[arrival[x].from] < m[x]
  BY <1>3 DEF Leads
<1>5. ASSUME NEW x \in Found
      PROVE  distance[x] \in Nat /\ x \in Nodes
  BY MapFacts DEF SearchInv, P!IInv, P!TypeOK, P!Bounds, P!Infinite, Infinite, Found
<1>6. call.from \in Found => distance[call.from] = 0
  BY DEF SearchInv, P!IInv, P!OriginIsNear, Found, Idle, Unreached
<1> DEFINE Near(k, x) == x \in DOMAIN f[k] /\ f[k][x] <= distance[x]
           Good == {k \in Nat : k \in 0..N => \A x \in Found : m[x] <= k => Near(k, x)}
<1>7. 0 \in Good
  <2>1. ASSUME NEW x \in Found, m[x] <= 0
        PROVE  Near(0, x)
    <3>1. x = call.from
      BY <1>4, <2>1
    <3>2. QED
      BY <1>2, <1>6, <3>1
  <2>2. QED
    BY <2>1
<1>8. ASSUME NEW k \in Nat, k \in Good
      PROVE  k + 1 \in Good
  <2>1. ASSUME k + 1 \in 0..N, NEW x \in Found, m[x] <= k + 1
        PROVE  Near(k + 1, x)
    <3>1. k \in 0..N /\ k + 1 \in 1..N /\ (k + 1) - 1 = k
      BY <2>1
    <3>2. PICK far \in FarMaps : far = f[k] /\ f[k + 1] = Extended(far)
      BY <1>2, <3>1
    <3>3. PICK y \in Nat : y \in By(far, x) /\ y <= distance[x]
      <4>1. CASE m[x] <= k
        <5>1. x \in DOMAIN far /\ far[x] <= distance[x]
          BY <1>8, <3>1, <3>2, <4>1
        <5>2. far[x] \in By(far, x) /\ far[x] \in Nat
          BY <5>1, ByHolds, FarMapFacts DEF SearchInv
        <5>3. QED
          BY <5>1, <5>2
      <4>2. CASE ~(m[x] <= k)
        <5>1. x \in Found \ {call.from}
          BY <1>4, <4>2
        <5>2. PICK l \in Links(network) : l = arrival[x]
          BY <5>1, ArrivalFacts
        <5>3. /\ l.to = x /\ l.from \in Found /\ distance[l.from] \in Nat /\ l.metres \in Nat
              /\ distance[x] = distance[l.from] + l.metres
          BY <5>1, <5>2, ArrivalFacts, LinksType DEF SearchInv, Loaded, Ways
        <5>4. m[l.from] <= k
          <6>1. m[l.from] < m[x] /\ m[l.from] \in Nat /\ m[x] \in Nat
            BY <1>4, <5>1, <5>2, <5>3
          <6>2. QED
            BY <2>1, <6>1
        <5>5. l.from \in DOMAIN far /\ far[l.from] <= distance[l.from] /\ far[l.from] \in Nat
          BY <1>8, <3>1, <3>2, <5>3, <5>4, FarMapFacts
        <5>6. far[l.from] + l.metres \in By(far, x)
          BY <5>3, <5>5, ByHolds DEF SearchInv
        <5>7. far[l.from] + l.metres \in Nat /\ far[l.from] + l.metres <= distance[x]
          BY <5>3, <5>5
        <5>8. QED
          BY <5>6, <5>7
      <4>3. QED
        BY <4>1, <4>2
    <3>4. PICK z \in Nat : z = Extended(far)[x] /\ z <= y /\ x \in DOMAIN Extended(far)
      <4>1. x \in Nodes /\ By(far, x) # {} /\ By(far, x) \in SUBSET Nat
        BY <1>5, <3>3, ByHolds DEF SearchInv
      <4>2. QED
        BY <3>3, <4>1, ExtendedHolds DEF SearchInv
    <3>5. z <= distance[x]
      <4>1. distance[x] \in Nat
        BY <1>5
      <4>2. QED
        BY <3>3, <3>4, <4>1
    <3>6. QED
      BY <3>2, <3>4, <3>5
  <2>2. QED
    BY <2>1
<1>9. Nat \subseteq Good
  <2> HIDE DEF Good
  <2>1. QED
    BY <1>7, <1>8, Naturally
<1>10. N \in Good /\ N \in 0..N /\ m[n] <= N
  BY <1>4, <1>9
<1>11. QED
  BY <1>1, <1>10

\* When a search is done, what it found within the limit is as far as it says.
LEMMA FarIsFound ==
  ASSUME SearchInv, Ranked, phase = "done", NEW far, far = Far(call.from), NEW n \in Nodes
  PROVE  /\ n \in DOMAIN far => far[n] \in Nat
         /\ n \in Found => n \in DOMAIN far /\ distance[n] \in Nat /\ far[n] <= distance[n]
         /\ n \in DOMAIN far /\ (call.high = Infinite \/ far[n] <= call.high) =>
              n \in Found /\ distance[n] <= far[n]
<1>1. call.from \in Nodes /\ Loaded
  BY DEF SearchInv
<1>2. PICK f : Distances(f, call.from) /\ far = f[Len(network.positions)]
  BY <1>1, FarSteps
<1>3. n \in DOMAIN far => far[n] \in Nat /\ <<n, far[n]>> \in P!Walks
  BY <1>2, FarIsDriven
<1>4. n \in Found => n \in DOMAIN far /\ far[n] <= distance[n]
  BY <1>2, FoundIsFar
<1>5. n \in Found <=> P!Reached(n)
  BY MapFacts DEF SearchInv, P!IInv, P!TypeOK, P!Bounds, P!Infinite, Infinite, Found, P!Reached
<1>6. call.high \in Nat \cup {Infinite}
  BY DEF SearchInv, P!IInv, P!TypeOK, P!Bounds, P!Infinite, Infinite
<1>7. ASSUME n \in DOMAIN far, call.high = Infinite \/ far[n] <= call.high
      PROVE  n \in Found /\ distance[n] <= far[n]
  <2>1. ~P!Beyond(far[n])
    BY <1>3, <1>6, <1>7 DEF P!Beyond, P!Infinite, Infinite
  <2>2. PICK w \in P!Walks : w[1] = n /\ w[2] = far[n]
    BY <1>3, <1>7
  <2>3. P!Reached(n) /\ distance[n] <= far[n]
    BY <2>1, <2>2, P!NoShorterWalk DEF SearchInv
  <2>4. QED
    BY <1>5, <2>3
<1>8. QED
  BY <1>3, <1>4, <1>5, <1>7 DEF P!Reached

\* When a search ends, its distances are those of Far: none is longer, since what Far knows
\* are walks, and none is shorter, since Far has come along the way back.
LEMMA DoneIsShortest == SearchInv /\ Ranked => JourneysAreShortest
<1> SUFFICES ASSUME SearchInv, Ranked, phase = "done", NEW far, far = Far(call.from)
             PROVE  /\ Eligible = {n \in call.within \ {call.from} :
                                     n \in DOMAIN far /\ call.low <= far[n]
                                       /\ (call.high = Infinite \/ far[n] <= call.high)}
                    /\ \A n \in Eligible :
                         /\ Last(RouteTo[n]).node = n
                         /\ Along(Driven(graph.positions[call.from], RouteTo[n])) = far[n]
  BY DEF JourneysAreShortest
<1>1. /\ call.within \subseteq Nodes /\ call.low \in Nat /\ call.high \in Nat \cup {Infinite}
      /\ \A n \in Nodes : n \in Found <=> distance[n] # Infinite
  BY DEF SearchInv, P!IInv, P!TypeOK, P!Bounds, P!Infinite, Infinite, Found
<1>2. ASSUME NEW n \in Eligible
      PROVE  /\ n \in Found /\ n \in Nodes /\ n \in DOMAIN far /\ far[n] = distance[n]
             /\ call.low <= far[n] /\ (call.high = Infinite \/ far[n] <= call.high)
  <2>1. /\ n \in Found /\ n \in Nodes /\ n \in call.within \ {call.from}
        /\ AtMost(call.low, distance[n]) /\ AtMost(distance[n], call.high)
    BY <1>1, EligibleIsFound DEF Eligible
  <2>2. n \in DOMAIN far /\ distance[n] \in Nat /\ far[n] \in Nat /\ far[n] <= distance[n]
    BY <2>1, FarIsFound
  <2>3. call.low <= distance[n] /\ (call.high = Infinite \/ distance[n] <= call.high)
    BY <1>1, <2>1, <2>2 DEF AtMost, Infinite
  <2>4. call.high = Infinite \/ far[n] <= call.high
    BY <1>1, <2>2, <2>3 DEF Infinite
  <2>5. distance[n] <= far[n]
    BY <2>1, <2>2, <2>4, FarIsFound
  <2>6. far[n] = distance[n]
    BY <2>2, <2>5
  <2>7. QED
    BY <2>1, <2>2, <2>3, <2>4, <2>6
<1>3. ASSUME NEW n \in call.within \ {call.from}, n \in DOMAIN far, call.low <= far[n],
             call.high = Infinite \/ far[n] <= call.high
      PROVE  n \in Eligible
  <2>1. n \in Nodes
    BY <1>1
  <2>2. far[n] \in Nat /\ n \in Found /\ distance[n] <= far[n]
    BY <1>3, <2>1, FarIsFound
  <2>3. distance[n] \in Nat /\ far[n] <= distance[n]
    BY <2>1, <2>2, FarIsFound
  <2>4. distance[n] = far[n]
    BY <2>2, <2>3
  <2>5. AtMost(call.low, distance[n]) /\ AtMost(distance[n], call.high)
    BY <1>1, <1>3, <2>3, <2>4 DEF AtMost, Infinite
  <2>6. QED
    BY <2>5 DEF Eligible
<1>4. ASSUME NEW n \in Eligible
      PROVE  Along(Driven(graph.positions[call.from], RouteTo[n])) = far[n]
  BY <1>2, RouteMeasured DEF Measured
<1>5. ASSUME NEW n \in Eligible
      PROVE  Last(RouteTo[n]).node = n
  <2>1. n \in Found \ {call.from}
    BY EligibleIsFound
  <2>2. PICK r \in Seq(Steps) : r = RouteTo[arrival[n].from]
    BY <2>1, ArrivalFacts, RouteUnfolds
  <2>3. PICK step : step = [node |-> n, via |-> Shape(arrival[n])]
    OBVIOUS
  <2>4. RouteTo[n] = Append(r, step)
    BY <2>1, <2>2, <2>3, RouteUnfolds
  <2>5. step \in Steps
    <3>1. Shape(arrival[n]) \in Seq(DOMAIN Place) /\ n \in Nodes
      BY <2>1, ArrivalFacts, ShapeType DEF SearchInv, Found
    <3>2. QED
      BY <2>3, <3>1 DEF Steps
  <2>6. Last(Append(r, step)) = step
    <3>1. /\ Len(Append(r, step)) = Len(r) + 1
          /\ Append(r, step)[Len(r) + 1] = step
      BY <2>5, AppendProperties
    <3>2. QED
      BY <3>1 DEF Last
  <2>7. step.node = n
    BY <2>3
  <2>8. QED
    BY <2>4, <2>6, <2>7
<1>6. Eligible \subseteq call.within \ {call.from}
  BY DEF Eligible
<1>7. QED
  BY <1>2, <1>3, <1>4, <1>5, <1>6

\* On every network and whatever is asked, Path offers exactly the intersections asked
\* for that lie in the range by road, and the route to each of them ends there and is a
\* shortest one (graph.go, Path and reachable).
THEOREM JourneysShortest == Spec => []JourneysAreShortest
<1>1. JInv => JourneysAreShortest
  BY DoneIsShortest DEF JInv
<1>2. QED
  BY <1>1, JourneysHold, PTL

-----------------------------------------------------------------------------
(* Along the streets.                                                      *)

\* Whoever goes from point to point of d follows streets.
OnStreets(d) == \A i \in 1..(Len(d) - 1) : FollowsStreet(d[i], d[i + 1])

\* The lesser and the greater of two places, however they are named.
LEMMA MinMaxOfTwo ==
  ASSUME NEW i \in Nat, NEW j \in Nat, i < j
  PROVE  /\ Min({i, j}) = i /\ Max({i, j}) = j
         /\ Min({j, i}) = i /\ Max({j, i}) = j
<1>1. {j, i} = {i, j}
  OBVIOUS
<1>2. Min({i, j}) = i
  <2>1. \A x \in {i, j} : (\A y \in {i, j} : x <= y) <=> x = i
    OBVIOUS
  <2>2. QED
    BY <2>1 DEF Min
<1>3. Max({i, j}) = j
  <2>1. \A x \in {i, j} : (\A y \in {i, j} : x >= y) <=> x = j
    OBVIOUS
  <2>2. QED
    BY <2>1 DEF Max
<1>4. QED
  BY <1>1, <1>2, <1>3

\* Where the i-th and the j-th point of the places a to b are, counted from either end.
LEMMA CountedOn ==
  ASSUME NEW a \in Nat, NEW b \in Nat, NEW i \in Nat, NEW j \in Nat,
         1 <= a, a < b, 1 <= i, i < j, j <= b - a + 1,
         NEW x \in Nat, NEW y \in Nat, x = a + i - 1, y = a + j - 1
  PROVE  /\ x < y /\ x \in a..b /\ y \in a..b
         /\ \A k \in x..y : k \in a..b /\ \E h \in i..j : h \in 1..(b - a + 1) /\ k = a + h - 1
<1>1. x < y /\ x \in a..b /\ y \in a..b
  OBVIOUS
<1>2. ASSUME NEW k \in x..y
      PROVE  k \in a..b /\ \E h \in i..j : h \in 1..(b - a + 1) /\ k = a + h - 1
  <2>1. k \in Int /\ x <= k /\ k <= y
    OBVIOUS
  <2>2. PICK h \in Int : h = k - a + 1
    BY <2>1
  <2>3. h \in i..j /\ h \in 1..(b - a + 1) /\ k = a + h - 1
    BY <2>1, <2>2
  <2>4. QED
    BY <2>1, <2>3
<1>3. QED
  BY <1>1, <1>2

LEMMA CountedBack ==
  ASSUME NEW a \in Nat, NEW b \in Nat, NEW i \in Nat, NEW j \in Nat,
         1 <= a, a < b, 1 <= i, i < j, j <= b - a + 1,
         NEW x \in Nat, NEW y \in Nat, x = b + 1 - i, y = b + 1 - j
  PROVE  /\ y < x /\ x \in a..b /\ y \in a..b
         /\ \A k \in y..x : k \in a..b /\ \E h \in i..j : h \in 1..(b - a + 1) /\ k = b + 1 - h
<1>1. y < x /\ x \in a..b /\ y \in a..b
  OBVIOUS
<1>2. ASSUME NEW k \in y..x
      PROVE  k \in a..b /\ \E h \in i..j : h \in 1..(b - a + 1) /\ k = b + 1 - h
  <2>1. k \in Int /\ y <= k /\ k <= x
    OBVIOUS
  <2>2. PICK h \in Int : h = b + 1 - k
    BY <2>1
  <2>3. h \in i..j /\ h \in 1..(b - a + 1) /\ k = b + 1 - h
    BY <2>1, <2>2
  <2>4. QED
    BY <2>1, <2>3
<1>3. QED
  BY <1>1, <1>2

\* Who follows a stretch of an element follows the street, and against the stretch too
\* where it may be driven in both directions.
LEMMA StretchFollowed ==
  ASSUME NEW e \in ToSet(extract), e \in Elements, NEW run \in Runs(e), Len(e.nodes) = Len(e.known),
         NEW p, NEW q, Follows(Stretch(e, run).nodes, p, q)
  PROVE  FollowsStreet(p, q) /\ (~Directed(e) => FollowsStreet(q, p))
<1> DEFINE nodes == Stretch(e, run).nodes
<1>a. PICK n \in Nat : /\ n = Len(e.nodes) /\ DOMAIN e.nodes = 1..n
                       /\ \A k \in 1..n : e.nodes[k] \in DOMAIN Place
  <2>1. e.nodes \in Seq(DOMAIN Place)
    BY DEF Elements
  <2>2. QED
    BY <2>1, LenProperties, ElementOfSeq
<1>1. PICK a, b \in Nat : a = run[1] /\ b = run[2] /\ a < b /\ 1 <= a /\ b <= n
  <2>1. run[1] \in 1..n /\ run[2] \in 1..n /\ run[1] < run[2]
    BY <1>a, StretchFacts
  <2>2. PICK a, b \in 1..n : a = run[1] /\ b = run[2]
    BY <2>1
  <2>3. QED
    BY <2>1, <2>2
<1>b. a < b /\ 1 <= a /\ b <= n
  BY <1>1
<1>2. /\ DOMAIN nodes = 1..(b - a + 1)
      /\ \A k \in 1..(b - a + 1) :
           nodes[k] = IF e.oneway = "-1" THEN e.nodes[b + 1 - k] ELSE e.nodes[a + k - 1]
  BY <1>1, StretchFacts
<1>3. \A k \in a..b : e.known[k]
  BY <1>1 DEF Runs, Known
<1>4. PICK i, j \in 1..(b - a + 1) : /\ i < j /\ nodes[i] = p /\ nodes[j] = q
                                     /\ \A k \in i..j : Invisible(p, q, nodes[k])
  BY <1>2 DEF Follows
<1> HIDE DEF nodes
<1>5. i \in Nat /\ j \in Nat /\ 1 <= i /\ i < j /\ j <= b - a + 1
  BY <1>b, <1>4
<1>6. CASE e.oneway # "-1"
  <2>1. PICK x, y \in Nat : x = a + i - 1 /\ y = a + j - 1
    BY <1>b, <1>5
  <2>c. /\ x < y /\ x \in a..b /\ y \in a..b
        /\ \A k \in x..y : k \in a..b /\ \E h \in i..j : h \in 1..(b - a + 1) /\ k = a + h - 1
    BY <1>b, <1>5, <2>1, CountedOn
  <2>2. x < y /\ x \in 1..n /\ y \in 1..n /\ x \in DOMAIN e.nodes /\ y \in DOMAIN e.nodes
    <3>1. x \in 1..n /\ y \in 1..n
      BY <1>b, <2>c
    <3>2. QED
      BY <1>a, <2>c, <3>1
  <2>3. e.nodes[x] = p /\ e.nodes[y] = q
    BY <1>2, <1>4, <1>5, <1>6, <2>1
  <2>4. ASSUME NEW k \in x..y
        PROVE  Invisible(p, q, e.nodes[k]) /\ e.known[k] /\ e.nodes[k] \in DOMAIN Place
    <3>1. k \in a..b /\ \E h \in i..j : h \in 1..(b - a + 1) /\ k = a + h - 1
      BY <2>c
    <3>2. PICK h \in i..j : h \in 1..(b - a + 1) /\ k = a + h - 1
      BY <3>1
    <3>3. nodes[h] = e.nodes[k]
      BY <1>2, <1>6, <3>2
    <3>4. k \in a..b /\ k \in 1..n
      BY <1>b, <3>1
    <3>5. QED
      BY <1>3, <1>4, <1>a, <3>2, <3>3, <3>4
  <2>5. /\ Min({x, y}) = x /\ Max({x, y}) = y /\ Min({y, x}) = x /\ Max({y, x}) = y
    BY <2>2, MinMaxOfTwo
  <2>6. FollowsStreet(p, q)
    <3>1. Drivable(e, x, y)
      BY <1>6, <2>2, <2>4, <2>5 DEF Drivable
    <3>2. QED
      BY <2>2, <2>3, <2>4, <2>5, <3>1 DEF FollowsStreet
  <2>7. ASSUME ~Directed(e)
        PROVE  FollowsStreet(q, p)
    <3>1. Drivable(e, y, x)
      BY <1>6, <2>2, <2>4, <2>5, <2>7 DEF Drivable, Directed
    <3>2. p \in DOMAIN Place /\ q \in DOMAIN Place
      BY <1>a, <2>2, <2>3
    <3>3. \A k \in x..y : Invisible(q, p, e.nodes[k])
      BY <2>4, <3>2, InvisibleTurned
    <3>4. QED
      BY <2>2, <2>3, <2>5, <3>1, <3>3 DEF FollowsStreet
  <2>8. QED
    BY <2>6, <2>7
<1>7. CASE e.oneway = "-1"
  <2>1. PICK x, y \in Nat : x = b + 1 - i /\ y = b + 1 - j
    BY <1>b, <1>5
  <2>c. /\ y < x /\ x \in a..b /\ y \in a..b
        /\ \A k \in y..x : k \in a..b /\ \E h \in i..j : h \in 1..(b - a + 1) /\ k = b + 1 - h
    BY <1>b, <1>5, <2>1, CountedBack
  <2>2. y < x /\ x \in 1..n /\ y \in 1..n /\ x \in DOMAIN e.nodes /\ y \in DOMAIN e.nodes
    <3>1. x \in 1..n /\ y \in 1..n
      BY <1>b, <2>c
    <3>2. QED
      BY <1>a, <2>c, <3>1
  <2>3. e.nodes[x] = p /\ e.nodes[y] = q
    BY <1>2, <1>4, <1>5, <1>7, <2>1
  <2>4. ASSUME NEW k \in y..x
        PROVE  Invisible(p, q, e.nodes[k]) /\ e.known[k]
    <3>1. k \in a..b /\ \E h \in i..j : h \in 1..(b - a + 1) /\ k = b + 1 - h
      BY <2>c
    <3>2. PICK h \in i..j : h \in 1..(b - a + 1) /\ k = b + 1 - h
      BY <3>1
    <3>3. nodes[h] = e.nodes[k]
      BY <1>2, <1>7, <3>2
    <3>4. k \in a..b
      BY <1>b, <3>1
    <3>5. QED
      BY <1>3, <1>4, <3>2, <3>3, <3>4
  <2>5. Min({x, y}) = y /\ Max({x, y}) = x
    BY <2>2, MinMaxOfTwo
  <2>6. Drivable(e, x, y)
    BY <1>7, <2>2, <2>4, <2>5 DEF Drivable
  <2>7. FollowsStreet(p, q)
    BY <2>2, <2>3, <2>4, <2>5, <2>6 DEF FollowsStreet
  <2>8. Directed(e)
    BY <1>7 DEF Directed
  <2>9. QED
    BY <2>7, <2>8
<1>8. QED
  BY <1>6, <1>7

\* A segment is part of a way, and the way a stretch of a street.
LEMMA SegmentFollowed ==
  ASSUME Loaded, NEW s, IsSegment(Parse(extract), s), NEW p, NEW q, Follows(s.nodes, p, q)
  PROVE  FollowsStreet(p, q) /\ (~s.oneway => FollowsStreet(q, p))
<1>1. extract \in Seq(Elements)
  BY JourneysAssumption DEF Loaded
<1>2. PICK ways \in Seq(Stretches) : ways = Parse(extract)
  BY <1>1, ParseFacts
<1>3. PICK k \in DOMAIN ways : \E i, j \in DOMAIN ways[k].nodes :
                                 Adjacent(ways, ways[k], i, j) /\ s = Cut(ways[k], i, j)
  BY <1>2 DEF IsSegment
<1>4. PICK w \in Stretches : w = ways[k] /\ w \in ToSet(ways)
  BY <1>3, WayFacts DEF ToSet
<1>5. PICK n \in Nat : n = Len(w.nodes) /\ DOMAIN w.nodes = 1..n /\ w.nodes \in Shapes
  <2>1. /\ Len(ways[k].nodes) \in Nat /\ DOMAIN ways[k].nodes = 1..Len(ways[k].nodes)
        /\ ways[k].nodes \in Shapes
    BY WayFacts
  <2>2. QED
    BY <1>4, <2>1
<1>6. PICK i, j \in 1..n : i < j /\ s = Cut(w, i, j)
  <2>1. PICK i, j \in DOMAIN ways[k].nodes : Adjacent(ways, ways[k], i, j) /\ s = Cut(ways[k], i, j)
    BY <1>3
  <2>2. i < j
    BY <2>1 DEF Adjacent
  <2>3. QED
    BY <1>4, <1>5, <2>1, <2>2
<1>7. /\ s \in Stretches /\ s.oneway = w.oneway /\ Len(s.nodes) = j - i + 1
      /\ \A m \in 1..(j - i + 1) : s.nodes[m] = w.nodes[i + m - 1]
  <2>1. i \in DOMAIN w.nodes /\ j \in DOMAIN w.nodes /\ i < j
    BY <1>5, <1>6
  <2>2. /\ Cut(w, i, j) \in Stretches /\ Cut(w, i, j).oneway = w.oneway
        /\ Len(Cut(w, i, j).nodes) = j - i + 1
        /\ \A m \in 1..(j - i + 1) : Cut(w, i, j).nodes[m] = w.nodes[i + m - 1]
    BY <2>1, CutFacts
  <2>3. QED
    BY <1>6, <2>2
<1>8. Follows(w.nodes, p, q)
  <2>1. PICK part, whole \in Shapes : part = s.nodes /\ whole = w.nodes
    BY <1>5, <1>7, StretchType
  <2>2. Len(part) = j - i + 1 /\ \A m \in 1..(j - i + 1) : part[m] = whole[i + m - 1]
    BY <1>7, <2>1
  <2>3. PICK b \in Nat : b = i - 1
    BY <1>6
  <2>4. b + Len(part) <= Len(whole)
    BY <1>5, <1>6, <2>1, <2>2, <2>3
  <2>5. \A m \in 1..Len(part) : part[m] = whole[b + m]
    <3>1. \A m \in 1..(j - i + 1) : i + m - 1 = b + m
      BY <1>6, <2>3
    <3>2. QED
      BY <2>2, <3>1
  <2>6. QED
    BY <2>1, <2>4, <2>5, FollowsPart
<1>9. PICK e \in ToSet(extract) : \E run \in Runs(e) : Len(e.nodes) = Len(e.known) /\ w = Stretch(e, run)
  <2>1. w \in ToSet(Parse(extract))
    BY <1>2, <1>4
  <2>2. QED
    BY <1>1, <2>1, ParseFacts
<1>10. e \in Elements
  BY <1>1, ParseFacts
<1>a. PICK run \in Runs(e) : Len(e.nodes) = Len(e.known) /\ w = Stretch(e, run)
  BY <1>9
<1>11. FollowsStreet(p, q) /\ (~Directed(e) => FollowsStreet(q, p))
  BY <1>8, <1>a, <1>10, StretchFollowed
<1>12. s.oneway = Directed(e)
  BY <1>7, <1>a, <1>10, StretchFacts
<1>13. QED
  BY <1>11, <1>12

\* What may be driven from point to point in both directions may be driven turned around.
LEMMA StreetsTurned ==
  ASSUME NEW d \in Seq(DOMAIN Place), \A i \in 1..(Len(d) - 1) : FollowsStreet(d[i + 1], d[i])
  PROVE  OnStreets(Reverse(d))
<1>1. PICK n \in Nat : n = Len(d)
  BY LenProperties
<1>2. PICK r : r = Reverse(d) /\ Len(r) = n /\ \A i \in 1..n : r[i] = d[n - i + 1]
  <2>1. Len(Reverse(d)) = n /\ \A i \in 1..n : Reverse(d)[i] = d[n - i + 1]
    BY <1>1, ReverseType
  <2>2. QED
    BY <2>1
<1>3. ASSUME NEW i \in 1..(n - 1)
      PROVE  FollowsStreet(r[i], r[i + 1])
  <2>1. PICK j \in Nat : j = n - i
    OBVIOUS
  <2>2. j \in 1..(n - 1) /\ n - i + 1 = j + 1 /\ n - (i + 1) + 1 = j /\ i \in 1..n /\ i + 1 \in 1..n
    BY <2>1
  <2>3. r[i] = d[j + 1] /\ r[i + 1] = d[j]
    BY <1>2, <2>2
  <2>4. QED
    BY <1>1, <2>2, <2>3
<1>4. QED
  BY <1>2, <1>3 DEF OnStreets

\* The points of a road of the network follow streets, and in the other direction too
\* where it is not one-way: they are those of a segment that are needed to see its shape.
LEMMA RoadOnStreets ==
  ASSUME Loaded, NEW i \in DOMAIN network.roads,
         NEW a, a = network.positions[network.roads[i].a],
         NEW b, b = network.positions[network.roads[i].b],
         NEW via, via = network.roads[i].via
  PROVE  /\ OnStreets(Whole(a, via, b))
         /\ ~network.roads[i].oneway => OnStreets(Reverse(Whole(a, via, b)))
<1>1. extract \in Seq(Elements) /\ network = Generate(extract)
  BY JourneysAssumption DEF Loaded
<1>2. PICK ways, n, m, kept : Made(extract, ways, n, m, kept)
  BY <1>1, GenerateFacts
<1>3. ways = Parse(extract) /\ BuiltOf(n, ways) /\ m = network /\ KeptOf(m, n, kept)
  BY <1>1, <1>2 DEF Made
<1>4. PICK j \in DOMAIN n.roads : SameRoad(m, i, n, j, kept)
  BY <1>3 DEF KeptOf
<1>5. PICK s : IsSegment(ways, s) /\ Describes(s, n, j)
  BY <1>3 DEF BuiltOf
<1>6. a = s.nodes[1] /\ b = Last(s.nodes) /\ via = Simplify(s.nodes) /\ network.roads[i].oneway = s.oneway
  <2>1. m.roads[i].a \in Corners(m) /\ m.roads[i].b \in Corners(m)
    BY <1>3 DEF KeptOf, Laid
  <2>2. /\ m.positions[m.roads[i].a] = n.positions[n.roads[j].a]
        /\ m.positions[m.roads[i].b] = n.positions[n.roads[j].b]
    BY <1>3, <1>4, <2>1 DEF KeptOf, SameRoad
  <2>3. QED
    BY <1>3, <1>4, <1>5, <2>2 DEF Describes, SameRoad
<1>7. s \in Stretches
  <2>1. ways \in Seq(Stretches)
    BY <1>2 DEF Made
  <2>2. PICK k \in DOMAIN ways : \E x, y \in DOMAIN ways[k].nodes :
                                   Adjacent(ways, ways[k], x, y) /\ s = Cut(ways[k], x, y)
    BY <1>5 DEF IsSegment
  <2>3. PICK x, y \in DOMAIN ways[k].nodes : Adjacent(ways, ways[k], x, y) /\ s = Cut(ways[k], x, y)
    BY <2>2
  <2>4. x < y /\ ways[k] \in Stretches
    BY <2>1, <2>3, WayFacts DEF Adjacent
  <2>5. QED
    BY <2>3, <2>4, CutFacts
<1>8. PICK run \in Shapes : run = s.nodes
  BY <1>7, StretchType
<1>9. PICK d \in Shapes : d = DouglasPeucker[run] /\ Outlines(d, run)
  BY DouglasPeuckerOutlines
<1>10. Whole(a, via, b) = d
  BY <1>6, <1>8, <1>9, SimplifyFacts DEF Whole
<1>11. ASSUME NEW k \in 1..(Len(d) - 1)
       PROVE  FollowsStreet(d[k], d[k + 1]) /\ (~s.oneway => FollowsStreet(d[k + 1], d[k]))
  <2>1. Follows(s.nodes, d[k], d[k + 1])
    BY <1>8, <1>9 DEF Outlines
  <2>2. QED
    BY <1>3, <1>5, <2>1, SegmentFollowed
<1>12. OnStreets(d) /\ (~s.oneway => OnStreets(Reverse(d)))
  <2>1. d \in Seq(DOMAIN Place)
    BY ShapeFacts
  <2>2. OnStreets(d)
    BY <1>11 DEF OnStreets
  <2>3. ASSUME ~s.oneway
        PROVE  OnStreets(Reverse(d))
    BY <1>11, <2>1, <2>3, StreetsTurned
  <2>4. QED
    BY <2>2, <2>3
<1>13. QED
  BY <1>6, <1>10, <1>12

\* A road of the loaded graph follows streets, driven as it is shaped.
LEMMA LinkOnStreets ==
  ASSUME Loaded, NEW l \in Links(network), NEW w,
         w = <<graph.positions[l.from]>> \o (Shape(l) \o <<graph.positions[l.to]>>)
  PROVE  OnStreets(w)
<1>1. PICK i \in DOMAIN network.roads : \E on \in Seq(DOMAIN Place) : DrivenAs(l, i, w, on)
  BY LinkPoints, Zenon
<1>2. PICK a, b, via : /\ a = network.positions[network.roads[i].a]
                       /\ b = network.positions[network.roads[i].b]
                       /\ via = network.roads[i].via
  OBVIOUS
<1>3. PICK on : /\ on = Whole(a, via, b)
                /\ (w = on \/ (w = Reverse(on) /\ ~network.roads[i].oneway))
  BY <1>1, <1>2, Zenon DEF DrivenAs
<1>4. OnStreets(on) /\ (~network.roads[i].oneway => OnStreets(Reverse(on)))
  BY <1>2, <1>3, RoadOnStreets, ZenonT(30)
<1>5. QED
  BY <1>3, <1>4, Zenon

\* A place and then more of them.
LEMMA OneAndMore ==
  ASSUME NEW X, NEW a \in X, NEW t \in Seq(X), NEW m \in Nat, m = Len(t)
  PROVE  /\ <<a>> \o t \in Seq(X) /\ Len(<<a>> \o t) = m + 1 /\ (<<a>> \o t)[1] = a
         /\ \A k \in 1..m : (<<a>> \o t)[k + 1] = t[k]
<1>1. PICK one \in Seq(X) : one = <<a>> /\ Len(one) = 1 /\ one[1] = a
  <2>1. <<a>> \in Seq(X) /\ Len(<<a>>) = 1 /\ <<a>>[1] = a
    OBVIOUS
  <2>2. QED
    BY <2>1
<1>2. /\ one \o t \in Seq(X) /\ Len(one \o t) = Len(one) + m
      /\ \A i \in 1..(Len(one) + m) :
           (one \o t)[i] = IF i <= Len(one) THEN one[i] ELSE t[i - Len(one)]
  BY ConcatProperties
<1>3. /\ one \o t \in Seq(X) /\ Len(one \o t) = 1 + m
      /\ \A i \in 1..(1 + m) : (one \o t)[i] = IF i <= 1 THEN one[i] ELSE t[i - 1]
  BY <1>1, <1>2
<1>4. ASSUME NEW k \in 1..m
      PROVE  (one \o t)[k + 1] = t[k]
  <2>1. k + 1 \in 1..(1 + m) /\ ~(k + 1 <= 1) /\ (k + 1) - 1 = k
    OBVIOUS
  <2>2. QED
    BY <1>3, <2>1
<1>5. (one \o t)[1] = a
  BY <1>1, <1>3
<1>6. QED
  BY <1>1, <1>3, <1>4, <1>5

\* Two ways along streets, the second from where the first ends, are one.
LEMMA OnStreetsBoth ==
  ASSUME NEW X, NEW s \in Seq(X), NEW t \in Seq(X), NEW w \in Seq(X),
         s # <<>>, w = <<s[Len(s)]>> \o t, OnStreets(s), OnStreets(w)
  PROVE  OnStreets(s \o t)
<1>1. PICK n, m \in Nat : n = Len(s) /\ m = Len(t)
  BY LenProperties
<1>2. n >= 1
  BY <1>1, EmptySeq, LenProperties
<1>3. PICK u : /\ u = s \o t /\ Len(u) = n + m
               /\ \A i \in 1..(n + m) : u[i] = IF i <= n THEN s[i] ELSE t[i - n]
  <2>1. /\ Len(s \o t) = n + m
        /\ \A i \in 1..(n + m) : (s \o t)[i] = IF i <= n THEN s[i] ELSE t[i - n]
    BY <1>1, ConcatProperties
  <2>2. QED
    BY <2>1
<1>4. Len(w) = m + 1 /\ w[1] = s[n] /\ \A k \in 1..m : w[k + 1] = t[k]
  <2>1. PICK x \in X : x = s[n]
    BY <1>1, <1>2, ElementOfSeq
  <2>2. w = <<x>> \o t
    BY <1>1, <2>1
  <2>3. QED
    BY <1>1, <2>1, <2>2, OneAndMore
<1>5. ASSUME NEW i \in 1..(n + m - 1)
      PROVE  FollowsStreet(u[i], u[i + 1])
  <2>1. CASE i < n
    <3>1. i \in 1..(n - 1) /\ u[i] = s[i] /\ u[i + 1] = s[i + 1]
      BY <1>3, <2>1
    <3>2. QED
      BY <1>1, <3>1 DEF OnStreets
  <2>2. CASE i >= n
    <3>1. PICK k \in Nat : k = i - n
      BY <2>2
    <3>2. k + 1 \in 1..m /\ i + 1 \in 1..(n + m) /\ i \in 1..(n + m) /\ ~(i + 1 <= n) /\ i + 1 - n = k + 1
      BY <3>1
    <3>3. u[i + 1] = w[(k + 1) + 1]
      BY <1>3, <1>4, <3>2
    <3>4. u[i] = w[k + 1]
      <4>1. CASE i = n
        <5>1. k = 0 /\ k + 1 = 1 /\ i <= n
          BY <3>1, <4>1
        <5>2. u[i] = s[n]
          BY <1>3, <3>2, <4>1, <5>1
        <5>3. QED
          BY <1>4, <5>1, <5>2
      <4>2. CASE i # n
        <5>1. k \in 1..m /\ ~(i <= n)
          BY <2>2, <3>1, <3>2, <4>2
        <5>2. u[i] = t[k]
          BY <1>3, <3>1, <3>2, <5>1
        <5>3. QED
          BY <1>4, <5>1, <5>2
      <4>3. QED
        BY <4>1, <4>2
    <3>5. k + 1 \in 1..(Len(w) - 1)
      BY <1>4, <3>2
    <3>6. QED
      BY <3>3, <3>4, <3>5 DEF OnStreets
  <2>3. QED
    BY <2>1, <2>2
<1>6. QED
  BY <1>3, <1>5 DEF OnStreets

\* The first part of a way along streets is one,
LEMMA OnStreetsFirst ==
  ASSUME NEW X, NEW s \in Seq(X), NEW t \in Seq(X), OnStreets(s \o t)
  PROVE  OnStreets(s)
<1>1. PICK n, m \in Nat : n = Len(s) /\ m = Len(t)
  BY LenProperties
<1>2. PICK u : /\ u = s \o t /\ Len(u) = n + m
               /\ \A i \in 1..(n + m) : u[i] = IF i <= n THEN s[i] ELSE t[i - n]
  <2>1. /\ Len(s \o t) = n + m
        /\ \A i \in 1..(n + m) : (s \o t)[i] = IF i <= n THEN s[i] ELSE t[i - n]
    BY <1>1, ConcatProperties
  <2>2. QED
    BY <2>1
<1>3. ASSUME NEW i \in 1..(n - 1)
      PROVE  FollowsStreet(s[i], s[i + 1])
  <2>1. i \in 1..(n + m - 1) /\ u[i] = s[i] /\ u[i + 1] = s[i + 1]
    BY <1>2
  <2>2. QED
    BY <1>2, <2>1 DEF OnStreets
<1>4. QED
  BY <1>1, <1>3 DEF OnStreets

\* and so is what is left once the first point is reached.
LEMMA OnStreetsRest ==
  ASSUME NEW X, NEW a \in X, NEW t \in Seq(X), t # <<>>, OnStreets(<<a>> \o t)
  PROVE  <<t[1]>> \o Tail(t) = t /\ OnStreets(t)
<1>1. PICK m \in Nat : m = Len(t) /\ m >= 1
  BY LenProperties, EmptySeq
<1>2. PICK u : u = <<a>> \o t /\ Len(u) = m + 1 /\ \A k \in 1..m : u[k + 1] = t[k]
  <2>1. Len(<<a>> \o t) = m + 1 /\ \A k \in 1..m : (<<a>> \o t)[k + 1] = t[k]
    BY <1>1, OneAndMore
  <2>2. QED
    BY <2>1, Zenon
<1>3. ASSUME NEW i \in 1..(m - 1)
      PROVE  FollowsStreet(t[i], t[i + 1])
  <2>1. i + 1 \in 1..(m + 1 - 1) /\ i \in 1..m /\ i + 1 \in 1..m
    OBVIOUS
  <2>2. i + 1 \in 1..(Len(u) - 1)
    BY <1>2, <2>1
  <2>3. FollowsStreet(u[i + 1], u[i + 1 + 1])
    BY <1>2, <2>2 DEF OnStreets
  <2>4. QED
    BY <1>2, <2>1, <2>3
<1>4. OnStreets(t)
  BY <1>1, <1>3 DEF OnStreets
<1>5. <<t[1]>> \o Tail(t) = t
  <2>1. PICK x \in X, r \in Seq(X) : x = t[1] /\ r = Tail(t)
    <3>1. t[1] \in X
      BY <1>1, ElementOfSeq
    <3>2. Tail(t) \in Seq(X)
      BY HeadTailProperties
    <3>3. QED
      BY <3>1, <3>2
  <2>2. PICK l \in Nat : l = m - 1
    BY <1>1
  <2>3. Len(r) = l /\ \A i \in 1..l : r[i] = t[i + 1]
    BY <1>1, <2>1, <2>2, HeadTailProperties
  <2>4. PICK v \in Seq(X) : /\ v = <<x>> \o r /\ Len(v) = l + 1 /\ v[1] = x
                           /\ \A k \in 1..l : v[k + 1] = r[k]
    <3>1. /\ <<x>> \o r \in Seq(X) /\ Len(<<x>> \o r) = l + 1 /\ (<<x>> \o r)[1] = x
          /\ \A k \in 1..l : (<<x>> \o r)[k + 1] = r[k]
      BY <2>3, OneAndMore
    <3>2. QED
      BY <3>1, Zenon
  <2>5. ASSUME NEW i \in 1..m
        PROVE  v[i] = t[i]
    <3>1. CASE i = 1
      BY <2>1, <2>4, <3>1
    <3>2. CASE i # 1
      <4>1. PICK k \in 1..l : i = k + 1
        <5>1. i - 1 \in 1..l /\ i = (i - 1) + 1
          BY <2>2, <3>2
        <5>2. QED
          BY <5>1
      <4>2. QED
        BY <2>3, <2>4, <4>1
    <3>3. QED
      BY <3>1, <3>2
  <2>6. Len(v) = m
    BY <2>2, <2>4
  <2>7. v = t
    BY <1>1, <2>5, <2>6, SeqEqual
  <2>8. QED
    BY <2>1, <2>4, <2>7, ZenonT(30)
<1>6. QED
  BY <1>4, <1>5

\* A single place is no way at all.
LEMMA OnePlace ==
  ASSUME NEW x
  PROVE  OnStreets(<<x>>)
<1>1. Len(<<x>>) - 1 = 0
  OBVIOUS
<1>2. QED
  BY <1>1 DEF OnStreets

\* The way to the intersection one was reached from, and the road between, is one.
LEMMA OneStreetMore ==
  ASSUME SearchInv, Ranked, NEW n \in Found \ {call.from}, NEW f, f = arrival[n].from,
         OnStreets(Driven(graph.positions[call.from], RouteTo[f]))
  PROVE  OnStreets(Driven(graph.positions[call.from], RouteTo[n]))
<1>1. PICK l \in Links(network) : l = arrival[n]
  BY ArrivalFacts
<1>2. l.to = n /\ l.from = f /\ f \in Found
  BY <1>1, ArrivalFacts
<1>3. Loaded /\ Found \subseteq Nodes /\ n \in Nodes
  BY DEF SearchInv, Found
<1>4. PICK step \in Steps : step = [node |-> n, via |-> Shape(l)]
  <2>1. Shape(l) \in Seq(DOMAIN Place)
    BY <1>3, ShapeType
  <2>2. QED
    BY <1>3, <2>1 DEF Steps
<1>5. PICK r \in Seq(Steps) : r = RouteTo[f]
  BY <1>2, RouteUnfolds
<1>6. RouteTo[n] = Append(r, step)
  BY <1>1, <1>2, <1>4, <1>5, RouteUnfolds
<1>7. Ahead(RouteTo[n]) = Ahead(r) \o Points(step)
  BY <1>3, <1>6, AheadLast
<1>8. PICK p, a, b \in Seq(DOMAIN Place) :
        p = <<graph.positions[call.from]>> /\ a = Ahead(r) /\ b = Points(step)
  <2>1. graph.positions[call.from] \in DOMAIN Place
    BY GraphFacts, RoadsOfNetwork DEF SearchInv, Loaded
  <2>2. <<graph.positions[call.from]>> \in Seq(DOMAIN Place)
    BY <2>1
  <2>3. Ahead(r) \in Seq(DOMAIN Place) /\ Points(step) \in Seq(DOMAIN Place)
    BY <1>3, AheadType, PointsType
  <2>4. QED
    BY <2>2, <2>3
<1>9. PICK s \in Seq(DOMAIN Place) :
        s = p \o a /\ s # <<>> /\ s[Len(s)] = graph.positions[f] /\ OnStreets(s)
  <2>1. Driven(graph.positions[call.from], RouteTo[f]) = p \o a
    BY <1>5, <1>8 DEF Driven
  <2>2. Measured(p \o a, f)
    BY <1>2, <2>1, RouteMeasured
  <2>3. OnStreets(p \o a)
    BY <2>1
  <2>4. QED
    BY <2>2, <2>3 DEF Measured
<1>10. Driven(graph.positions[call.from], RouteTo[n]) = s \o b
  <2>1. Driven(graph.positions[call.from], RouteTo[n]) = p \o (a \o b)
    BY <1>7, <1>8 DEF Driven
  <2>2. p \in Seq(DOMAIN Place) /\ a \in Seq(DOMAIN Place) /\ b \in Seq(DOMAIN Place)
    OBVIOUS
  <2>3. (p \o a) \o b = p \o (a \o b)
    BY <2>2, ConcatAssociative, SMTT(30)
  <2>4. QED
    BY <1>9, <2>1, <2>3
<1>11. b = Shape(l) \o <<graph.positions[n]>>
  BY <1>4, <1>8 DEF Points
<1>12. PICK w \in Seq(DOMAIN Place) : w = <<s[Len(s)]>> \o b /\ OnStreets(w)
  <2>1. <<s[Len(s)]>> \o b = <<graph.positions[l.from]>> \o (Shape(l) \o <<graph.positions[l.to]>>)
    BY <1>2, <1>9, <1>11
  <2>2. QED
    BY <1>3, <2>1, RoadDriven, LinkOnStreets
<1>13. OnStreets(s \o b)
  <2>1. s # <<>> /\ w = <<s[Len(s)]>> \o b /\ OnStreets(s) /\ OnStreets(w)
    BY <1>9, <1>12
  <2>2. QED
    BY <2>1, OnStreetsBoth
<1>14. QED
  BY <1>10, <1>13

\* By induction on the way back: every route that was found follows streets.
LEMMA RouteOnStreets ==
  ASSUME SearchInv, Ranked, NEW n \in Found
  PROVE  OnStreets(Driven(graph.positions[call.from], RouteTo[n]))
<1>1. PICK m \in [Found -> 0..Len(network.positions)] : Leads(m)
  BY WayBack
<1>2. Len(network.positions) \in Nat /\ \A x \in Found : m[x] \in Nat
  BY <1>1, RoadsOfNetwork DEF SearchInv, Loaded
<1> DEFINE way(x) == Driven(graph.positions[call.from], RouteTo[x])
           Near(k) == \A x \in Found : m[x] <= k => OnStreets(way(x))
           Good == {k \in Nat : Near(k)}
<1>3. ASSUME NEW x \in Found, x = call.from
      PROVE  OnStreets(way(x))
  <2>1. RouteTo[x] = <<>>
    BY <1>3, RouteUnfolds
  <2>2. way(x) = Driven(graph.positions[call.from], <<>>)
    BY <2>1
  <2>3. Driven(graph.positions[call.from], <<>>) = <<graph.positions[call.from]>>
    <3>1. graph.positions[call.from] \in DOMAIN Place
      BY GraphFacts, RoadsOfNetwork DEF SearchInv, Loaded
    <3>2. PICK one \in Seq(DOMAIN Place) : one = <<graph.positions[call.from]>>
      <4>1. PICK p \in DOMAIN Place : p = graph.positions[call.from]
        BY <3>1
      <4>2. <<p>> \in Seq(DOMAIN Place)
        OBVIOUS
      <4>3. QED
        BY <4>1, <4>2
    <3>3. one \o <<>> = one
      BY ConcatEmptySeq
    <3>4. QED
      BY <3>2, <3>3, NothingAhead DEF Driven
  <2>4. OnStreets(<<graph.positions[call.from]>>)
    BY OnePlace
  <2>5. QED
    BY <2>2, <2>3, <2>4
<1>4. 0 \in Good
  <2>1. ASSUME NEW x \in Found, m[x] <= 0
        PROVE  x = call.from
    BY <1>1, <1>2, <2>1 DEF Leads
  <2> HIDE DEF way
  <2>2. QED
    BY <1>3, <2>1
<1>5. ASSUME NEW k \in Nat, k \in Good
      PROVE  k + 1 \in Good
  <2>1. ASSUME NEW x \in Found, m[x] <= k + 1
        PROVE  OnStreets(way(x))
    <3>1. CASE x = call.from
      BY <1>3, <3>1
    <3>2. CASE x # call.from
      <4>1. PICK f \in Found : f = arrival[x].from /\ m[f] < m[x]
        BY <1>1, <3>2, ArrivalFacts DEF Leads
      <4>2. m[f] <= k
        BY <1>2, <2>1, <4>1
      <4>3. OnStreets(way(f))
        BY <1>5, <4>2
      <4>4. QED
        BY <3>2, <4>1, <4>3, OneStreetMore
    <3>3. QED
      BY <3>1, <3>2
  <2> HIDE DEF way
  <2>2. QED
    BY <2>1
<1>6. Nat \subseteq Good
  <2> HIDE DEF Good
  <2>1. QED
    BY <1>4, <1>5, Naturally
<1>7. m[n] <= m[n] /\ m[n] \in Good
  BY <1>2, <1>6
<1> HIDE DEF way
<1>8. OnStreets(way(n))
  BY <1>7
<1>9. QED
  BY <1>8 DEF way

\* Where the plan under way is for a journey from: the intersection the vehicle is at, or
\* the end of the road it drives along when its journey is revised.
Origin == IF purpose = "replan" THEN path[1].node ELSE node

\* The vehicle is at a point, or between one and the next of its path; without a path it is
\* at an intersection.
Whereabouts ==
  /\ \E a, b \in DOMAIN Place : \/ at = <<a>>
                                \/ at = <<a, b>> /\ path # <<>> /\ b = Ahead(path)[1]
  /\ path = <<>> => at = <<graph.positions[node]>>

\* What is planned continues from where the path ends, once the rest of it is discarded.
PlansFromOrigin ==
  /\ purpose = "replan" => path # <<>>
  /\ purpose \in {"toCustomer", "toParking", "trip"} => path = <<>>
  /\ purpose # "nothing" => \A c \in ToSet(tries) : c.from = Origin
  /\ phase # "idle" => purpose # "nothing" /\ call.from = Origin

\* The inductive invariant of StaysOnStreets.
StreetInv == OnStreets(Driven(at[1], path)) /\ Whereabouts /\ PlansFromOrigin

\* What follows a street does so in every state: neither the extract nor what is visible
\* changes.
LEMMA OnStreetsKept ==
  ASSUME UNCHANGED extract, NEW d
  PROVE  OnStreets(d)' <=> OnStreets(d)
BY DEF OnStreets, FollowsStreet, Drivable

\* The next point ahead is the first of the road ahead.
LEMMA NextPoint ==
  ASSUME Loaded, NEW steps \in Seq(Steps), steps # <<>>
  PROVE  /\ Points(steps[1]) \in Seq(DOMAIN Place) /\ Points(steps[1]) # <<>>
         /\ Ahead(steps) # <<>> /\ Ahead(steps)[1] = Points(steps[1])[1]
         /\ Head(Points(steps[1])) = Ahead(steps)[1] /\ Ahead(steps)[1] \in DOMAIN Place
<1>1. /\ steps[1] \in Steps /\ Tail(steps) \in Seq(Steps)
      /\ Ahead(steps) = Points(steps[1]) \o Ahead(Tail(steps))
  BY AheadFirst
<1>2. PICK b \in Seq(DOMAIN Place), rest \in Seq(DOMAIN Place) :
        b = Points(steps[1]) /\ rest = Ahead(Tail(steps))
  BY <1>1, PointsType, AheadType
<1>3. b # <<>>
  <2>1. PICK via \in Seq(DOMAIN Place), y \in DOMAIN Place :
          via = steps[1].via /\ y = graph.positions[steps[1].node]
    BY <1>1, PointsType DEF Steps
  <2>2. PICK one \in Seq(DOMAIN Place) : one = <<y>> /\ one # <<>>
    <3>1. <<y>> \in Seq(DOMAIN Place) /\ <<y>> # <<>>
      OBVIOUS
    <3>2. QED
      BY <3>1
  <2>3. b = via \o one
    BY <1>2, <2>1, <2>2 DEF Points
  <2>4. via \o one # <<>>
    BY <2>2, ConcatEqualIffEmpty
  <2>5. QED
    BY <2>3, <2>4
<1>4. b \o rest # <<>> /\ (b \o rest)[1] = b[1]
  BY <1>3, TailOfConcat
<1>5. b[1] \in DOMAIN Place /\ Head(b) = b[1]
  BY <1>3, EmptySeq, ElementOfSeq, HeadTailProperties
<1>6. QED
  BY <1>1, <1>2, <1>3, <1>4, <1>5

\* A vehicle that stays where it is, on the same path, remains on streets.
LEMMA StayedPut ==
  ASSUME StreetInv, UNCHANGED <<world, at, path, node>>
  PROVE  OnStreets(Driven(at[1], path))' /\ Whereabouts'
<1>1. UNCHANGED <<extract, graph, at, path, node>>
  BY DEF world
<1>2. PICK d : d = Driven(at[1], path)
  OBVIOUS
<1>3. Ahead(path)' = Ahead(path)
  BY <1>1 DEF Ahead, Points
<1>4. Driven(at[1], path)' = d
  BY <1>1, <1>2, <1>3 DEF Driven
<1>5. OnStreets(d)'
  BY <1>1, <1>2, OnStreetsKept DEF StreetInv
<1>6. OnStreets(Driven(at[1], path))'
  BY <1>4, <1>5 DEF OnStreets
<1>7. Whereabouts'
  BY <1>1, <1>3 DEF StreetInv, Whereabouts
<1>8. QED
  BY <1>6, <1>7

\* A vehicle that reached the next point remains on streets.
LEMMA OnePointDriven ==
  ASSUME JInv, StreetInv, UNCHANGED world, NEW p \in Seq(Steps), p = path',
         Ahead(path) # <<>>, Ahead(p) = Tail(Ahead(path)), at' = <<Ahead(path)[1]>>
  PROVE  OnStreets(Driven(at[1], path))' /\ \E a \in DOMAIN Place : at' = <<a>>
<1>1. UNCHANGED <<extract, graph>> /\ Loaded /\ path \in Seq(Steps)
  BY DEF world, JInv, SearchInv, VehicleInv
<1>2. PICK t \in Seq(DOMAIN Place) : t = Ahead(path) /\ t # <<>>
  BY <1>1, AheadType
<1>3. PICK h \in DOMAIN Place : h = at[1]
  BY DEF StreetInv, Whereabouts
<1>4. OnStreets(<<h>> \o t)
  BY <1>2, <1>3 DEF StreetInv, Driven
<1>5. <<t[1]>> \o Tail(t) = t /\ OnStreets(t)
  BY <1>2, <1>4, OnStreetsRest
<1>6. Ahead(path)' = Tail(t)
  <2>1. Ahead(p)' = Ahead(p)
    BY <1>1, AheadKept
  <2>2. Ahead(path)' = Ahead(p)'
    BY DEF Ahead
  <2>3. QED
    BY <1>2, <2>1, <2>2
<1>7. at'[1] = t[1]
  BY <1>2
<1>8. Driven(at[1], path)' = t
  BY <1>5, <1>6, <1>7 DEF Driven
<1>9. OnStreets(t)'
  BY <1>1, <1>5, OnStreetsKept
<1>10. OnStreets(Driven(at[1], path))'
  BY <1>8, <1>9 DEF OnStreets
<1>11. t[1] \in DOMAIN Place
  BY <1>2, EmptySeq, ElementOfSeq
<1>12. QED
  BY <1>2, <1>10, <1>11

\* The journey a plan comes to.
LEMMA JourneyOnStreets ==
  ASSUME JInv, StreetInv, SetOut
  PROVE  OnStreets(Driven(at[1], path))' /\ Whereabouts'
<1>1. /\ phase = "done" /\ UNCHANGED <<world, node, at>>
      /\ \E destination \in Eligible :
           path' = (IF purpose = "replan" THEN <<path[1]>> ELSE <<>>) \o RouteTo[destination]
  BY DEF SetOut
<1>2. PICK destination \in Eligible :
        path' = (IF purpose = "replan" THEN <<path[1]>> ELSE <<>>) \o RouteTo[destination]
  BY <1>1
<1>3. /\ SearchInv /\ Ranked /\ VehicleInv /\ Loaded /\ path \in Seq(Steps)
      /\ UNCHANGED <<extract, graph>>
  BY <1>1 DEF JInv, SearchInv, VehicleInv, world
<1>4. PICK route \in Seq(Steps) : route = RouteTo[destination] /\ route # <<>>
  BY <1>1, <1>3, RouteLeads
<1>5. OnStreets(Driven(graph.positions[call.from], route))
  <2>1. destination \in Found
    BY <1>1, <1>3, EligibleIsFound
  <2>2. QED
    BY <1>3, <1>4, <2>1, RouteOnStreets
<1>6. purpose # "nothing" /\ call.from = Origin
  BY <1>1 DEF StreetInv, PlansFromOrigin
<1>7. CASE purpose = "replan"
  <2>1. path # <<>> /\ call.from = path[1].node
    BY <1>6, <1>7 DEF StreetInv, PlansFromOrigin, Origin
  <2>2. PICK step \in Steps : step = path[1] /\ Ahead(path) = Points(step) \o Ahead(Tail(path))
                              /\ Tail(path) \in Seq(Steps)
    BY <1>3, <2>1, AheadFirst
  <2>3. PICK one \in Seq(Steps) : one = <<step>> /\ one # <<>> /\ one[1] = step /\ Tail(one) = <<>>
    <3>1. <<step>> \in Seq(Steps) /\ <<step>> # <<>> /\ <<step>>[1] = step /\ Tail(<<step>>) = <<>>
      OBVIOUS
    <3>2. QED
      BY <3>1
  <2>4. PICK p \in Seq(Steps) : p = path' /\ p = one \o route /\ p # <<>> /\ p[1] = step /\ Tail(p) = route
    <3>1. path' = one \o route
      BY <1>2, <1>4, <1>7, <2>2, <2>3
    <3>2. /\ one \o route \in Seq(Steps) /\ one \o route # <<>> /\ (one \o route)[1] = one[1]
          /\ Tail(one \o route) = Tail(one) \o route
      BY <2>3, TailOfConcat
    <3>3. <<>> \o route = route
      BY ConcatEmptySeq
    <3>4. QED
      BY <2>3, <3>1, <3>2, <3>3
  <2>5. Ahead(p) = Points(step) \o Ahead(route)
    BY <1>3, <2>4, AheadFirst
  <2>6. PICK via, b, r, rest \in Seq(DOMAIN Place), y \in DOMAIN Place :
          /\ via = step.via /\ y = graph.positions[step.node]
          /\ b = Points(step) /\ r = Ahead(route) /\ rest = Ahead(Tail(path))
    <3>1. step.via \in Seq(DOMAIN Place) /\ graph.positions[step.node] \in DOMAIN Place
      BY <1>3, PointsType DEF Steps
    <3>2. Points(step) \in Seq(DOMAIN Place)
      BY <1>3, PointsType
    <3>3. Ahead(route) \in Seq(DOMAIN Place) /\ Ahead(Tail(path)) \in Seq(DOMAIN Place)
      BY <1>3, <2>2, AheadType
    <3>4. QED
      BY <3>1, <3>2, <3>3
  <2>7. PICK h \in DOMAIN Place : h = at[1]
    BY DEF StreetInv, Whereabouts
  <2>8. PICK here \in Seq(DOMAIN Place) : here = <<h>>
    <3>1. <<h>> \in Seq(DOMAIN Place)
      OBVIOUS
    <3>2. QED
      BY <3>1
  <2>9. PICK s \in Seq(DOMAIN Place) : s = here \o b /\ s # <<>> /\ s[Len(s)] = y /\ OnStreets(s)
    <3>1. OnStreets(here \o (b \o rest))
      BY <2>2, <2>6, <2>7, <2>8 DEF StreetInv, Driven
    <3>2. (here \o b) \o rest = here \o (b \o rest)
      <4>1. here \in Seq(DOMAIN Place) /\ b \in Seq(DOMAIN Place) /\ rest \in Seq(DOMAIN Place)
        OBVIOUS
      <4>2. QED
        BY <4>1, ConcatAssociative, SMTT(30)
    <3>3. here \o b \in Seq(DOMAIN Place)
      BY ConcatProperties
    <3>4. OnStreets(here \o b)
      <4>1. OnStreets((here \o b) \o rest)
        BY <3>1, <3>2
      <4>2. QED
        BY <3>3, <4>1, OnStreetsFirst
    <3>5. b = via \o <<y>>
      BY <2>6 DEF Points
    <3>6. PICK s : s = here \o b
      OBVIOUS
    <3>7. s[Len(s)] = y
      BY <3>5, <3>6, LastOfAll
    <3>8. here \o b # <<>>
      BY <2>8, TailOfConcat
    <3>9. QED
      BY <3>3, <3>4, <3>6, <3>7, <3>8
  <2>10. PICK w \in Seq(DOMAIN Place) : w = <<s[Len(s)]>> \o r /\ OnStreets(w)
    <3>1. PICK z \in Seq(DOMAIN Place) : z = <<y>>
      <4>1. <<y>> \in Seq(DOMAIN Place)
        OBVIOUS
      <4>2. QED
        BY <4>1
    <3>2. z \o r \in Seq(DOMAIN Place)
      BY ConcatProperties
    <3>3. Driven(graph.positions[call.from], route) = z \o r
      BY <2>1, <2>2, <2>6, <3>1 DEF Driven
    <3>4. OnStreets(z \o r)
      BY <1>5, <3>3
    <3>5. QED
      BY <2>9, <3>1, <3>2, <3>4
  <2>11. PICK d : d = s \o r /\ OnStreets(d)
    <3>1. s # <<>> /\ w = <<s[Len(s)]>> \o r /\ OnStreets(s) /\ OnStreets(w)
      BY <2>9, <2>10
    <3>2. OnStreets(s \o r)
      BY <3>1, OnStreetsBoth
    <3>3. QED
      BY <3>2
  <2>12. Ahead(path)' = b \o r
    <3>1. Ahead(p)' = Ahead(p)
      BY <1>3, AheadKept
    <3>2. Ahead(path)' = Ahead(p)'
      BY <2>4 DEF Ahead
    <3>3. QED
      BY <2>5, <2>6, <3>1, <3>2
  <2>13. Driven(at[1], path)' = d
    <3>1. (here \o b) \o r = here \o (b \o r)
      <4>1. here \in Seq(DOMAIN Place) /\ b \in Seq(DOMAIN Place) /\ r \in Seq(DOMAIN Place)
        OBVIOUS
      <4>2. QED
        BY <4>1, ConcatAssociative, SMTT(30)
    <3>2. at'[1] = h
      BY <1>1, <2>7
    <3>3. Driven(at[1], path)' = here \o (b \o r)
      BY <2>8, <2>12, <3>2 DEF Driven
    <3>4. QED
      BY <2>9, <2>11, <3>1, <3>3
  <2>14. OnStreets(d)'
    BY <1>3, <2>11, OnStreetsKept
  <2>15. OnStreets(Driven(at[1], path))'
    BY <2>13, <2>14 DEF OnStreets
  <2>16. Ahead(path)'[1] = Ahead(path)[1]
    <3>1. Ahead(path)[1] = b[1] /\ Ahead(p)[1] = b[1]
      BY <1>3, <2>1, <2>2, <2>4, <2>6, NextPoint
    <3>2. QED
      BY <2>5, <2>6, <2>12, <3>1
  <2>17. path' # <<>> /\ at' = at
    BY <1>1, <2>4
  <2>18. Whereabouts'
    BY <2>16, <2>17 DEF StreetInv, Whereabouts
  <2>19. QED
    BY <2>15, <2>18
<1>8. CASE purpose # "replan"
  <2>1. path = <<>> /\ call.from = node
    BY <1>3, <1>6, <1>8 DEF StreetInv, PlansFromOrigin, Origin, VehicleInv
  <2>2. at = <<graph.positions[node]>> /\ graph.positions[node] \in DOMAIN Place
    BY <2>1, <1>3, GraphFacts, RoadsOfNetwork DEF StreetInv, Whereabouts, VehicleInv, Loaded
  <2>3. PICK p : p = route /\ p = path'
    <3>1. <<>> \o route = route
      BY ConcatEmptySeq
    <3>2. QED
      BY <1>2, <1>4, <1>8, <3>1
  <2>4. PICK d : d = Driven(graph.positions[call.from], route)
    OBVIOUS
  <2>5. Driven(at[1], path)' = d
    <3>1. Ahead(p)' = Ahead(p)
      BY <1>3, AheadKept
    <3>2. Ahead(path)' = Ahead(p)'
      BY <2>3 DEF Ahead
    <3>3. at'[1] = graph.positions[call.from]
      BY <1>1, <2>1, <2>2
    <3>4. QED
      BY <2>3, <2>4, <3>1, <3>2, <3>3 DEF Driven
  <2>6. OnStreets(d)'
    BY <1>3, <1>5, <2>4, OnStreetsKept
  <2>7. OnStreets(Driven(at[1], path))'
    BY <2>5, <2>6 DEF OnStreets
  <2>8. path' # <<>> /\ at' = at
    BY <1>1, <1>4, <2>3
  <2>9. Whereabouts'
    BY <2>2, <2>8 DEF Whereabouts
  <2>10. QED
    BY <2>7, <2>9
<1>9. QED
  BY <1>7, <1>8

\* A plan begins at the intersection it is for.
LEMMA PlanStartsHere ==
  ASSUME NEW n, NEW calls, calls \in {Plan(n), Exit(n) \o Plan(n)}
  PROVE  \A c \in ToSet(calls) : c.from = n
<1>1. \A w, l, h : Calls(n, w, l, h).from = n
  BY DEF Calls
<1>2. PICK c1, c2, c3, c4 : /\ c1 = Calls(n, graph.inside, TripMin, TripMax)
                            /\ c2 = Calls(n, graph.inside, 0, Infinite)
                            /\ c3 = Calls(n, graph.outside, 0, TripMax)
                            /\ c4 = Calls(n, graph.outside, 0, Infinite)
  OBVIOUS
<1>3. PICK S : S = {c1, c2, c3, c4}
  OBVIOUS
<1>4. \A c \in S : c.from = n
  BY <1>1, <1>2, <1>3, Zenon
<1>5. Plan(n) = <<c1, c2>> /\ Exit(n) = <<c3, c4>>
  BY <1>2, Zenon DEF Plan, Exit
<1>6. <<c1, c2>> \in Seq(S) /\ <<c3, c4>> \in Seq(S)
  BY <1>3
<1>7. calls \in Seq(S)
  <2>1. PICK s, t \in Seq(S) : s = Plan(n) /\ t = Exit(n)
    BY <1>5, <1>6
  <2>2. t \o s \in Seq(S)
    BY ConcatProperties
  <2>3. QED
    BY <2>1, <2>2
<1>8. ASSUME NEW c \in ToSet(calls)
      PROVE  c \in S
  <2>1. PICK i \in DOMAIN calls : c = calls[i]
    BY DEF ToSet
  <2>2. i \in 1..Len(calls)
    BY <1>7, LenProperties
  <2>3. QED
    BY <1>7, <2>1, <2>2, ElementOfSeq
<1>9. QED
  BY <1>4, <1>8

\* What is left of a plan is part of it.
LEMMA CallTaken ==
  ASSUME NEW X, NEW s \in Seq(X), s # <<>>
  PROVE  Head(s) \in ToSet(s) /\ ToSet(Tail(s)) \subseteq ToSet(s)
<1>1. PICK n \in Nat : n = Len(s) /\ n >= 1 /\ DOMAIN s = 1..n
  BY LenProperties, EmptySeq
<1>2. PICK r \in Seq(X) : r = Tail(s)
  BY HeadTailProperties
<1>3. Len(r) = n - 1 /\ \A i \in 1..Len(r) : r[i] = s[i + 1]
  BY <1>1, <1>2, HeadTailProperties
<1>4. ASSUME NEW i \in DOMAIN r
      PROVE  r[i] \in ToSet(s)
  <2>1. i \in 1..Len(r)
    BY LenProperties
  <2>2. i + 1 \in DOMAIN s
    BY <1>1, <1>3, <2>1
  <2>3. QED
    BY <1>3, <2>1, <2>2 DEF ToSet
<1>5. Head(s) \in ToSet(s)
  <2>1. 1 \in DOMAIN s
    BY <1>1
  <2>2. Head(s) = s[1]
    OBVIOUS
  <2>3. QED
    BY <2>1, <2>2 DEF ToSet
<1>6. QED
  BY <1>2, <1>4, <1>5 DEF ToSet

\* A plan comes to nothing or to a journey, and nothing is driven meanwhile.
LEMMA PlanningOnStreets ==
  ASSUME JInv, JInv', StreetInv,
         \/ \E journey \in {"toCustomer", "toParking"} : Dispatch(journey)
         \/ Replan \/ Begin \/ Searches \/ ComeToNothing
  PROVE  StreetInv'
<1>1. UNCHANGED <<world, vehicle>>
  BY DEF Dispatch, Replan, Begin, Searches, Skip, Settle, Improve, PassBy, Finish, ComeToNothing
<1>2. UNCHANGED <<graph, at, path, node>>
  BY <1>1 DEF world, vehicle
<1>3. OnStreets(Driven(at[1], path))' /\ Whereabouts'
  BY <1>1, <1>2, StayedPut
<1>4. /\ purpose = "nothing" => phase = "idle" /\ tries = <<>>
      /\ purpose' = "nothing" => phase' = "idle" /\ tries' = <<>>
      /\ purpose' \in {"nothing", "toCustomer", "toParking", "trip", "replan"}
      /\ purpose \in {"nothing", "toCustomer", "toParking", "trip", "replan"}
  BY DEF JInv, VehicleInv
<1>5. /\ purpose = "replan" => path # <<>>
      /\ purpose \in {"toCustomer", "toParking", "trip"} => path = <<>>
      /\ purpose # "nothing" => \A c \in ToSet(tries) : c.from = Origin
      /\ phase # "idle" => purpose # "nothing" /\ call.from = Origin
  BY DEF StreetInv, PlansFromOrigin
<1>6. ASSUME NEW journey \in {"toCustomer", "toParking"}, Dispatch(journey)
      PROVE  PlansFromOrigin'
  <2>1. /\ purpose = "nothing" /\ path = <<>> /\ purpose' = journey /\ tries' = Plan(node)
        /\ UNCHANGED search
    BY <1>6 DEF Dispatch
  <2>2. phase' = "idle" /\ Origin' = node
    BY <1>2, <1>4, <2>1 DEF Origin, search
  <2>3. \A c \in ToSet(tries') : c.from = Origin'
    BY <2>1, <2>2, PlanStartsHere
  <2>4. QED
    BY <1>2, <2>1, <2>2, <2>3 DEF PlansFromOrigin
<1>7. ASSUME Replan
      PROVE  PlansFromOrigin'
  <2>1. /\ purpose = "nothing" /\ path # <<>> /\ purpose' = "replan" /\ tries' = Plan(path[1].node)
        /\ UNCHANGED search
    BY <1>7 DEF Replan
  <2>2. phase' = "idle" /\ Origin' = path[1].node
    BY <1>2, <1>4, <2>1 DEF Origin, search
  <2>3. \A c \in ToSet(tries') : c.from = Origin'
    BY <2>1, <2>2, PlanStartsHere
  <2>4. QED
    BY <1>2, <2>1, <2>2, <2>3 DEF PlansFromOrigin
<1>8. ASSUME Begin
      PROVE  PlansFromOrigin'
  <2>1. tries # <<>> /\ call' = Head(tries) /\ tries' = Tail(tries) /\ UNCHANGED purpose
    BY <1>8 DEF Begin
  <2>2. Head(tries) \in ToSet(tries) /\ ToSet(Tail(tries)) \subseteq ToSet(tries)
    BY <2>1, CallTaken DEF JInv, SearchInv
  <2>3. purpose # "nothing" /\ Origin' = Origin
    BY <1>2, <1>4, <2>1 DEF Origin
  <2>4. call'.from = Origin' /\ \A c \in ToSet(tries') : c.from = Origin'
    BY <1>5, <2>1, <2>2, <2>3
  <2>5. QED
    BY <1>2, <1>5, <2>1, <2>3, <2>4 DEF PlansFromOrigin
<1>9. ASSUME Searches
      PROVE  PlansFromOrigin'
  <2>1. UNCHANGED <<purpose, tries, call>> /\ phase # "idle"
    BY <1>9 DEF Searches, Skip, Settle, Improve, PassBy, Finish, Choosing
  <2>2. Origin' = Origin
    BY <1>2, <2>1 DEF Origin
  <2>3. QED
    BY <1>2, <1>5, <2>1, <2>2 DEF PlansFromOrigin
<1>10. ASSUME ComeToNothing
      PROVE  PlansFromOrigin'
  <2>1. /\ purpose' = (IF tries = <<>> THEN "nothing" ELSE purpose) /\ tries' = tries
        /\ phase' = "idle"
    BY <1>10 DEF ComeToNothing, Return
  <2>2. CASE purpose' = "nothing"
    BY <2>1, <2>2 DEF PlansFromOrigin
  <2>3. CASE purpose' # "nothing"
    <3>1. purpose' = purpose
      BY <2>1, <2>3
    <3>2. Origin' = Origin
      BY <1>2, <3>1 DEF Origin
    <3>3. QED
      BY <1>2, <1>5, <2>1, <2>3, <3>1, <3>2 DEF PlansFromOrigin
  <2>4. QED
    BY <2>2, <2>3
<1>11. PlansFromOrigin'
  BY <1>6, <1>7, <1>8, <1>9, <1>10
<1>12. QED
  BY <1>3, <1>11 DEF StreetInv

\* The vehicle is driven on.
LEMMA DrivingOnStreets ==
  ASSUME JInv, JInv', StreetInv, Move \/ PassPoint \/ EndRoad \/ Handover \/ Park
  PROVE  StreetInv'
<1>1. /\ purpose = "nothing" /\ path # <<>> /\ UNCHANGED <<world, search>>
  BY DEF Move, PassPoint, EndRoad, Handover, Park, Reach
<1>2. /\ UNCHANGED <<extract, graph, phase>> /\ Loaded /\ path \in Seq(Steps) /\ path' \in Seq(Steps)
      /\ phase = "idle" /\ phase' = "idle"
  <2>1. UNCHANGED <<extract, graph, phase>> /\ Steps' = Steps
    BY <1>1, PlacesKept DEF world, search
  <2>2. QED
    BY <1>1, <2>1 DEF JInv, SearchInv, VehicleInv
<1>3. CASE Move
  <2>1. at' = <<at[1], Head(Points(path[1]))>> /\ Len(at) = 1 /\ UNCHANGED <<path, purpose>>
    BY <1>3 DEF Move
  <2>2. PICK h, q \in DOMAIN Place : h = at[1] /\ q = Ahead(path)[1] /\ Head(Points(path[1])) = q
    <3>1. at[1] \in DOMAIN Place
      BY DEF StreetInv, Whereabouts
    <3>2. Ahead(path)[1] \in DOMAIN Place /\ Head(Points(path[1])) = Ahead(path)[1]
      BY <1>1, <1>2, NextPoint
    <3>3. QED
      BY <3>1, <3>2
  <2>3. at' = <<h, q>> /\ at'[1] = h
    BY <2>1, <2>2
  <2>4. Ahead(path)' = Ahead(path)
    BY <1>2, <2>1 DEF Ahead, Points
  <2>5. PICK d : d = Driven(at[1], path)
    OBVIOUS
  <2>6. Driven(at[1], path)' = d
    BY <2>2, <2>3, <2>4, <2>5 DEF Driven
  <2>7. OnStreets(d)'
    BY <1>2, <2>5, OnStreetsKept DEF StreetInv
  <2>8. OnStreets(Driven(at[1], path))'
    BY <2>6, <2>7 DEF OnStreets
  <2>9. Whereabouts'
    BY <1>1, <2>1, <2>2, <2>3, <2>4 DEF Whereabouts
  <2>10. PlansFromOrigin'
    BY <1>1, <1>2, <2>1 DEF PlansFromOrigin
  <2>11. QED
    BY <2>8, <2>9, <2>10 DEF StreetInv
<1>4. CASE PassPoint
  <2>1. /\ path[1].via # <<>> /\ at' = <<path[1].via[1]>> /\ path' = [path EXCEPT ![1].via = Tail(@)]
        /\ UNCHANGED purpose
    BY <1>4 DEF PassPoint
  <2>2. PICK p \in Seq(Steps) : p = path'
    BY <1>2
  <2>3. /\ p # <<>> /\ Ahead(path) # <<>> /\ Ahead(p) = Tail(Ahead(path))
        /\ at' = <<Ahead(path)[1]>>
    BY <1>1, <1>2, <2>1, <2>2, Shortened
  <2>4. OnStreets(Driven(at[1], path))' /\ \E a \in DOMAIN Place : at' = <<a>>
    BY <1>1, <2>2, <2>3, OnePointDriven
  <2>5. Whereabouts'
    BY <2>2, <2>3, <2>4 DEF Whereabouts
  <2>6. PlansFromOrigin'
    BY <1>1, <1>2, <2>1 DEF PlansFromOrigin
  <2>7. QED
    BY <2>4, <2>5, <2>6 DEF StreetInv
<1>5. CASE EndRoad \/ Handover \/ Park
  <2>1. Reach
    BY <1>5 DEF EndRoad, Handover, Park
  <2>2. at' = <<graph.positions[path[1].node]>> /\ node' = path[1].node /\ path' = Tail(path)
    BY <2>1 DEF Reach
  <2>3. PICK p \in Seq(Steps) : p = path' /\ Len(p) = Len(path) - 1
    BY <1>2, <2>1, ReachFacts
  <2>4. Ahead(path) # <<>> /\ Ahead(p) = Tail(Ahead(path)) /\ at' = <<Ahead(path)[1]>>
    BY <2>1, <2>2, <2>3, ReachFacts
  <2>5. OnStreets(Driven(at[1], path))' /\ \E a \in DOMAIN Place : at' = <<a>>
    BY <1>1, <2>3, <2>4, OnePointDriven
  <2>6. at' = <<graph.positions[node]>>'
    BY <1>2, <2>2
  <2>7. Whereabouts'
    BY <2>5, <2>6 DEF Whereabouts
  <2>8. PlansFromOrigin'
    <3>1. CASE EndRoad \/ Park
      <4>1. purpose' = "nothing"
        BY <1>1, <3>1 DEF EndRoad, Park
      <4>2. QED
        BY <1>2, <4>1 DEF PlansFromOrigin
    <3>2. CASE Handover
      <4>1. /\ Len(path) = 1 /\ purpose' = "trip"
            /\ tries' \in {Plan(node'), Exit(node') \o Plan(node')}
        BY <3>2 DEF Handover
      <4>2. path' = <<>>
        BY <2>3, <4>1, EmptySeq
      <4>3. Origin' = node'
        BY <4>1 DEF Origin
      <4>4. PICK n : n = node'
        OBVIOUS
      <4>5. PICK calls : calls = tries'
        OBVIOUS
      <4>6. calls \in {Plan(n), Exit(n) \o Plan(n)}
        <5>1. Plan(n)' = Plan(n) /\ Exit(n)' = Exit(n)
          BY <1>2 DEF Plan, Exit
        <5>2. QED
          BY <4>1, <4>4, <4>5, <5>1 DEF Plan, Exit, Calls
      <4>7. \A c \in ToSet(calls) : c.from = n
        BY <4>6, PlanStartsHere
      <4>8. QED
        BY <1>2, <4>1, <4>2, <4>3, <4>4, <4>5, <4>7 DEF PlansFromOrigin
    <3>3. QED
      BY <1>5, <3>1, <3>2
  <2>9. QED
    BY <2>5, <2>7, <2>8 DEF StreetInv
<1>6. QED
  BY <1>3, <1>4, <1>5

\* A journey is set out on.
LEMMA SettingOutOnStreets ==
  ASSUME JInv, StreetInv, SetOut
  PROVE  StreetInv'
<1>1. purpose' = "nothing" /\ phase' = "idle"
  BY DEF SetOut, Return
<1>2. PlansFromOrigin'
  BY <1>1 DEF PlansFromOrigin
<1>3. QED
  BY <1>2, JourneyOnStreets DEF StreetInv

\* The invariant holds at the start,
LEMMA StartOnStreets == Init /\ JInv => StreetInv
<1> SUFFICES ASSUME Init, JInv
             PROVE  StreetInv
  OBVIOUS
<1>1. /\ path = <<>> /\ at = <<graph.positions[node]>> /\ purpose = "nothing" /\ phase = "idle"
  BY DEF Init, Idle
<1>2. PICK h \in DOMAIN Place : h = graph.positions[node]
  BY GraphFacts, RoadsOfNetwork DEF JInv, SearchInv, VehicleInv, Loaded
<1>3. PICK one \in Seq(DOMAIN Place) : one = <<h>>
  <2>1. <<h>> \in Seq(DOMAIN Place)
    OBVIOUS
  <2>2. QED
    BY <2>1
<1>4. Driven(at[1], path) = one
  <2>1. one \o <<>> = one
    BY ConcatEmptySeq
  <2>2. at[1] = h
    BY <1>1, <1>2
  <2>3. QED
    BY <1>1, <1>3, <2>1, <2>2, NothingAhead DEF Driven
<1>5. OnStreets(Driven(at[1], path))
  BY <1>3, <1>4, OnePlace
<1>6. Whereabouts
  BY <1>1, <1>2 DEF Whereabouts
<1>7. PlansFromOrigin
  BY <1>1 DEF PlansFromOrigin
<1>8. QED
  BY <1>5, <1>6, <1>7 DEF StreetInv

\* every step keeps it,
LEMMA StepOnStreets == JInv /\ JInv' /\ StreetInv /\ [Next]_vars => StreetInv'
<1> SUFFICES ASSUME JInv, JInv', StreetInv, [Next]_vars
             PROVE  StreetInv'
  OBVIOUS
<1>1. CASE \/ \E journey \in {"toCustomer", "toParking"} : Dispatch(journey)
           \/ Replan \/ Begin \/ Skip \/ Settle \/ Improve \/ PassBy \/ Finish \/ ComeToNothing
  BY <1>1, PlanningOnStreets DEF Searches
<1>2. CASE SetOut
  BY <1>2, SettingOutOnStreets
<1>3. CASE Move \/ PassPoint \/ EndRoad \/ Handover \/ Park
  BY <1>3, DrivingOnStreets
<1>4. CASE UNCHANGED vars
  <2>1. UNCHANGED <<world, at, path, node, purpose, tries, phase, call>>
    BY <1>4 DEF vars, vehicle, search
  <2>2. OnStreets(Driven(at[1], path))' /\ Whereabouts'
    BY <2>1, StayedPut
  <2>3. PlansFromOrigin'
    BY <2>1 DEF StreetInv, PlansFromOrigin, Origin
  <2>4. QED
    BY <2>2, <2>3 DEF StreetInv
<1>5. QED
  BY <1>1, <1>2, <1>3, <1>4 DEF Next

\* and it says what is promised.
LEMMA OnStreetsIsEnough == JInv /\ StreetInv => StaysOnStreets
<1> SUFFICES ASSUME JInv, StreetInv
             PROVE  StaysOnStreets
  OBVIOUS
<1>1. PICK d : d = Driven(at[1], path)
  OBVIOUS
<1>2. \A i \in 1..Len(d) - 1 : FollowsStreet(d[i], d[i + 1])
  BY <1>1 DEF StreetInv, OnStreets
<1>3. ASSUME path # <<>>, Len(at) = 2
      PROVE  at[2] = d[2]
  <2>1. PICK a, b \in DOMAIN Place : at = <<a, b>> /\ b = Ahead(path)[1]
    <3>1. \A a \in DOMAIN Place : at # <<a>>
      BY <1>3
    <3>2. QED
      BY <3>1 DEF StreetInv, Whereabouts
  <2>2. PICK t \in Seq(DOMAIN Place) : t = Ahead(path) /\ t # <<>>
    BY <1>3, NextPoint, AheadType DEF JInv, SearchInv, VehicleInv
  <2>3. d = <<a>> \o t
    BY <1>1, <2>1, <2>2 DEF Driven
  <2>4. PICK m \in Nat : m = Len(t) /\ 1 \in 1..m
    BY <2>2, LenProperties, EmptySeq
  <2>5. (<<a>> \o t)[1 + 1] = t[1]
    BY <2>4, OneAndMore
  <2>6. QED
    BY <2>1, <2>2, <2>3, <2>5
<1>4. QED
  BY <1>1, <1>2, <1>3 DEF StaysOnStreets

\* Whatever a vehicle has yet to drive follows streets of the extract, in a direction they
\* may be driven in and through every bend that could be seen, however often its journey
\* was revised (vehicle.go, advance and replan; graph.go, Path).
THEOREM StreetsKeptTo == Spec => []StaysOnStreets
<1>1. Init => StreetInv
  BY StartHolds, StartOnStreets
<1>2. JInv /\ JInv' /\ StreetInv /\ [Next]_vars => StreetInv'
  BY StepOnStreets
<1>3. JInv /\ StreetInv => StaysOnStreets
  BY OnStreetsIsEnough
<1>4. QED
  BY <1>1, <1>2, <1>3, JourneysHold, PTL DEF Spec
-----------------------------------------------------------------------------
(* The reference: what streets lead to.                                    *)

\* Nothing leads out of a set.
Closed(links, T) == \A l \in links : l[1] \in T => l[2] \in T

\* What is reached is the least set that holds the places started from and that
\* nothing leads out of.
LEMMA ReachedHolds ==
  ASSUME NEW links, NEW all, IsFiniteSet(all), NEW from \in SUBSET all,
         \A l \in links : l[2] \in all
  PROVE  /\ from \subseteq Reached(links, from) /\ Reached(links, from) \subseteq all
         /\ Closed(links, Reached(links, from))
         /\ \A T : from \subseteq T /\ Closed(links, T) => Reached(links, from) \subseteq T
<1> DEFINE U == from \cup {l[2] : l \in links}
           D == SUBSET U
           More(S) == {l[2] : l \in {x \in links : x[1] \in S}}
           m == [S \in D |-> Cardinality(U \ S)]
           stop == {S \in D : More(S) \subseteq S}
           next == [S \in D |-> S \cup More(S)]
           base == [S \in D |-> S]
           step == [x \in D \X D |-> x[2]]
           Meets(f) == f = [S \in D |-> IF More(S) \subseteq S THEN S ELSE f[S \cup More(S)]]
           R == CHOOSE f : Meets(f)
<1>1. IsFiniteSet(U) /\ U \subseteq all
  <2>1. U \in SUBSET all
    OBVIOUS
  <2>2. QED
    BY <2>1, FS_Subset
<1>2. \A S \in D : More(S) \subseteq U /\ S \cup More(S) \in D
  OBVIOUS
<1>3. \A S \in D : IsFiniteSet(U \ S) /\ Cardinality(U \ S) \in Nat
  <2>1. ASSUME NEW S \in D
        PROVE  IsFiniteSet(U \ S) /\ Cardinality(U \ S) \in Nat
    <3>1. U \ S \in SUBSET U
      OBVIOUS
    <3>2. IsFiniteSet(U \ S)
      BY <1>1, <3>1, FS_Subset
    <3>3. QED
      BY <3>2, FS_CardinalityType
  <2>2. QED
    BY <2>1
<1>4. \A S \in D \ stop : m[next[S]] < m[S]
  <2> SUFFICES ASSUME NEW S \in D, S \notin stop
               PROVE  m[next[S]] < m[S]
    OBVIOUS
  <2>1. PICK x \in More(S) : x \notin S
    OBVIOUS
  <2>2. next[S] = S \cup More(S) /\ next[S] \in D
    BY <1>2
  <2> DEFINE A == U \ S
             B == U \ (S \cup More(S))
  <2>3. B \in SUBSET A /\ x \in A /\ x \notin B
    BY <1>2, <2>1
  <2>4. IsFiniteSet(A) /\ Cardinality(A) \in Nat
    BY <1>3
  <2>5. m[S] = Cardinality(A) /\ m[next[S]] = Cardinality(B)
    BY <2>2
  <2> HIDE DEF A, B, m, next
  <2>6. Cardinality(B) <= Cardinality(A) /\ Cardinality(B) # Cardinality(A)
    BY <2>3, <2>4, FS_Subset
  <2>7. IsFiniteSet(B) /\ Cardinality(B) \in Nat
    BY <2>3, <2>4, FS_Subset, FS_CardinalityType
  <2>8. QED
    BY <2>4, <2>5, <2>6, <2>7
<1>5. m \in [D -> Nat] /\ stop \in SUBSET D /\ next \in [D -> D]
  BY <1>2, <1>3
<1>6. base \in [D -> D] /\ step \in [D \X D -> D]
  OBVIOUS
<1>7. PICK f \in [D -> D] : \A S \in D : Unfolds(f, S, stop, next, base, step)
  <2> HIDE DEF D, stop, next, base, step, m
  <2>1. QED
    BY <1>4, <1>5, <1>6, Recursion
<1>8. ASSUME NEW S \in D
      PROVE  f[S] = IF More(S) \subseteq S THEN S ELSE f[S \cup More(S)]
  <2>1. CASE More(S) \subseteq S
    <3>1. S \in stop /\ base[S] = S
      BY <2>1
    <3>2. QED
      BY <1>7, <2>1, <3>1 DEF Unfolds
  <2>2. CASE ~(More(S) \subseteq S)
    <3>1. S \notin stop /\ next[S] = S \cup More(S) /\ next[S] \in D
      BY <1>2, <2>2
    <3>2. f[S] = step[<<S, f[next[S]]>>] /\ f[next[S]] \in D
      BY <1>7, <3>1 DEF Unfolds
    <3>3. step[<<S, f[next[S]]>>] = f[next[S]]
      BY <3>2
    <3>4. QED
      BY <2>2, <3>1, <3>2, <3>3, ZenonT(30)
  <2>3. QED
    BY <2>1, <2>2
<1>9. Meets(f)
  <2> HIDE DEF D, More
  <2>1. QED
    BY <1>7, <1>8
<1>10. Meets(R)
  <2> HIDE DEF Meets
  <2>1. QED
    BY <1>9 DEF R
<1>11. Reached(links, from) = R[from]
  BY DEF Reached
<1>12. \A S \in D : R[S] = IF More(S) \subseteq S THEN S ELSE R[S \cup More(S)]
  <2> HIDE DEF D, More, R
  <2>1. QED
    BY <1>10
<1> HIDE DEF R
<1> DEFINE Good == {k \in Nat : \A S \in D : Cardinality(U \ S) <= k =>
                      /\ S \subseteq R[S] /\ R[S] \in D
                      /\ Closed(links, R[S])
                      /\ \A T : S \subseteq T /\ Closed(links, T) => R[S] \subseteq T}
<1>13. ASSUME NEW S \in D, More(S) \subseteq S
       PROVE  /\ S \subseteq R[S] /\ R[S] \in D
              /\ Closed(links, R[S])
              /\ \A T : S \subseteq T /\ Closed(links, T) => R[S] \subseteq T
  <2>1. R[S] = S
    BY <1>12, <1>13
  <2>2. Closed(links, S)
    BY <1>13 DEF Closed
  <2>3. QED
    BY <2>1, <2>2
<1>14. ASSUME NEW S \in D, ~(More(S) \subseteq S)
       PROVE  /\ S \cup More(S) \in D /\ R[S] = R[S \cup More(S)]
              /\ Cardinality(U \ (S \cup More(S))) < Cardinality(U \ S)
  <2>1. S \in D \ stop
    BY <1>14
  <2>2. m[next[S]] < m[S]
    BY <1>4, <2>1
  <2>3. S \cup More(S) \in D /\ R[S] = R[S \cup More(S)]
    BY <1>2, <1>12, <1>14
  <2>4. QED
    BY <2>2, <2>3
<1>15. 0 \in Good
  <2> SUFFICES ASSUME NEW S \in D, Cardinality(U \ S) <= 0
               PROVE  /\ S \subseteq R[S] /\ R[S] \in D
                      /\ Closed(links, R[S])
                      /\ \A T : S \subseteq T /\ Closed(links, T) => R[S] \subseteq T
    OBVIOUS
  <2>1. More(S) \subseteq S
    <3>1. SUFFICES ASSUME ~(More(S) \subseteq S) PROVE FALSE
      OBVIOUS
    <3> DEFINE a == Cardinality(U \ S)
               b == Cardinality(U \ (S \cup More(S)))
    <3>2. S \cup More(S) \in D /\ b < a
      BY <1>14, <3>1
    <3>3. a \in Nat /\ b \in Nat /\ a <= 0
      BY <1>3, <3>2
    <3> HIDE DEF a, b
    <3>4. QED
      BY <3>2, <3>3
  <2>2. QED
    BY <1>13, <2>1
<1>16. ASSUME NEW k \in Nat, k \in Good
       PROVE  k + 1 \in Good
  <2>0. k + 1 \in Nat
    OBVIOUS
  <2> SUFFICES ASSUME NEW S \in D, Cardinality(U \ S) <= k + 1
               PROVE  /\ S \subseteq R[S] /\ R[S] \in D
                      /\ Closed(links, R[S])
                      /\ \A T : S \subseteq T /\ Closed(links, T) => R[S] \subseteq T
    BY <2>0
  <2>1. CASE More(S) \subseteq S
    BY <1>13, <2>1
  <2>2. CASE ~(More(S) \subseteq S)
    <3> DEFINE N == S \cup More(S)
               a == Cardinality(U \ S)
               b == Cardinality(U \ N)
    <3>1. N \in D /\ R[S] = R[N] /\ b < a
      BY <1>14, <2>2
    <3>2. a \in Nat /\ b \in Nat /\ a <= k + 1
      BY <1>3, <3>1
    <3>3. b <= k
      <4> HIDE DEF a, b
      <4>1. QED
        BY <3>1, <3>2
    <3>4. /\ N \subseteq R[N] /\ R[N] \in D
          /\ Closed(links, R[N])
          /\ \A T : N \subseteq T /\ Closed(links, T) => R[N] \subseteq T
      <4> HIDE DEF N, D
      <4>1. QED
        BY <1>16, <3>1, <3>3
    <3>5. S \subseteq N
      OBVIOUS
    <3>6. ASSUME NEW T, S \subseteq T, Closed(links, T)
          PROVE  N \subseteq T
      BY <3>6 DEF Closed
    <3> HIDE DEF N, D
    <3>7. QED
      BY <3>1, <3>4, <3>5, <3>6
  <2>3. QED
    BY <2>1, <2>2
<1>17. \A k \in Nat : k \in Good
  <2> HIDE DEF Good
  <2>1. QED
    BY <1>15, <1>16, Naturally
<1>18. /\ from \subseteq R[from] /\ R[from] \in D
       /\ Closed(links, R[from])
       /\ \A T : from \subseteq T /\ Closed(links, T) => R[from] \subseteq T
  <2>1. from \in D
    OBVIOUS
  <2>2. Cardinality(U \ from) \in Nat
    BY <1>3, <2>1
  <2>3. Cardinality(U \ from) \in Good
    <3> HIDE DEF Good
    <3>1. QED
      BY <1>17, <2>2
  <2>4. QED
    BY <2>1, <2>2, <2>3, SMTT(30)
<1>19. R[from] \subseteq all
  BY <1>1, <1>18
<1>20. QED
  BY <1>11, <1>18, <1>19

\* The extract lets a vehicle go from p to q, the point next to it on a street.
StreetFrom(e, p, q) ==
  \E i, j \in DOMAIN e.nodes :
    Drivable(e, i, j) /\ i - j \in {1, -1} /\ p = e.nodes[i] /\ q = e.nodes[j]

\* A way leads from p to q, the point next to it.
NextOn(w, p, q) ==
  \E k \in 1..(Len(w.nodes) - 1) :
    \/ w.nodes[k] = p /\ w.nodes[k + 1] = q
    \/ w.nodes[k] = q /\ w.nodes[k + 1] = p /\ ~w.oneway

\* A street leads from a point to the next.
LEMMA StreetsFacts ==
  /\ \A p, q : <<p, q>> \in Streets <=> \E e \in ToSet(extract) : StreetFrom(e, p, q)
  /\ \A l \in Streets : l = <<l[1], l[2]>>
<1> DEFINE Pairs(e) == {x \in (DOMAIN e.nodes) \X (DOMAIN e.nodes) :
                          Drivable(e, x[1], x[2]) /\ x[1] - x[2] \in {1, -1}}
           Of(e) == {<<e.nodes[s[1]], e.nodes[s[2]]>> : s \in Pairs(e)}
<1>1. Streets = UNION {Of(e) : e \in ToSet(extract)}
  BY Zenon DEF Streets
<1>2. ASSUME NEW e
      PROVE  /\ \A p, q : <<p, q>> \in Of(e) <=> StreetFrom(e, p, q)
             /\ \A l \in Of(e) : l = <<l[1], l[2]>>
  <2>1. ASSUME NEW i \in DOMAIN e.nodes, NEW j \in DOMAIN e.nodes
        PROVE  <<i, j>> \in Pairs(e) <=> Drivable(e, i, j) /\ i - j \in {1, -1}
    OBVIOUS
  <2>2. \A s \in Pairs(e) : s[1] \in DOMAIN e.nodes /\ s[2] \in DOMAIN e.nodes /\ s = <<s[1], s[2]>>
    OBVIOUS
  <2> HIDE DEF Pairs
  <2>3. ASSUME NEW p, NEW q, <<p, q>> \in Of(e)
        PROVE  StreetFrom(e, p, q)
    <3>1. PICK s \in Pairs(e) : <<p, q>> = <<e.nodes[s[1]], e.nodes[s[2]]>>
      BY <2>3
    <3>2. PICK i, j \in DOMAIN e.nodes : s = <<i, j>> /\ i = s[1] /\ j = s[2]
      BY <2>2
    <3>3. Drivable(e, i, j) /\ i - j \in {1, -1}
      BY <2>1, <3>2
    <3>4. p = e.nodes[i] /\ q = e.nodes[j]
      BY <3>1, <3>2
    <3>5. QED
      BY <3>3, <3>4 DEF StreetFrom
  <2>4. ASSUME NEW p, NEW q, StreetFrom(e, p, q)
        PROVE  <<p, q>> \in Of(e)
    <3>1. PICK i, j \in DOMAIN e.nodes :
            Drivable(e, i, j) /\ i - j \in {1, -1} /\ p = e.nodes[i] /\ q = e.nodes[j]
      BY <2>4 DEF StreetFrom
    <3>2. PICK s : s = <<i, j>>
      OBVIOUS
    <3>3. s \in Pairs(e) /\ <<p, q>> = <<e.nodes[s[1]], e.nodes[s[2]]>>
      BY <2>1, <3>1, <3>2
    <3>4. QED
      BY <3>3
  <2>5. \A l \in Of(e) : l = <<l[1], l[2]>>
    OBVIOUS
  <2> HIDE DEF Of
  <2>6. QED
    BY <2>3, <2>4, <2>5
<1> HIDE DEF Of
<1>3. QED
  BY <1>1, <1>2

\* Whether the extract lets a vehicle go on from a point to the next, and back.
LEMMA DrivableNext ==
  ASSUME NEW e \in Elements, NEW n \in Nat, n = Len(e.nodes), NEW lo \in 1..(n - 1)
  PROVE  /\ Drivable(e, lo, lo + 1) <=>
              /\ n = Len(e.known) /\ e.known[lo] /\ e.known[lo + 1]
              /\ e.oneway # "-1"
         /\ Drivable(e, lo + 1, lo) <=>
              /\ n = Len(e.known) /\ e.known[lo] /\ e.known[lo + 1]
              /\ e.oneway = "-1" \/ ~Directed(e)
<1>1. PICK hi \in Nat : hi = lo + 1 /\ lo \in Nat /\ lo < hi /\ ~(hi < lo) /\ hi # lo
  OBVIOUS
<1>2. /\ Min({lo, hi}) = lo /\ Max({lo, hi}) = hi /\ Min({hi, lo}) = lo /\ Max({hi, lo}) = hi
  BY <1>1, MinMaxOfTwo
<1>3. \A k : k \in lo..hi <=> k = lo \/ k = hi
  BY <1>1
<1>4. (\A k \in lo..hi : e.known[k]) <=> e.known[lo] /\ e.known[hi]
  BY <1>3, Zenon
<1>5. Drivable(e, lo, hi) <=> /\ n = Len(e.known) /\ e.known[lo] /\ e.known[hi]
                              /\ e.oneway # "-1"
  BY <1>1, <1>2, <1>4 DEF Drivable
<1>6. Drivable(e, hi, lo) <=> /\ n = Len(e.known) /\ e.known[lo] /\ e.known[hi]
                              /\ e.oneway = "-1" \/ ~Directed(e)
  BY <1>1, <1>2, <1>4 DEF Drivable, Directed
<1>7. QED
  BY <1>1, <1>5, <1>6

\* Two neighbouring points whose coordinates came back lie in one run.
LEMMA RunAround ==
  ASSUME NEW e \in Elements, NEW n \in Nat, n = Len(e.nodes), NEW lo \in 1..(n - 1),
         e.known[lo], e.known[lo + 1]
  PROVE  \E run \in Runs(e) : \E a, b \in 1..n : run = <<a, b>> /\ a <= lo /\ lo + 1 <= b
<1>1. DOMAIN e.nodes = 1..n
  <2>1. e.nodes \in Seq(DOMAIN Place)
    BY DEF Elements
  <2>2. QED
    BY <2>1, LenProperties
<1>2. lo \in Nat /\ 1 <= lo /\ lo + 1 <= n /\ lo \in 1..n /\ lo + 1 \in 1..n
  OBVIOUS
<1> DEFINE Before == {a \in 1..lo : \A k \in a..lo : Known(e, k)}
           After == {b \in (lo + 1)..n : \A k \in (lo + 1)..b : Known(e, k)}
<1>3. Known(e, lo) /\ Known(e, lo + 1)
  BY <1>1, <1>2 DEF Known
<1>4. PICK a \in Before : \A c \in Before : a <= c
  <2>1. lo \in Before
    <3>1. \A k \in lo..lo : k = lo
      BY <1>2
    <3>2. lo \in 1..lo
      BY <1>2
    <3>3. QED
      BY <1>3, <3>1, <3>2
  <2>2. Before # {}
    BY <2>1
  <2>3. 1..lo \subseteq Nat
    BY <1>2
  <2>4. Before \in SUBSET Nat
    BY <2>3
  <2> HIDE DEF Before
  <2>5. QED
    BY <2>2, <2>4, LeastOf
<1>5. PICK b \in After : \A c \in After : b >= c
  <2>1. lo + 1 \in After
    <3>1. \A k \in (lo + 1)..(lo + 1) : k = lo + 1
      BY <1>2
    <3>2. lo + 1 \in (lo + 1)..n
      BY <1>2
    <3>3. QED
      BY <1>3, <3>1, <3>2
  <2>2. After \in SUBSET Nat /\ After # {} /\ After \in SUBSET ((lo + 1)..n)
    BY <1>2, <2>1
  <2>3. IsFiniteSet((lo + 1)..n)
    BY <1>2, FS_Interval
  <2> HIDE DEF After
  <2>4. IsFiniteSet(After)
    BY <2>2, <2>3, FS_Subset
  <2>5. QED
    BY <2>2, <2>4, GreatestOf
<1>6. /\ a \in Nat /\ 1 <= a /\ a <= lo /\ \A k \in a..lo : Known(e, k)
  BY <1>2, <1>4
<1>7. /\ b \in Nat /\ lo + 1 <= b /\ b <= n /\ \A k \in (lo + 1)..b : Known(e, k)
  BY <1>2, <1>5
<1>8. ~Known(e, a - 1)
  <2>1. SUFFICES ASSUME Known(e, a - 1) PROVE FALSE
    OBVIOUS
  <2>2. a - 1 \in 1..n
    BY <1>1, <2>1 DEF Known
  <2>3. a - 1 \in 1..lo /\ \A k \in (a - 1)..lo : k = a - 1 \/ k \in a..lo
    BY <1>2, <1>6, <2>2
  <2>4. a - 1 \in Before
    BY <1>6, <2>1, <2>3
  <2>5. QED
    BY <1>4, <1>6, <2>4
<1>9. ~Known(e, b + 1)
  <2>1. SUFFICES ASSUME Known(e, b + 1) PROVE FALSE
    OBVIOUS
  <2>2. b + 1 \in 1..n
    BY <1>1, <2>1 DEF Known
  <2>3. b + 1 \in (lo + 1)..n /\ \A k \in (lo + 1)..(b + 1) : k = b + 1 \/ k \in (lo + 1)..b
    BY <1>2, <1>7, <2>2
  <2>4. b + 1 \in After
    BY <1>7, <2>1, <2>3
  <2>5. QED
    BY <1>5, <1>7, <2>4
<1> HIDE DEF Before, After
<1>10. /\ a \in 1..n /\ b \in 1..n /\ a < b
       /\ \A k \in a..b : k \in a..lo \/ k \in (lo + 1)..b
  BY <1>2, <1>6, <1>7
<1>11. \A k \in a..b : Known(e, k)
  BY <1>6, <1>7, <1>10
<1>12. PICK run : run = <<a, b>>
  OBVIOUS
<1>13. run \in Runs(e)
  <2>1. run \in (DOMAIN e.nodes) \X (DOMAIN e.nodes) /\ run[1] = a /\ run[2] = b
    BY <1>1, <1>10, <1>12
  <2>2. QED
    BY <1>8, <1>9, <1>10, <1>11, <2>1 DEF Runs
<1>14. QED
  BY <1>6, <1>7, <1>10, <1>12, <1>13

\* Runs take up the streets, and nothing else: a vehicle may go from a point to
\* the next where a way that is made of a run leads.
LEMMA StretchStreets ==
  ASSUME NEW e \in Elements, NEW p, NEW q
  PROVE  StreetFrom(e, p, q) <=>
           \E run \in Runs(e) : Len(e.nodes) = Len(e.known) /\ NextOn(Stretch(e, run), p, q)
<1>1. PICK n \in Nat : n = Len(e.nodes) /\ DOMAIN e.nodes = 1..n
  <2>1. e.nodes \in Seq(DOMAIN Place)
    BY DEF Elements
  <2>2. QED
    BY <2>1, LenProperties
<1>2. ASSUME NEW run \in Runs(e), Len(e.nodes) = Len(e.known), NextOn(Stretch(e, run), p, q)
      PROVE  StreetFrom(e, p, q)
  <2> DEFINE w == Stretch(e, run)
  <2>1. PICK a, b \in 1..n : a = run[1] /\ b = run[2] /\ a < b
    <3>1. run[1] \in 1..n /\ run[2] \in 1..n /\ run[1] < run[2]
      BY <1>1, StretchFacts
    <3>2. QED
      BY <3>1
  <2>2. /\ w.oneway = Directed(e) /\ Len(w.nodes) = b - a + 1
        /\ \A k \in 1..(b - a + 1) :
             w.nodes[k] = IF e.oneway = "-1" THEN e.nodes[b + 1 - k] ELSE e.nodes[a + k - 1]
    BY <2>1, StretchFacts
  <2>3. \A k \in a..b : e.known[k]
    BY <2>1 DEF Runs, Known
  <2>4. NextOn(w, p, q)
    BY <1>2
  <2> HIDE DEF w
  <2>a. Len(w.nodes) - 1 = b - a
    BY <2>2
  <2>5. PICK k \in 1..(b - a) :
          \/ w.nodes[k] = p /\ w.nodes[k + 1] = q
          \/ w.nodes[k] = q /\ w.nodes[k + 1] = p /\ ~w.oneway
    BY <2>4, <2>a DEF NextOn
  <2>6. /\ k \in Nat /\ 1 <= k /\ k <= b - a
        /\ a \in Nat /\ b \in Nat /\ 1 <= a /\ a < b /\ b <= n
    BY <2>1
  <2>7. /\ k \in 1..(b - a + 1) /\ k + 1 \in 1..(b - a + 1)
        /\ a + k - 1 \in 1..(n - 1) /\ a + k - 1 \in a..b /\ a + k \in a..b
        /\ b - k \in 1..(n - 1) /\ b - k \in a..b /\ b - k + 1 \in a..b
    BY <2>6
  <2>8. CASE e.oneway # "-1"
    <3>1. PICK lo \in 1..(n - 1) : lo = a + k - 1 /\ lo \in Nat
      BY <2>7
    <3>2. /\ lo + 1 = a + (k + 1) - 1 /\ lo + 1 = a + k
          /\ lo \in 1..n /\ lo + 1 \in 1..n
          /\ lo - (lo + 1) = -1 /\ (lo + 1) - lo = 1
      BY <2>6, <3>1
    <3>3. w.nodes[k] = e.nodes[lo] /\ w.nodes[k + 1] = e.nodes[lo + 1]
      BY <2>2, <2>7, <2>8, <3>1, <3>2
    <3>4. n = Len(e.known) /\ e.known[lo] /\ e.known[lo + 1]
      BY <1>1, <1>2, <2>3, <2>7, <3>1, <3>2
    <3>5. Drivable(e, lo, lo + 1) /\ (~Directed(e) => Drivable(e, lo + 1, lo))
      BY <1>1, <2>8, <3>4, DrivableNext
    <3>6. CASE w.nodes[k] = p /\ w.nodes[k + 1] = q
      BY <1>1, <3>2, <3>3, <3>5, <3>6 DEF StreetFrom
    <3>7. CASE w.nodes[k] = q /\ w.nodes[k + 1] = p /\ ~w.oneway
      BY <1>1, <2>2, <3>2, <3>3, <3>5, <3>7 DEF StreetFrom
    <3>8. QED
      BY <2>5, <3>6, <3>7
  <2>9. CASE e.oneway = "-1"
    <3>1. PICK lo \in 1..(n - 1) : lo = b - k /\ lo \in Nat
      BY <2>7
    <3>2. /\ lo + 1 = b + 1 - k /\ lo = b + 1 - (k + 1)
          /\ lo \in 1..n /\ lo + 1 \in 1..n
          /\ (lo + 1) - lo = 1
      BY <2>6, <3>1
    <3>3. w.nodes[k] = e.nodes[lo + 1] /\ w.nodes[k + 1] = e.nodes[lo]
      BY <2>2, <2>7, <2>9, <3>1, <3>2
    <3>4. n = Len(e.known) /\ e.known[lo] /\ e.known[lo + 1]
      <4>1. lo \in a..b /\ lo + 1 \in a..b
        BY <2>6, <3>1
      <4>2. QED
        BY <1>1, <1>2, <2>3, <4>1
    <3>5. Drivable(e, lo + 1, lo)
      BY <1>1, <2>9, <3>4, DrivableNext
    <3>6. w.oneway
      BY <2>2, <2>9 DEF Directed
    <3>7. w.nodes[k] = p /\ w.nodes[k + 1] = q
      BY <2>5, <3>6
    <3>8. QED
      BY <1>1, <3>2, <3>3, <3>5, <3>7 DEF StreetFrom
  <2>10. QED
    BY <2>8, <2>9
<1>3. ASSUME StreetFrom(e, p, q)
      PROVE  \E run \in Runs(e) : Len(e.nodes) = Len(e.known) /\ NextOn(Stretch(e, run), p, q)
  <2>1. PICK i, j \in 1..n :
          Drivable(e, i, j) /\ i - j \in {1, -1} /\ p = e.nodes[i] /\ q = e.nodes[j]
    BY <1>1, <1>3 DEF StreetFrom
  <2>2. PICK lo \in 1..(n - 1) : \/ i = lo /\ j = lo + 1
                                 \/ i = lo + 1 /\ j = lo
    <3>1. CASE i - j = 1
      <4>1. j \in 1..(n - 1) /\ i = j + 1
        BY <2>1, <3>1
      <4>2. QED
        BY <4>1
    <3>2. CASE i - j = -1
      <4>1. i \in 1..(n - 1) /\ j = i + 1
        BY <2>1, <3>2
      <4>2. QED
        BY <4>1
    <3>3. QED
      BY <2>1, <3>1, <3>2
  <2>3. /\ n = Len(e.known) /\ e.known[lo] /\ e.known[lo + 1]
        /\ \/ i = lo /\ j = lo + 1 /\ e.oneway # "-1"
           \/ i = lo + 1 /\ j = lo /\ (e.oneway = "-1" \/ ~Directed(e))
    BY <1>1, <2>1, <2>2, DrivableNext
  <2>4. PICK run \in Runs(e) : \E a, b \in 1..n : run = <<a, b>> /\ a <= lo /\ lo + 1 <= b
    BY <1>1, <2>3, RunAround
  <2>5. PICK a, b \in 1..n : run = <<a, b>> /\ a <= lo /\ lo + 1 <= b
    BY <2>4
  <2>6. run[1] = a /\ run[2] = b
    BY <2>5
  <2> DEFINE w == Stretch(e, run)
  <2>7. /\ w.oneway = Directed(e) /\ Len(w.nodes) = b - a + 1
        /\ \A k \in 1..(b - a + 1) :
             w.nodes[k] = IF e.oneway = "-1" THEN e.nodes[b + 1 - k] ELSE e.nodes[a + k - 1]
    BY <2>6, StretchFacts
  <2> HIDE DEF w
  <2>8. NextOn(w, p, q)
    <3>1. CASE e.oneway # "-1"
      <4>1. PICK k \in Nat : k = lo - a + 1
        BY <2>5
      <4>2. /\ k \in 1..(b - a + 1) /\ k + 1 \in 1..(b - a + 1) /\ k \in 1..((b - a + 1) - 1)
            /\ a + k - 1 = lo /\ a + (k + 1) - 1 = lo + 1
        BY <2>5, <4>1
      <4>3. w.nodes[k] = e.nodes[lo] /\ w.nodes[k + 1] = e.nodes[lo + 1]
        BY <2>7, <3>1, <4>2
      <4>4. k \in 1..(Len(w.nodes) - 1)
        BY <2>7, <4>2
      <4>5. \/ w.nodes[k] = p /\ w.nodes[k + 1] = q
            \/ w.nodes[k] = q /\ w.nodes[k + 1] = p /\ ~w.oneway
        BY <2>1, <2>3, <2>7, <3>1, <4>3
      <4>6. QED
        BY <4>4, <4>5 DEF NextOn
    <3>2. CASE e.oneway = "-1"
      <4>1. PICK k \in Nat : k = b - lo
        BY <2>5
      <4>2. /\ k \in 1..(b - a + 1) /\ k + 1 \in 1..(b - a + 1) /\ k \in 1..((b - a + 1) - 1)
            /\ b + 1 - k = lo + 1 /\ b + 1 - (k + 1) = lo
        BY <2>5, <4>1
      <4>3. w.nodes[k] = e.nodes[lo + 1] /\ w.nodes[k + 1] = e.nodes[lo]
        BY <2>7, <3>2, <4>2
      <4>4. k \in 1..(Len(w.nodes) - 1)
        BY <2>7, <4>2
      <4>5. w.nodes[k] = p /\ w.nodes[k + 1] = q
        BY <2>1, <2>3, <3>2, <4>3
      <4>6. QED
        BY <4>4, <4>5 DEF NextOn
    <3>3. QED
      BY <3>1, <3>2
  <2>9. QED
    BY <1>1, <2>3, <2>8 DEF w
<1>4. QED
  BY <1>2, <1>3

\* The streets of the extract are what its ways lead along.
LEMMA StreetsAreWays ==
  ASSUME extract \in Seq(Elements), NEW p, NEW q
  PROVE  <<p, q>> \in Streets <=> \E w \in ToSet(Parse(extract)) : NextOn(w, p, q)
<1>1. /\ ToSet(extract) \subseteq Elements
      /\ \A w : w \in ToSet(Parse(extract)) <=>
                  \E e \in ToSet(extract) : \E run \in Runs(e) :
                    Len(e.nodes) = Len(e.known) /\ w = Stretch(e, run)
  BY ParseFacts
<1>2. <<p, q>> \in Streets <=> \E e \in ToSet(extract) : StreetFrom(e, p, q)
  BY StreetsFacts
<1>3. ASSUME NEW e \in ToSet(extract), StreetFrom(e, p, q)
      PROVE  \E w \in ToSet(Parse(extract)) : NextOn(w, p, q)
  <2>1. PICK run \in Runs(e) : Len(e.nodes) = Len(e.known) /\ NextOn(Stretch(e, run), p, q)
    BY <1>1, <1>3, StretchStreets
  <2>2. QED
    BY <1>1, <2>1
<1>4. ASSUME NEW w \in ToSet(Parse(extract)), NextOn(w, p, q)
      PROVE  \E e \in ToSet(extract) : StreetFrom(e, p, q)
  <2>1. PICK e \in ToSet(extract) : \E run \in Runs(e) :
               Len(e.nodes) = Len(e.known) /\ w = Stretch(e, run)
    BY <1>1
  <2>2. \E run \in Runs(e) : Len(e.nodes) = Len(e.known) /\ NextOn(Stretch(e, run), p, q)
    BY <1>4, <2>1
  <2>3. StreetFrom(e, p, q)
    BY <1>1, <2>2, StretchStreets
  <2>4. QED
    BY <2>3
<1>5. QED
  BY <1>2, <1>3, <1>4

\* The pairs are the streets that ways lead along.
LaidAlong(links, ways) ==
  /\ \A l \in links : l = <<l[1], l[2]>>
  /\ \A p, q : <<p, q>> \in links <=> \E w \in ToSet(ways) : NextOn(w, p, q)

\* A point is that of an intersection of a set.
AtCorner(n, S, p) == \E c \in S : n.positions[c] = p

\* The piece of a way between two junctions is driven along from a set of intersections.
Entered(n, S, w, i, j) ==
  AtCorner(n, S, w.nodes[i]) \/ (~w.oneway /\ AtCorner(n, S, w.nodes[j]))

\* A point lies inside of such a piece.
OnPiece(n, ways, S, p) ==
  \E l \in DOMAIN ways : \E i, j, k \in DOMAIN ways[l].nodes :
    /\ Adjacent(ways, ways[l], i, j) /\ i < k /\ k < j
    /\ p = ways[l].nodes[k] /\ Entered(n, S, ways[l], i, j)

\* The points of a set of intersections and of the pieces driven along from them.
Swept(n, ways, S) == {p \in DOMAIN Place : AtCorner(n, S, p) \/ OnPiece(n, ways, S, p)}

\* Whoever drives on along a way stays in a set that nothing leads out of.
LEMMA CarriedAlong ==
  ASSUME NEW ways \in Seq(Stretches), NEW links, LaidAlong(links, ways), NEW T, Closed(links, T),
         NEW l \in DOMAIN ways, NEW i \in DOMAIN ways[l].nodes, NEW j \in DOMAIN ways[l].nodes, i < j
  PROVE  /\ ways[l].nodes[i] \in T => ways[l].nodes[j] \in T
         /\ ways[l].nodes[j] \in T /\ ~ways[l].oneway => ways[l].nodes[i] \in T
<1>1. PICK w : w = ways[l]
  OBVIOUS
<1>2. PICK m \in Nat : m = Len(w.nodes) /\ DOMAIN w.nodes = 1..m
  BY <1>1, WayFacts
<1>3. w \in ToSet(ways)
  BY <1>1 DEF ToSet
<1>4. i \in 1..m /\ j \in 1..m /\ i \in Nat /\ j \in Nat
  BY <1>1, <1>2
<1>5. ASSUME NEW k \in 1..(m - 1)
      PROVE  /\ w.nodes[k] \in T => w.nodes[k + 1] \in T
             /\ w.nodes[k + 1] \in T /\ ~w.oneway => w.nodes[k] \in T
  <2>1. k \in 1..(Len(w.nodes) - 1)
    BY <1>2
  <2>2. NextOn(w, w.nodes[k], w.nodes[k + 1]) /\ (~w.oneway => NextOn(w, w.nodes[k + 1], w.nodes[k]))
    BY <2>1 DEF NextOn
  <2>3. PICK p, q : p = w.nodes[k] /\ q = w.nodes[k + 1]
    OBVIOUS
  <2>4. <<p, q>> \in links /\ (~w.oneway => <<q, p>> \in links)
    BY <1>3, <2>2, <2>3 DEF LaidAlong
  <2>5. \A x, y : <<x, y>> \in links /\ x \in T => y \in T
    <3>1. ASSUME NEW x, NEW y, <<x, y>> \in links, x \in T
          PROVE  y \in T
      <4>1. PICK f : f = <<x, y>> /\ f \in links /\ f[1] = x /\ f[2] = y
        BY <3>1
      <4>2. QED
        BY <3>1, <4>1 DEF Closed
    <3>2. QED
      BY <3>1
  <2>6. QED
    BY <2>3, <2>4, <2>5
<1> DEFINE Good == {d \in Nat : i + d <= m =>
                      /\ w.nodes[i] \in T => w.nodes[i + d] \in T
                      /\ w.nodes[i + d] \in T /\ ~w.oneway => w.nodes[i] \in T}
<1>6. 0 \in Good
  <2>1. i + 0 = i
    BY <1>4
  <2>2. QED
    BY <2>1
<1>7. ASSUME NEW d \in Nat, d \in Good
      PROVE  d + 1 \in Good
  <2>1. d + 1 \in Nat
    OBVIOUS
  <2>2. SUFFICES ASSUME i + (d + 1) <= m
                 PROVE  /\ w.nodes[i] \in T => w.nodes[i + (d + 1)] \in T
                        /\ w.nodes[i + (d + 1)] \in T /\ ~w.oneway => w.nodes[i] \in T
    BY <2>1
  <2>3. PICK k \in Nat : k = i + d /\ k \in 1..(m - 1) /\ k + 1 = i + (d + 1) /\ i + d <= m
    BY <1>4, <2>2
  <2>4. /\ w.nodes[i] \in T => w.nodes[k] \in T
        /\ w.nodes[k] \in T /\ ~w.oneway => w.nodes[i] \in T
    BY <1>7, <2>3
  <2>5. /\ w.nodes[k] \in T => w.nodes[k + 1] \in T
        /\ w.nodes[k + 1] \in T /\ ~w.oneway => w.nodes[k] \in T
    BY <1>5, <2>3
  <2> HIDE DEF Good
  <2>6. QED
    BY <2>3, <2>4, <2>5
<1>8. PICK d \in Nat : i + d = j
  BY <1>4
<1>9. d \in Good
  <2> HIDE DEF Good
  <2>1. QED
    BY <1>6, <1>7, Naturally
<1>10. QED
  BY <1>1, <1>4, <1>8, <1>9

\* A way goes on from every point but the last within a piece between two junctions.
LEMMA InSegment ==
  ASSUME NEW ways \in Seq(Stretches), NEW l \in DOMAIN ways, NEW m \in Nat, m = Len(ways[l].nodes),
         NEW k \in 1..(m - 1)
  PROVE  \E i, j \in 1..m : Adjacent(ways, ways[l], i, j) /\ i <= k /\ k + 1 <= j
<1>1. DOMAIN ways[l].nodes = 1..m /\ k \in 1..m /\ k # m /\ k \in Nat
  BY WayFacts
<1>2. CASE k \in Junctions(ways, ways[l])
  <2>1. PICK j \in 1..m : Adjacent(ways, ways[l], k, j)
    BY <1>1, <1>2, NextJunction
  <2>2. k < j
    BY <2>1 DEF Adjacent
  <2>3. k <= k /\ k + 1 <= j
    BY <1>1, <2>2
  <2>4. QED
    BY <1>1, <2>1, <2>3
<1>3. CASE k \notin Junctions(ways, ways[l])
  <2>1. PICK i, j \in 1..m : Adjacent(ways, ways[l], i, j) /\ i < k /\ k < j
    BY <1>1, <1>3, BetweenJunctions
  <2>2. i <= k /\ k + 1 <= j
    BY <1>1, <2>1
  <2>3. QED
    BY <2>1, <2>2
<1>4. QED
  BY <1>2, <1>3

\* A road takes whoever drives it to where the streets lead.
LEMMA RoadsFollowStreets ==
  ASSUME NEW ways \in Seq(Stretches), NEW n, BuiltOf(n, ways), NEW links, LaidAlong(links, ways),
         NEW T, Closed(links, T), NEW x \in Corners(n), NEW y \in Corners(n),
         n.positions[x] \in T, LeadsTo(n, x, y)
  PROVE  n.positions[y] \in T
<1> DEFINE S == {c \in Corners(n) : n.positions[c] \in T}
<1>1. ASSUME NEW a \in Corners(n), NEW b \in Corners(n), n.positions[a] \in T, Joins(n, a, b)
      PROVE  n.positions[b] \in T
  <2>1. PICK r \in DOMAIN n.roads : DrivenBy(n, r, a, b)
    BY <1>1 DEF Joins
  <2>2. PICK s : IsSegment(ways, s) /\ Describes(s, n, r)
    BY <2>1 DEF BuiltOf
  <2>3. PICK l \in DOMAIN ways : \E i, j \in DOMAIN ways[l].nodes :
              Adjacent(ways, ways[l], i, j) /\ s = Cut(ways[l], i, j)
    BY <2>2 DEF IsSegment
  <2>4. PICK i, j \in DOMAIN ways[l].nodes :
              Adjacent(ways, ways[l], i, j) /\ s = Cut(ways[l], i, j)
    BY <2>3
  <2>5. i < j
    BY <2>4 DEF Adjacent
  <2>6. ways[l] \in Stretches
    BY WayFacts
  <2>7. s.nodes[1] = ways[l].nodes[i] /\ Last(s.nodes) = ways[l].nodes[j] /\ s.oneway = ways[l].oneway
    BY <2>4, <2>5, <2>6, CutFacts
  <2>8. /\ n.positions[n.roads[r].a] = ways[l].nodes[i] /\ n.positions[n.roads[r].b] = ways[l].nodes[j]
        /\ n.roads[r].oneway = ways[l].oneway
    BY <2>2, <2>7 DEF Describes
  <2>9. /\ ways[l].nodes[i] \in T => ways[l].nodes[j] \in T
        /\ ways[l].nodes[j] \in T /\ ~ways[l].oneway => ways[l].nodes[i] \in T
    BY <2>5, CarriedAlong
  <2>10. QED
    BY <1>1, <2>1, <2>8, <2>9 DEF DrivenBy
<1>2. S \in SUBSET Corners(n) /\ x \in S /\ KeptIn(n, S)
  BY <1>1 DEF KeptIn
<1>3. y \in S
  BY <1>2 DEF LeadsTo
<1>4. QED
  BY <1>3

\* Intersections are points that are passed twice.
LEMMA CornersArePassedTwice ==
  ASSUME NEW ways \in Seq(Stretches), NEW n, BuiltOf(n, ways), NEW c \in Corners(n)
  PROVE  \E l \in DOMAIN ways : \E i \in Junctions(ways, ways[l]) :
           n.positions[c] = ways[l].nodes[i] /\ Passes(ways, n.positions[c]) >= 2
<1>1. n.positions[c] \in ToSet(n.positions)
  BY DEF Corners, ToSet
<1>2. PICK s : IsSegment(ways, s) /\ (n.positions[c] = s.nodes[1] \/ n.positions[c] = Last(s.nodes))
  BY <1>1 DEF BuiltOf
<1>3. PICK l \in DOMAIN ways : \E i, j \in DOMAIN ways[l].nodes :
             Adjacent(ways, ways[l], i, j) /\ s = Cut(ways[l], i, j)
  BY <1>2 DEF IsSegment
<1>4. PICK i, j \in DOMAIN ways[l].nodes :
             Adjacent(ways, ways[l], i, j) /\ s = Cut(ways[l], i, j)
  BY <1>3
<1>5. i \in Junctions(ways, ways[l]) /\ j \in Junctions(ways, ways[l]) /\ i < j
  BY <1>4 DEF Adjacent
<1>6. s.nodes[1] = ways[l].nodes[i] /\ Last(s.nodes) = ways[l].nodes[j]
  <2>1. ways[l] \in Stretches
    BY WayFacts
  <2>2. QED
    BY <1>4, <1>5, <2>1, CutFacts
<1>7. \A k \in Junctions(ways, ways[l]) : Passes(ways, ways[l].nodes[k]) >= 2
  BY DEF Junctions
<1>8. QED
  BY <1>2, <1>5, <1>6, <1>7

\* Where a piece between two junctions begins and ends is an intersection; it leads
\* from the one to the other, and back unless it is a one-way street.
LEMMA PieceJoins ==
  ASSUME NEW ways \in Seq(Stretches), NEW n, BuiltOf(n, ways),
         NEW S \in SUBSET Corners(n), KeptIn(n, S),
         NEW l \in DOMAIN ways, NEW i \in DOMAIN ways[l].nodes, NEW j \in DOMAIN ways[l].nodes,
         Adjacent(ways, ways[l], i, j)
  PROVE  /\ AtCorner(n, S, ways[l].nodes[i]) => AtCorner(n, S, ways[l].nodes[j])
         /\ AtCorner(n, S, ways[l].nodes[j]) /\ ~ways[l].oneway => AtCorner(n, S, ways[l].nodes[i])
<1>1. PICK s : s = Cut(ways[l], i, j)
  OBVIOUS
<1>2. IsSegment(ways, s)
  BY <1>1 DEF IsSegment
<1>3. s.nodes[1] = ways[l].nodes[i] /\ Last(s.nodes) = ways[l].nodes[j] /\ s.oneway = ways[l].oneway
  <2>1. ways[l] \in Stretches /\ i < j
    BY WayFacts DEF Adjacent
  <2>2. QED
    BY <1>1, <2>1, CutFacts
<1>4. CASE s.nodes[1] = Last(s.nodes)
  BY <1>3, <1>4
<1>5. CASE s.nodes[1] # Last(s.nodes)
  <2>1. PICK r \in DOMAIN n.roads : Describes(s, n, r)
    BY <1>2, <1>5 DEF BuiltOf
  <2>2. PICK a, b \in Corners(n) : a = n.roads[r].a /\ b = n.roads[r].b
    BY <2>1 DEF BuiltOf, Laid
  <2>3. /\ n.positions[a] = ways[l].nodes[i] /\ n.positions[b] = ways[l].nodes[j]
        /\ n.roads[r].oneway = ways[l].oneway
    BY <1>3, <2>1, <2>2 DEF Describes
  <2>4. Joins(n, a, b) /\ (~ways[l].oneway => Joins(n, b, a))
    BY <2>1, <2>2, <2>3 DEF Joins, DrivenBy
  <2>5. (a \in S => b \in S) /\ (b \in S /\ ~ways[l].oneway => a \in S)
    BY <2>2, <2>4 DEF KeptIn
  <2>6. \A c \in S : /\ n.positions[c] = n.positions[a] => c = a
                     /\ n.positions[c] = n.positions[b] => c = b
    BY <2>2 DEF BuiltOf, IsInjective, Corners
  <2>7. QED
    BY <2>3, <2>5, <2>6 DEF AtCorner
<1>6. QED
  BY <1>4, <1>5

\* A point inside of a piece is passed once, and so lies inside of no other.
LEMMA InsideOnce ==
  ASSUME NEW ways \in Seq(Stretches),
         NEW l \in DOMAIN ways, NEW i \in DOMAIN ways[l].nodes, NEW j \in DOMAIN ways[l].nodes,
         NEW k \in DOMAIN ways[l].nodes, Adjacent(ways, ways[l], i, j), i < k, k < j
  PROVE  /\ ~(Passes(ways, ways[l].nodes[k]) >= 2)
         /\ \A h \in DOMAIN ways : \A d \in DOMAIN ways[h].nodes :
              ways[h].nodes[d] = ways[l].nodes[k] => h = l /\ d = k
<1>1. k \notin Junctions(ways, ways[l])
  BY DEF Adjacent
<1>2. ~(Passes(ways, ways[l].nodes[k]) >= 2)
  BY <1>1 DEF Junctions
<1>3. ASSUME NEW h \in DOMAIN ways, NEW d \in DOMAIN ways[h].nodes,
             ways[h].nodes[d] = ways[l].nodes[k], h # l \/ d # k
      PROVE  FALSE
  BY <1>2, <1>3, PassedOnce
<1>4. QED
  BY <1>2, <1>3

\* Junctions on both sides of a point with none in between are the ones next to it.
LEMMA OnePiece ==
  ASSUME NEW ways, NEW w, NEW i \in Nat, NEW j \in Nat, NEW k \in Nat, NEW a \in Nat, NEW b \in Nat,
         Adjacent(ways, w, i, j), i < k, k < j, Adjacent(ways, w, a, b), a < k, k < b
  PROVE  a = i /\ b = j
<1>1. /\ i \in Junctions(ways, w) /\ j \in Junctions(ways, w)
      /\ a \in Junctions(ways, w) /\ b \in Junctions(ways, w)
      /\ ~(i < a /\ a < j) /\ ~(i < b /\ b < j) /\ ~(a < i /\ i < b) /\ ~(a < j /\ j < b)
  BY DEF Adjacent
<1>2. QED
  BY <1>1

\* What is swept of the intersections themselves is those driven from.
LEMMA SweptCorners ==
  ASSUME NEW ways \in Seq(Stretches), NEW n, BuiltOf(n, ways), NEW S \in SUBSET Corners(n),
         NEW p \in Swept(n, ways, S), Passes(ways, p) >= 2
  PROVE  AtCorner(n, S, p)
<1>1. SUFFICES ASSUME OnPiece(n, ways, S, p) PROVE FALSE
  BY DEF Swept
<1>2. PICK l \in DOMAIN ways : \E i, j, k \in DOMAIN ways[l].nodes :
        /\ Adjacent(ways, ways[l], i, j) /\ i < k /\ k < j
        /\ p = ways[l].nodes[k] /\ Entered(n, S, ways[l], i, j)
  BY <1>1 DEF OnPiece
<1>3. PICK i, j, k \in DOMAIN ways[l].nodes :
        Adjacent(ways, ways[l], i, j) /\ i < k /\ k < j /\ p = ways[l].nodes[k]
  BY <1>2
<1>4. ~(Passes(ways, ways[l].nodes[k]) >= 2)
  BY <1>3, InsideOnce
<1>5. QED
  BY <1>3, <1>4

\* What is swept inside of a piece was entered there.
LEMMA SweptInside ==
  ASSUME NEW ways \in Seq(Stretches), NEW n, BuiltOf(n, ways), NEW S \in SUBSET Corners(n),
         NEW l \in DOMAIN ways, NEW i \in DOMAIN ways[l].nodes, NEW j \in DOMAIN ways[l].nodes,
         NEW k \in DOMAIN ways[l].nodes, Adjacent(ways, ways[l], i, j), i < k, k < j,
         ways[l].nodes[k] \in Swept(n, ways, S)
  PROVE  Entered(n, S, ways[l], i, j)
<1>1. /\ ~(Passes(ways, ways[l].nodes[k]) >= 2)
      /\ \A h \in DOMAIN ways : \A d \in DOMAIN ways[h].nodes :
           ways[h].nodes[d] = ways[l].nodes[k] => h = l /\ d = k
  BY InsideOnce
<1>2. ~AtCorner(n, S, ways[l].nodes[k])
  <2>1. SUFFICES ASSUME AtCorner(n, S, ways[l].nodes[k]) PROVE FALSE
    OBVIOUS
  <2>2. PICK c \in Corners(n) : n.positions[c] = ways[l].nodes[k]
    BY <2>1 DEF AtCorner
  <2>3. Passes(ways, n.positions[c]) >= 2
    BY CornersArePassedTwice
  <2>4. QED
    BY <1>1, <2>2, <2>3
<1>3. OnPiece(n, ways, S, ways[l].nodes[k])
  BY <1>2 DEF Swept
<1>4. PICK h \in DOMAIN ways : \E a, b, d \in DOMAIN ways[h].nodes :
        /\ Adjacent(ways, ways[h], a, b) /\ a < d /\ d < b
        /\ ways[l].nodes[k] = ways[h].nodes[d] /\ Entered(n, S, ways[h], a, b)
  BY <1>3 DEF OnPiece
<1>5. PICK a, b, d \in DOMAIN ways[h].nodes :
        /\ Adjacent(ways, ways[h], a, b) /\ a < d /\ d < b
        /\ ways[l].nodes[k] = ways[h].nodes[d] /\ Entered(n, S, ways[h], a, b)
  BY <1>4
<1>6. h = l /\ d = k
  BY <1>1, <1>5
<1>7. a = i /\ b = j
  <2>1. PICK m \in Nat : DOMAIN ways[l].nodes = 1..m
    BY WayFacts
  <2>2. i \in Nat /\ j \in Nat /\ k \in Nat /\ a \in Nat /\ b \in Nat
    BY <1>6, <2>1
  <2>3. QED
    BY <1>5, <1>6, <2>2, OnePiece
<1>8. QED
  BY <1>5, <1>6, <1>7

\* Of a piece that was entered everything ahead is swept, and everything behind
\* unless it is a one-way street.
LEMMA EnteredIsSwept ==
  ASSUME NEW ways \in Seq(Stretches), NEW n, BuiltOf(n, ways),
         NEW S \in SUBSET Corners(n), KeptIn(n, S),
         NEW l \in DOMAIN ways, NEW i \in DOMAIN ways[l].nodes, NEW j \in DOMAIN ways[l].nodes,
         NEW k \in DOMAIN ways[l].nodes, Adjacent(ways, ways[l], i, j), i <= k, k <= j,
         Entered(n, S, ways[l], i, j), k = i => ~ways[l].oneway
  PROVE  ways[l].nodes[k] \in Swept(n, ways, S)
<1>1. ways[l].nodes[k] \in DOMAIN Place
  BY WayFacts
<1>2. /\ AtCorner(n, S, ways[l].nodes[i]) => AtCorner(n, S, ways[l].nodes[j])
      /\ AtCorner(n, S, ways[l].nodes[j]) /\ ~ways[l].oneway => AtCorner(n, S, ways[l].nodes[i])
  BY PieceJoins
<1>3. k = i \/ k = j \/ (i < k /\ k < j)
  <2>1. PICK m \in Nat : DOMAIN ways[l].nodes = 1..m
    BY WayFacts
  <2>2. i \in Nat /\ j \in Nat /\ k \in Nat
    BY <2>1
  <2>3. QED
    BY <2>2
<1>4. CASE k = i
  BY <1>1, <1>2, <1>4 DEF Entered, Swept
<1>5. CASE k = j
  BY <1>1, <1>2, <1>5 DEF Entered, Swept
<1>6. CASE i < k /\ k < j
  <2>1. OnPiece(n, ways, S, ways[l].nodes[k])
    BY <1>6 DEF OnPiece
  <2>2. QED
    BY <1>1, <2>1 DEF Swept
<1>7. QED
  BY <1>3, <1>4, <1>5, <1>6

\* Nothing leads out of what is swept.
LEMMA SweptIsClosed ==
  ASSUME NEW ways \in Seq(Stretches), NEW n, BuiltOf(n, ways), NEW links, LaidAlong(links, ways),
         NEW S \in SUBSET Corners(n), KeptIn(n, S)
  PROVE  Closed(links, Swept(n, ways, S))
<1> DEFINE T == Swept(n, ways, S)
<1>1. ASSUME NEW l \in DOMAIN ways, NEW m \in Nat, m = Len(ways[l].nodes), NEW k \in 1..(m - 1)
      PROVE  /\ ways[l].nodes[k] \in T => ways[l].nodes[k + 1] \in T
             /\ ways[l].nodes[k + 1] \in T /\ ~ways[l].oneway => ways[l].nodes[k] \in T
  <2>1. DOMAIN ways[l].nodes = 1..m
    BY <1>1, WayFacts
  <2>2. PICK i, j \in 1..m : Adjacent(ways, ways[l], i, j) /\ i <= k /\ k + 1 <= j
    BY <1>1, InSegment
  <2>3. PICK d \in 1..m : d = k + 1
    BY <1>1
  <2>4. /\ k \in 1..m /\ i \in Nat /\ j \in Nat /\ k \in Nat /\ d \in Nat
        /\ i <= k /\ k < j /\ i < d /\ d <= j /\ k <= j /\ i <= d /\ d # i
        /\ (k # i => i < k) /\ (d # j => d < j)
    BY <1>1, <2>2, <2>3
  <2>5. \A h \in {i, j} : Passes(ways, ways[l].nodes[h]) >= 2
    BY <2>2 DEF Adjacent, Junctions
  <2>6. ASSUME ways[l].nodes[k] \in T
        PROVE  Entered(n, S, ways[l], i, j)
    <3>1. CASE k = i
      <4>1. AtCorner(n, S, ways[l].nodes[i])
        BY <2>5, <2>6, <3>1, SweptCorners
      <4>2. QED
        BY <4>1 DEF Entered
    <3>2. CASE k # i
      BY <2>1, <2>2, <2>4, <2>6, <3>2, SweptInside
    <3>3. QED
      BY <3>1, <3>2
  <2>7. ASSUME ways[l].nodes[d] \in T, ~ways[l].oneway
        PROVE  Entered(n, S, ways[l], i, j)
    <3>1. CASE d = j
      <4>1. AtCorner(n, S, ways[l].nodes[j])
        BY <2>5, <2>7, <3>1, SweptCorners
      <4>2. QED
        BY <2>7, <4>1 DEF Entered
    <3>2. CASE d # j
      BY <2>1, <2>2, <2>3, <2>4, <2>7, <3>2, SweptInside
    <3>3. QED
      BY <3>1, <3>2
  <2>8. ASSUME Entered(n, S, ways[l], i, j)
        PROVE  ways[l].nodes[d] \in T /\ (~ways[l].oneway => ways[l].nodes[k] \in T)
    <3>1. ways[l].nodes[d] \in T
      BY <2>1, <2>2, <2>3, <2>4, <2>8, EnteredIsSwept
    <3>2. ~ways[l].oneway => ways[l].nodes[k] \in T
      BY <2>1, <2>2, <2>4, <2>8, EnteredIsSwept
    <3>3. QED
      BY <3>1, <3>2
  <2> HIDE DEF T
  <2>9. QED
    BY <2>3, <2>6, <2>7, <2>8
<1>2. ASSUME NEW p, NEW q, <<p, q>> \in links, p \in T
      PROVE  q \in T
  <2>1. PICK w \in ToSet(ways) : NextOn(w, p, q)
    BY <1>2 DEF LaidAlong
  <2>2. PICK l \in DOMAIN ways : w = ways[l]
    BY <2>1 DEF ToSet
  <2>3. PICK m \in Nat : m = Len(ways[l].nodes)
    BY WayFacts
  <2>4. PICK k \in 1..(m - 1) :
          \/ w.nodes[k] = p /\ w.nodes[k + 1] = q
          \/ w.nodes[k] = q /\ w.nodes[k + 1] = p /\ ~w.oneway
    BY <2>1, <2>2, <2>3 DEF NextOn
  <2>5. /\ ways[l].nodes[k] \in T => ways[l].nodes[k + 1] \in T
        /\ ways[l].nodes[k + 1] \in T /\ ~ways[l].oneway => ways[l].nodes[k] \in T
    BY <1>1, <2>3
  <2> HIDE DEF T
  <2>6. QED
    BY <1>2, <2>2, <2>4, <2>5
<1> HIDE DEF T
<1>3. ASSUME NEW f \in links, f[1] \in T
      PROVE  f[2] \in T
  <2>1. PICK p, q : p = f[1] /\ q = f[2] /\ f = <<p, q>>
    BY DEF LaidAlong
  <2>2. QED
    BY <1>2, <1>3, <2>1
<1>4. QED
  BY <1>3 DEF Closed, T

\* The least set that holds a place and that nothing leads out of.
IsReached(links, p, R) ==
  /\ p \in R /\ Closed(links, R)
  /\ \A T : p \in T /\ Closed(links, T) => R \subseteq T

\* From one intersection the streets lead to another if and only if the roads do.
LEMMA StreetsAndRoads ==
  ASSUME NEW ways \in Seq(Stretches), NEW n, BuiltOf(n, ways), NEW links, LaidAlong(links, ways),
         NEW x \in Corners(n), NEW y \in Corners(n), NEW R, IsReached(links, n.positions[x], R)
  PROVE  n.positions[y] \in R <=> LeadsTo(n, x, y)
<1>1. ASSUME LeadsTo(n, x, y)
      PROVE  n.positions[y] \in R
  <2>1. n.positions[x] \in R /\ Closed(links, R)
    BY DEF IsReached
  <2>2. QED
    BY <1>1, <2>1, RoadsFollowStreets
<1>2. ASSUME n.positions[y] \in R
      PROVE  LeadsTo(n, x, y)
  <2>1. SUFFICES ASSUME NEW S \in SUBSET Corners(n), x \in S, KeptIn(n, S)
                 PROVE  y \in S
    BY DEF LeadsTo
  <2>2. Closed(links, Swept(n, ways, S))
    BY <2>1, SweptIsClosed
  <2>3. n.positions[x] \in Swept(n, ways, S)
    <3>1. AtCorner(n, S, n.positions[x])
      BY <2>1 DEF AtCorner
    <3>2. n.positions[x] \in DOMAIN Place
      <4>1. n.positions \in Seq(DOMAIN Place)
        BY DEF BuiltOf, Laid, IsNetwork
      <4>2. QED
        BY <4>1, ElementOfSeq, LenProperties DEF Corners
    <3>3. QED
      BY <3>1, <3>2 DEF Swept
  <2>4. n.positions[y] \in Swept(n, ways, S)
    BY <1>2, <2>2, <2>3 DEF IsReached
  <2>5. Passes(ways, n.positions[y]) >= 2
    BY CornersArePassedTwice
  <2>6. AtCorner(n, S, n.positions[y])
    BY <2>4, <2>5, SweptCorners
  <2>7. PICK c \in S : n.positions[c] = n.positions[y]
    BY <2>6 DEF AtCorner
  <2>8. c = y
    BY <2>7 DEF BuiltOf, IsInjective, Corners
  <2>9. QED
    BY <2>7, <2>8
<1>3. QED
  BY <1>1, <1>2

\* A street leads to one of finitely many points.
LEMMA StreetsEnd ==
  ASSUME extract \in Seq(Elements)
  PROVE  \E all : IsFiniteSet(all) /\ \A l \in Streets : l[2] \in all
<1>1. PICK n \in Nat : n = Len(extract) /\ DOMAIN extract = 1..n
  BY LenProperties
<1>2. \A k \in 1..n : extract[k] \in Elements
  BY <1>1, ElementOfSeq
<1> DEFINE F == [k \in 1..n |-> ToSet(extract[k].nodes)]
           all == UNION {F[k] : k \in 1..n}
<1>3. ASSUME NEW k \in 1..n
      PROVE  IsFiniteSet(F[k])
  <2>1. PICK s \in Seq(DOMAIN Place) : s = extract[k].nodes
    BY <1>2 DEF Elements
  <2>2. PICK m \in Nat : DOMAIN s = 1..m
    BY LenProperties
  <2>3. IsFiniteSet(DOMAIN s)
    BY <2>2, FS_Interval
  <2>4. IsFiniteSet({s[i] : i \in DOMAIN s})
    BY <2>3, FiniteImage
  <2>5. F[k] = {s[i] : i \in DOMAIN s}
    BY <2>1 DEF ToSet
  <2>6. QED
    BY <2>4, <2>5
<1>4. IsFiniteSet(1..n)
  BY FS_Interval
<1>5. ASSUME NEW l \in Streets
      PROVE  l[2] \in all
  <2>1. PICK p, q : p = l[1] /\ q = l[2] /\ l = <<p, q>>
    BY StreetsFacts
  <2>2. PICK e \in ToSet(extract) : StreetFrom(e, p, q)
    BY <2>1, StreetsFacts
  <2>3. q \in ToSet(e.nodes)
    BY <2>2 DEF StreetFrom, ToSet
  <2>4. PICK k \in 1..n : e = extract[k]
    BY <1>1, <2>2 DEF ToSet
  <2>5. q \in F[k]
    BY <2>3, <2>4
  <2>6. QED
    BY <2>1, <2>5
<1>6. IsFiniteSet({F[k] : k \in 1..n})
  <2> HIDE DEF F
  <2>1. QED
    BY <1>4, FiniteImage
<1>7. IsFiniteSet(all)
  <2>1. \A T \in {F[k] : k \in 1..n} : IsFiniteSet(T)
    <3> HIDE DEF F
    <3>1. QED
      BY <1>3
  <2> DEFINE sets == {F[k] : k \in 1..n}
  <2>2. IsFiniteSet(sets) /\ \A T \in sets : IsFiniteSet(T)
    BY <1>6, <2>1
  <2> HIDE DEF sets
  <2>3. IsFiniteSet(UNION sets)
    BY <2>2, FS_UNION
  <2>4. QED
    BY <2>3 DEF sets
<1> HIDE DEF all
<1>8. QED
  BY <1>5, <1>7

\* What the streets lead to from a point.
LEMMA StreetsReach ==
  ASSUME extract \in Seq(Elements), NEW p
  PROVE  IsReached(Streets, p, Reached(Streets, {p}))
<1>1. PICK all : IsFiniteSet(all) /\ \A l \in Streets : l[2] \in all
  BY StreetsEnd
<1>2. PICK more : more = all \cup {p}
  OBVIOUS
<1>3. IsFiniteSet(more) /\ {p} \in SUBSET more /\ \A l \in Streets : l[2] \in more
  BY <1>1, <1>2, FS_AddElement
<1>4. PICK R : R = Reached(Streets, {p})
  OBVIOUS
<1>5. {p} \subseteq R /\ Closed(Streets, R) /\ \A T : {p} \subseteq T /\ Closed(Streets, T) => R \subseteq T
  BY <1>3, <1>4, ReachedHolds
<1>6. QED
  BY <1>4, <1>5 DEF IsReached

\* Intersections that can reach one another by the streets of the extract are those that
\* can by the roads of what is built of it.
LEMMA MutualIsClass ==
  ASSUME extract \in Seq(Elements), NEW ways \in Seq(Stretches), ways = Parse(extract),
         NEW n, BuiltOf(n, ways), NEW x \in Corners(n)
  PROVE  Mutual(n.positions[x]) \cap ToSet(n.positions) = {n.positions[y] : y \in Class(n, x)}
<1>1. LaidAlong(Streets, ways)
  BY StreetsFacts, StreetsAreWays DEF LaidAlong
<1>2. \A a, b \in Corners(n) : n.positions[b] \in Reached(Streets, {n.positions[a]}) <=> LeadsTo(n, a, b)
  BY <1>1, StreetsReach, StreetsAndRoads
<1>3. \A y \in Corners(n) : n.positions[y] \in Mutual(n.positions[x]) <=> y \in Class(n, x)
  BY <1>2 DEF Mutual, Class
<1>4. ToSet(n.positions) = {n.positions[y] : y \in Corners(n)}
  BY DEF ToSet, Corners
<1>5. Class(n, x) \subseteq Corners(n)
  BY DEF Class
<1>6. QED
  BY <1>3, <1>4, <1>5

\* Intersections lie at as many points as there are of them.
LEMMA PositionsCount ==
  ASSUME NEW n, Laid(n), IsInjective(n.positions), NEW S \in SUBSET Corners(n)
  PROVE  Cardinality({n.positions[c] : c \in S}) = Cardinality(S)
<1> DEFINE T == {n.positions[c] : c \in S}
           f == [c \in S |-> n.positions[c]]
<1>1. IsFiniteSet(S)
  BY CornersOf, FS_Subset
<1>2. \A a, b \in S : n.positions[a] = n.positions[b] => a = b
  BY DEF IsInjective, Corners
<1>3. f \in Bijection(S, T)
  BY <1>2 DEF Bijection, Injection, Surjection, IsInjective
<1>4. ExistsBijection(S, T)
  BY <1>3 DEF ExistsBijection
<1> HIDE DEF T
<1>5. Cardinality(T) = Cardinality(S)
  BY <1>1, <1>4, FS_Bijection
<1>6. QED
  BY <1>5 DEF T

\* What is kept of an extract can reach itself, and no other such set is larger.
LEMMA GeneratedIsLargest ==
  ASSUME extract \in Seq(Elements)
  PROVE  LET kept == ToSet(Generate(extract).positions)
             all  == ToSet(Build(Parse(extract)).positions)
         IN  /\ \A p \in kept : kept = Mutual(p) \cap all
             /\ \A p \in all : Cardinality(Mutual(p) \cap all) <= Cardinality(kept)
<1>1. PICK ways, n, m, renum : Made(extract, ways, n, m, renum)
  BY GenerateFacts
<1>2. /\ ways = Parse(extract) /\ ways \in Seq(Stretches)
      /\ n = Build(ways) /\ BuiltOf(n, ways) /\ m = Generate(extract) /\ KeptOf(m, n, renum)
      /\ Laid(n) /\ IsInjective(n.positions)
  BY <1>1 DEF Made, BuiltOf
<1>3. PICK kept, all : kept = ToSet(m.positions) /\ all = ToSet(n.positions)
  OBVIOUS
<1>4. all = {n.positions[c] : c \in Corners(n)}
  BY <1>3 DEF ToSet, Corners
<1>5. kept = {n.positions[c] : c \in Largest(n)}
  <2>1. kept = {m.positions[k] : k \in Corners(m)}
    BY <1>3 DEF ToSet, Corners
  <2>2. /\ \A k \in Corners(m) : m.positions[k] = n.positions[renum[k]]
        /\ {renum[k] : k \in Corners(m)} = Largest(n)
    BY <1>2 DEF KeptOf
  <2>3. QED
    BY <2>1, <2>2
<1>6. /\ Largest(n) \in SUBSET Corners(n)
      /\ Corners(n) # {} => \E x \in Corners(n) : Largest(n) = Class(n, x)
      /\ \A x \in Corners(n) : Cardinality(Class(n, x)) <= Cardinality(Largest(n))
  BY <1>2, LargestIsClass
<1>7. \A x \in Corners(n) : Mutual(n.positions[x]) \cap all = {n.positions[y] : y \in Class(n, x)}
  <2>1. ways \in Seq(Stretches) /\ ways = Parse(extract) /\ BuiltOf(n, ways)
    BY <1>2
  <2>2. ASSUME NEW x \in Corners(n)
        PROVE  Mutual(n.positions[x]) \cap ToSet(n.positions) = {n.positions[y] : y \in Class(n, x)}
    BY <2>1, MutualIsClass
  <2>3. QED
    BY <1>3, <2>2
<1>8. ASSUME NEW p \in kept
      PROVE  kept = Mutual(p) \cap all
  <2>1. PICK c \in Largest(n) : p = n.positions[c]
    BY <1>5
  <2>2. c \in Corners(n)
    BY <1>6, <2>1
  <2>3. PICK x \in Corners(n) : Largest(n) = Class(n, x)
    BY <1>6, <2>2
  <2>4. Class(n, c) = Largest(n)
    BY <2>1, <2>3, SameClass
  <2>5. QED
    BY <1>5, <1>7, <2>1, <2>2, <2>4
<1>9. ASSUME NEW p \in all
      PROVE  Cardinality(Mutual(p) \cap all) <= Cardinality(kept)
  <2>1. PICK x \in Corners(n) : p = n.positions[x]
    BY <1>4
  <2>2. Class(n, x) \in SUBSET Corners(n)
    BY DEF Class
  <2>3. Cardinality({n.positions[y] : y \in Class(n, x)}) = Cardinality(Class(n, x))
    BY <1>2, <2>2, PositionsCount
  <2>4. Cardinality(kept) = Cardinality(Largest(n))
    BY <1>2, <1>5, <1>6, PositionsCount
  <2>5. Mutual(p) \cap all = {n.positions[y] : y \in Class(n, x)}
    BY <1>7, <2>1
  <2>6. QED
    BY <1>6, <2>1, <2>3, <2>4, <2>5
<1>10. QED
  BY <1>2, <1>3, <1>8, <1>9

\* The loaded roads lead from anywhere to everywhere.
LEMMA RoadsLeadEverywhere ==
  ASSUME Loaded, node \in Nodes
  PROVE  LET roads == UNION {{<<l.from, l.to>> : l \in ToSet(graph.leaving[k])} : k \in Nodes}
         IN  Reached(roads, {node}) = Nodes
<1> DEFINE Out(k) == {<<l.from, l.to>> : l \in ToSet(graph.leaving[k])}
<1>1. PICK roads : roads = UNION {Out(k) : k \in Nodes}
  OBVIOUS
<1>2. \A l \in Links(network) : l.from \in Nodes /\ l.to \in Nodes
  BY GraphFacts, LinksType DEF Loaded
<1>3. \A k \in Nodes : ToSet(graph.leaving[k]) = {l \in Links(network) : l.from = k}
  BY GraphFacts
<1>4. IsFiniteSet(Nodes)
  <2>1. PICK m \in Nat : DOMAIN network.positions = 1..m
    BY RoadsOfNetwork DEF Loaded
  <2>2. IsFiniteSet(1..m)
    BY FS_Interval
  <2>3. QED
    BY <2>1, <2>2, GraphFacts
<1>5. \A f \in roads : f[2] \in Nodes
  <2>1. ASSUME NEW k \in Nodes, NEW f \in Out(k)
        PROVE  f[2] \in Nodes
    <3>1. PICK l \in ToSet(graph.leaving[k]) : f = <<l.from, l.to>>
      OBVIOUS
    <3>2. l \in Links(network)
      BY <1>3, <3>1
    <3>3. QED
      BY <1>2, <3>1, <3>2
  <2> HIDE DEF Out
  <2>2. QED
    BY <1>1, <2>1
<1>6. ASSUME NEW l \in Links(network)
      PROVE  <<l.from, l.to>> \in roads
  <2>1. l.from \in Nodes /\ l \in ToSet(graph.leaving[l.from])
    BY <1>2, <1>3
  <2>2. <<l.from, l.to>> \in Out(l.from)
    BY <2>1
  <2> HIDE DEF Out
  <2>3. QED
    BY <1>1, <2>1, <2>2
<1>7. PICK R : R = Reached(roads, {node})
  OBVIOUS
<1>8. {node} \subseteq R /\ R \subseteq Nodes /\ Closed(roads, R)
  <2>1. {node} \in SUBSET Nodes
    OBVIOUS
  <2>2. QED
    BY <1>4, <1>5, <1>7, <2>1, ReachedHolds
<1>9. ASSUME NEW l \in Links(network), l.from \in R
      PROVE  l.to \in R
  <2>1. PICK f \in roads : f = <<l.from, l.to>> /\ f[1] = l.from /\ f[2] = l.to
    BY <1>6
  <2>2. QED
    BY <1>8, <1>9, <2>1 DEF Closed
<1>10. R = Nodes
  <2>1. R \in SUBSET (DOMAIN network.positions) /\ R # {} /\ Nodes = DOMAIN network.positions
    BY <1>8, GraphFacts
  <2>2. QED
    BY <1>9, <2>1 DEF Loaded, Connected
<1>11. QED
  BY <1>1, <1>7, <1>10

\* The network holds intersections that can all reach one another by the streets of the
\* extract, no such set is larger, and the loaded roads take a vehicle from wherever it is
\* parked to each of them (roadgen's strongest; graph.go, mustLoadGraph).
THEOREM IntersectionsConnected == Spec => []IntersectionsReachEachOther
<1>1. JInv => IntersectionsReachEachOther
  <2>1. SUFFICES ASSUME JInv
                 PROVE  IntersectionsReachEachOther
    OBVIOUS
  <2>2. Loaded /\ node \in Nodes
    BY <2>1 DEF JInv, SearchInv, VehicleInv
  <2>3. /\ extract \in Seq(Elements) /\ Loadable(network)
        /\ graph.positions = Generate(extract).positions
    BY <2>2, GraphFacts, JourneysAssumption DEF Loaded, Accepted
  <2>4. QED
    BY <2>2, <2>3, GeneratedIsLargest, RoadsLeadEverywhere, Zenon DEF IntersectionsReachEachOther
<1>2. QED
  BY <1>1, JourneysHold, PTL
-----------------------------------------------------------------------------
(* Where vehicles are sent.                                                *)

\* A call that may be answered with any intersection of the service area.
Widened(c) == c.within = graph.inside /\ c.low = 0 /\ c.high = Infinite

\* Wherever a vehicle is sent, it is sent inside.
Inward(c) == c.within = graph.inside

\* A plan under way has yet to make its last call, which is the widened one, or is making
\* it; and only a trip is planned to anywhere but inside.
PlanWidensLast ==
  /\ purpose # "nothing" =>
       \/ tries # <<>> /\ Widened(tries[Len(tries)])
       \/ tries = <<>> /\ phase # "idle" /\ Widened(call)
  /\ phase # "idle" => purpose # "nothing"
  /\ purpose \in {"toCustomer", "toParking", "replan"} =>
       /\ \A c \in ToSet(tries) : Inward(c)
       /\ phase # "idle" => Inward(call)

SentInv == PlanWidensLast /\ OnlyCustomersLeave

\* The last call of a plan is the widened one, and those of plan itself ask for what is inside.
LEMMA PlanEndsWide ==
  ASSUME NEW n, NEW calls, calls \in {Plan(n), Exit(n) \o Plan(n)}
  PROVE  /\ calls # <<>> /\ Widened(calls[Len(calls)])
         /\ calls = Plan(n) => \A c \in ToSet(calls) : Inward(c)
<1>1. PICK c1, c2, c3, c4 : /\ c1 = Calls(n, graph.inside, TripMin, TripMax)
                            /\ c2 = Calls(n, graph.inside, 0, Infinite)
                            /\ c3 = Calls(n, graph.outside, 0, TripMax)
                            /\ c4 = Calls(n, graph.outside, 0, Infinite)
  OBVIOUS
<1>2. c1.within = graph.inside /\ c2.within = graph.inside /\ c2.low = 0 /\ c2.high = Infinite
  BY <1>1 DEF Calls
<1>3. Widened(c2) /\ Inward(c1) /\ Inward(c2)
  BY <1>2 DEF Widened, Inward
<1>4. PICK S : S = {c1, c2, c3, c4}
  OBVIOUS
<1>5. PICK s, t \in Seq(S) : s = <<c1, c2>> /\ t = <<c3, c4>>
  <2>1. <<c1, c2>> \in Seq(S) /\ <<c3, c4>> \in Seq(S)
    BY <1>4
  <2>2. QED
    BY <2>1
<1>6. Plan(n) = s /\ Exit(n) = t
  BY <1>1, <1>5, Zenon DEF Plan, Exit
<1>7. Len(s) = 2 /\ s[1] = c1 /\ s[2] = c2 /\ Len(t) = 2 /\ DOMAIN s = 1..2
  BY <1>5
<1>8. Len(t \o s) = 4 /\ (t \o s)[4] = c2
  <2>1. Len(t \o s) = 2 + 2
    <3>1. Len(t \o s) = Len(t) + Len(s)
      BY ConcatProperties
    <3>2. QED
      BY <1>7, <3>1
  <2>2. \A i \in 1..2 + 2 : (t \o s)[i] = IF i <= 2 THEN t[i] ELSE s[i - 2]
    <3>1. PICK u \in Seq(S), v \in Seq(S) : u = t /\ v = s /\ Len(u) = 2 /\ Len(v) = 2
      BY <1>7
    <3>2. \A i \in 1..Len(u) + Len(v) : (u \o v)[i] = IF i <= Len(u) THEN u[i] ELSE v[i - Len(u)]
      BY ConcatProperties
    <3>3. QED
      BY <3>1, <3>2
  <2>3. 4 \in 1..2 + 2 /\ ~(4 <= 2) /\ 4 - 2 = 2
    OBVIOUS
  <2>4. (t \o s)[4] = s[2]
    BY <2>2, <2>3
  <2>5. QED
    BY <1>7, <2>1, <2>4
<1>9. calls = s \/ calls = t \o s
  BY <1>6
<1>10. calls[Len(calls)] = c2 /\ calls \in Seq(S) /\ Len(calls) > 0
  BY <1>7, <1>8, <1>9, ConcatProperties
<1>11. \A c \in ToSet(s) : Inward(c)
  BY <1>3, <1>7 DEF ToSet
<1>12. calls # <<>>
  BY <1>10, EmptySeq
<1>13. QED
  BY <1>3, <1>6, <1>10, <1>11, <1>12

\* What is left of a plan ends as it did; if nothing is left, the call made was the last.
LEMMA LastCallLeft ==
  ASSUME NEW X, NEW s \in Seq(X), s # <<>>
  PROVE  /\ Tail(s) = <<>> => Head(s) = s[Len(s)]
         /\ Tail(s) # <<>> => Tail(s)[Len(Tail(s))] = s[Len(s)]
<1>1. PICK n \in Nat : n = Len(s) /\ n >= 1
  BY LenProperties, EmptySeq
<1>2. PICK r \in Seq(X) : r = Tail(s)
  BY HeadTailProperties
<1>3. Len(r) = n - 1 /\ \A i \in 1..Len(r) : r[i] = s[i + 1]
  BY <1>1, <1>2, HeadTailProperties
<1>4. CASE r = <<>>
  <2>1. n = 1
    <3>1. Len(r) = 0
      BY <1>4
    <3>2. n - 1 = 0
      BY <1>3, <3>1
    <3>3. QED
      BY <3>2
  <2>2. QED
    BY <1>1, <1>2, <1>4, <2>1
<1>5. CASE r # <<>>
  <2>1. Len(r) # 0
    BY <1>5, EmptySeq
  <2>2. n - 1 \in 1..(n - 1) /\ n - 1 + 1 = n
    BY <1>1, <1>3, <2>1
  <2>3. r[n - 1] = s[n]
    BY <1>3, <2>2
  <2>4. QED
    BY <1>1, <1>2, <1>3, <1>5, <2>3
<1>6. QED
  BY <1>4, <1>5

\* The calls of a plan, one after the other.
LEMMA PlanningSends ==
  ASSUME JInv, JInv', SentInv,
         \/ \E journey \in {"toCustomer", "toParking"} : Dispatch(journey)
         \/ Replan \/ Begin \/ Searches \/ ComeToNothing
  PROVE  SentInv'
<1>1. UNCHANGED <<world, vehicle>>
  BY DEF Dispatch, Replan, Begin, Searches, Skip, Settle, Improve, PassBy, Finish, ComeToNothing
<1>2. UNCHANGED <<graph, leg, path, node>>
  BY <1>1 DEF world, vehicle
<1>3. OnlyCustomersLeave'
  BY <1>2 DEF SentInv, OnlyCustomersLeave, EnRoute
<1>4. \A c : (Widened(c)' <=> Widened(c)) /\ (Inward(c)' <=> Inward(c))
  BY <1>2 DEF Widened, Inward
<1>5. /\ purpose = "nothing" => phase = "idle" /\ tries = <<>>
      /\ tries \in Seq(Asked)
  BY DEF JInv, VehicleInv, SearchInv
<1>6. /\ purpose # "nothing" =>
           \/ tries # <<>> /\ Widened(tries[Len(tries)])
           \/ tries = <<>> /\ phase # "idle" /\ Widened(call)
      /\ phase # "idle" => purpose # "nothing"
      /\ purpose \in {"toCustomer", "toParking", "replan"} =>
           /\ \A c \in ToSet(tries) : Inward(c)
           /\ phase # "idle" => Inward(call)
  BY DEF SentInv, PlanWidensLast
<1>7. ASSUME NEW n, tries' = Plan(n), purpose = "nothing", purpose' # "nothing", UNCHANGED search
      PROVE  PlanWidensLast'
  <2>1. phase' = "idle"
    BY <1>5, <1>7 DEF search
  <2>2. PICK calls : calls = tries'
    OBVIOUS
  <2>3. calls # <<>> /\ Widened(calls[Len(calls)]) /\ \A c \in ToSet(calls) : Inward(c)
    BY <1>7, <2>2, PlanEndsWide
  <2>4. QED
    BY <1>2, <1>7, <2>1, <2>2, <2>3 DEF PlanWidensLast, Widened, Inward
<1>8. ASSUME NEW journey \in {"toCustomer", "toParking"}, Dispatch(journey)
      PROVE  PlanWidensLast'
  <2>1. tries' = Plan(node) /\ purpose = "nothing" /\ purpose' # "nothing" /\ UNCHANGED search
    BY <1>8 DEF Dispatch
  <2>2. QED
    BY <1>7, <2>1
<1>9. ASSUME Replan
      PROVE  PlanWidensLast'
  <2>1. tries' = Plan(path[1].node) /\ purpose = "nothing" /\ purpose' # "nothing" /\ UNCHANGED search
    BY <1>9 DEF Replan
  <2>2. QED
    BY <1>7, <2>1
<1>10. ASSUME Begin
       PROVE  PlanWidensLast'
  <2>1. /\ tries # <<>> /\ call' = Head(tries) /\ tries' = Tail(tries) /\ UNCHANGED purpose
        /\ phase' = "choosing"
    BY <1>10 DEF Begin
  <2>2. Head(tries) \in ToSet(tries) /\ ToSet(Tail(tries)) \subseteq ToSet(tries)
    BY <1>5, <2>1, CallTaken
  <2>3. purpose # "nothing" /\ Widened(tries[Len(tries)])
    BY <1>5, <1>6, <2>1
  <2>4. PICK h, rest : h = Head(tries) /\ rest = Tail(tries)
    OBVIOUS
  <2>5. /\ rest = <<>> => Widened(h)
        /\ rest # <<>> => Widened(rest[Len(rest)])
    <3>1. /\ rest = <<>> => h = tries[Len(tries)]
          /\ rest # <<>> => rest[Len(rest)] = tries[Len(tries)]
      BY <1>5, <2>1, <2>4, LastCallLeft
    <3>2. QED
      BY <2>3, <3>1
  <2>6. purpose \in {"toCustomer", "toParking", "replan"} => Inward(h) /\ \A c \in ToSet(rest) : Inward(c)
    BY <1>6, <2>2, <2>4
  <2>7. call' = h /\ tries' = rest /\ phase' # "idle" /\ purpose' = purpose
    BY <2>1, <2>4
  <2>8. QED
    BY <1>2, <2>3, <2>5, <2>6, <2>7 DEF PlanWidensLast, Widened, Inward
<1>11. ASSUME Searches
       PROVE  PlanWidensLast'
  <2>1. UNCHANGED <<purpose, tries, call>> /\ phase # "idle" /\ phase' # "idle"
    BY <1>11 DEF Searches, Skip, Settle, Improve, PassBy, Finish, Choosing
  <2>2. QED
    BY <1>2, <1>6, <2>1 DEF PlanWidensLast, Widened, Inward
<1>12. ASSUME ComeToNothing
       PROVE  PlanWidensLast'
  <2>1. /\ purpose' = (IF tries = <<>> THEN "nothing" ELSE purpose) /\ tries' = tries
        /\ phase' = "idle"
    BY <1>12 DEF ComeToNothing, Return
  <2>2. QED
    BY <1>2, <1>6, <2>1 DEF PlanWidensLast, Widened, Inward
<1>13. PlanWidensLast'
  BY <1>8, <1>9, <1>10, <1>11, <1>12
<1>14. QED
  BY <1>3, <1>13 DEF SentInv

\* What is driven to at last, once some of the way has been driven.
LEMMA EndOfTheRest ==
  ASSUME NEW p \in Seq(Steps), Len(p) > 1
  PROVE  Tail(p) # <<>> /\ Last(Tail(p)) = Last(p)
<1>1. p # <<>>
  BY EmptySeq
<1>2. PICK n \in Nat : n = Len(p)
  BY LenProperties
<1>3. Tail(p) # <<>>
  <2>1. PICK r : r = Tail(p)
    OBVIOUS
  <2>2. Len(r) = n - 1
    BY <1>1, <1>2, <2>1, HeadTailProperties
  <2>3. Len(r) # 0
    BY <1>2, <2>2
  <2>4. QED
    BY <2>1, <2>3
<1>4. Tail(p)[Len(Tail(p))] = p[Len(p)]
  BY <1>1, <1>3, LastCallLeft
<1>5. QED
  BY <1>3, <1>4 DEF Last

\* The vehicle is driven on, to where it was sent.
LEMMA DrivingSends ==
  ASSUME JInv, JInv', SentInv, Move \/ PassPoint \/ EndRoad \/ Handover \/ Park
  PROVE  SentInv'
<1>1. /\ purpose = "nothing" /\ path # <<>> /\ UNCHANGED <<world, search>>
  BY DEF Move, PassPoint, EndRoad, Handover, Park, Reach
<1>2. UNCHANGED <<graph, phase, call>> /\ path \in Seq(Steps) /\ phase = "idle" /\ tries = <<>>
  BY <1>1 DEF world, search, JInv, VehicleInv
<1>3. EnRoute => path # <<>> /\ Last(path).node \in graph.inside
  BY DEF SentInv, OnlyCustomersLeave
<1>4. CASE Move \/ PassPoint \/ EndRoad \/ Park
  <2>1. purpose' = "nothing" /\ phase' = "idle"
    BY <1>1, <1>2, <1>4 DEF Move, PassPoint, EndRoad, Park
  <2>2. PlanWidensLast'
    BY <2>1 DEF PlanWidensLast
  <2>3. OnlyCustomersLeave'
    <3>1. CASE Move
      <4>1. UNCHANGED <<leg, path>>
        BY <3>1 DEF Move
      <4>2. QED
        BY <1>2, <1>3, <4>1 DEF OnlyCustomersLeave, EnRoute
    <3>2. CASE PassPoint
      <4>1. path' = [path EXCEPT ![1].via = Tail(@)] /\ leg' = leg
        BY <3>2 DEF PassPoint
      <4>2. PICK n \in Nat : n = Len(path) /\ n >= 1 /\ DOMAIN path = 1..n
        BY <1>1, <1>2, LenProperties, EmptySeq
      <4>3. PICK s : s = [path[1] EXCEPT !.via = Tail(@)]
        OBVIOUS
      <4>4. s.node = path[1].node
        <5>1. path[1] \in Steps
          BY <1>2, <4>2, ElementOfSeq
        <5>2. QED
          BY <4>3, <5>1 DEF Steps
      <4>5. path' = [path EXCEPT ![1] = s]
        BY <4>1, <4>3
      <4>6. PICK p \in Seq(Steps) : p = path'
        <5>1. path' \in Seq(Steps)'
          BY DEF JInv, VehicleInv
        <5>2. Steps' = Steps
          BY <1>1, PlacesKept DEF world
        <5>3. QED
          BY <5>1, <5>2
      <4>7. Len(p) = n /\ \A i \in 1..n : p[i] = IF i = 1 THEN s ELSE path[i]
        <5>1. DOMAIN p = 1..n
          BY <4>2, <4>5, <4>6
        <5>2. \A i \in 1..n : p[i] = IF i = 1 THEN s ELSE path[i]
          BY <4>2, <4>5, <4>6
        <5>3. QED
          BY <4>2, <4>6, <5>1, <5>2, LenProperties
      <4>8. p[n].node = path[n].node
        BY <4>2, <4>4, <4>7
      <4>9. p # <<>>
        BY <4>2, <4>7
      <4>10. Last(p).node = Last(path).node
        BY <4>2, <4>7, <4>8 DEF Last
      <4>11. QED
        BY <1>2, <1>3, <4>1, <4>6, <4>9, <4>10 DEF OnlyCustomersLeave, EnRoute
    <3>3. CASE EndRoad
      <4>1. path' = Tail(path) /\ Len(path) > 1 /\ leg' = leg
        BY <3>3 DEF EndRoad, Reach
      <4>2. Tail(path) # <<>> /\ Last(Tail(path)) = Last(path)
        BY <1>2, <4>1, EndOfTheRest
      <4>3. QED
        BY <1>2, <1>3, <4>1, <4>2 DEF OnlyCustomersLeave, EnRoute
    <3>4. CASE Park
      BY <3>4 DEF Park, OnlyCustomersLeave, EnRoute
    <3>5. QED
      BY <1>4, <3>1, <3>2, <3>3, <3>4
  <2>4. QED
    BY <2>2, <2>3 DEF SentInv
<1>5. CASE Handover
  <2>1. /\ leg' = "withCustomer" /\ purpose' = "trip"
        /\ tries' \in {Plan(node'), Exit(node') \o Plan(node')}
    BY <1>5 DEF Handover
  <2>2. OnlyCustomersLeave'
    BY <2>1 DEF OnlyCustomersLeave, EnRoute
  <2>3. PICK n, calls : n = node' /\ calls = tries'
    OBVIOUS
  <2>4. calls \in {Plan(n), Exit(n) \o Plan(n)}
    BY <2>1, <2>3
  <2>5. calls # <<>> /\ Widened(calls[Len(calls)])
    BY <2>4, PlanEndsWide
  <2>6. PlanWidensLast'
    BY <1>2, <2>1, <2>3, <2>5 DEF PlanWidensLast, Widened
  <2>7. QED
    BY <2>2, <2>6 DEF SentInv
<1>6. QED
  BY <1>4, <1>5

\* What a route is added to ends where the route does.
LEMMA EndOfBoth ==
  ASSUME NEW s \in Seq(Steps), NEW t \in Seq(Steps), t # <<>>
  PROVE  s \o t # <<>> /\ Last(s \o t) = Last(t)
<1>1. PICK m, n \in Nat : m = Len(s) /\ n = Len(t) /\ n >= 1
  BY LenProperties, EmptySeq
<1>2. /\ s \o t \in Seq(Steps) /\ Len(s \o t) = m + n
      /\ (s \o t)[m + n] = t[n]
  BY <1>1, ConcatProperties
<1>3. QED
  BY <1>1, <1>2 DEF Last

\* A vehicle is sent to where its plan has come.
LEMMA SettingOutSends ==
  ASSUME JInv, SentInv, SetOut
  PROVE  SentInv'
<1>1. /\ phase = "done" /\ purpose' = "nothing" /\ phase' = "idle" /\ UNCHANGED world
      /\ leg' = IF purpose \in {"toCustomer", "toParking"} THEN purpose ELSE leg
  BY DEF SetOut, Return
<1>2. PICK destination \in Eligible :
        path' = (IF purpose = "replan" THEN <<path[1]>> ELSE <<>>) \o RouteTo[destination]
  BY DEF SetOut
<1>3. PlanWidensLast'
  BY <1>1 DEF PlanWidensLast
<1>4. /\ SearchInv /\ Ranked /\ path \in Seq(Steps)
      /\ purpose \in {"nothing", "toCustomer", "toParking", "trip", "replan"}
      /\ purpose = "replan" => EnRoute
      /\ purpose = "trip" => ~EnRoute
  BY DEF JInv, VehicleInv
<1>5. PICK route \in Seq(Steps) : route = RouteTo[destination] /\ route # <<>>
  BY <1>1, <1>2, <1>4, RouteLeads
<1>6. Last(route).node = destination
  BY <1>1, <1>2, <1>4, <1>5, DoneIsShortest DEF JourneysAreShortest
<1>7. purpose # "nothing"
  BY <1>1 DEF SentInv, PlanWidensLast
<1>8. ASSUME EnRoute'
      PROVE  path' # <<>> /\ Last(path').node \in graph'.inside
  <2>1. purpose \in {"toCustomer", "toParking", "replan"}
    BY <1>1, <1>4, <1>7, <1>8 DEF EnRoute
  <2>2. Inward(call)
    BY <1>1, <2>1 DEF SentInv, PlanWidensLast
  <2>3. destination \in graph.inside /\ graph' = graph
    BY <1>1, <1>2, <2>2 DEF Eligible, Inward, world
  <2>4. PICK before \in Seq(Steps) : before = IF purpose = "replan" THEN <<path[1]>> ELSE <<>>
    <3>1. CASE purpose = "replan"
      <4>1. path # <<>>
        BY <1>4, <3>1 DEF SentInv, OnlyCustomersLeave
      <4>2. path[1] \in Steps
        BY <1>4, <4>1, EmptySeq, LenProperties, ElementOfSeq
      <4>3. <<path[1]>> \in Seq(Steps)
        BY <4>2
      <4>4. QED
        BY <3>1, <4>3
    <3>2. CASE purpose # "replan"
      <4>1. <<>> \in Seq(Steps)
        OBVIOUS
      <4>2. QED
        BY <3>2, <4>1
    <3>3. QED
      BY <3>1, <3>2
  <2>5. path' = before \o route
    BY <1>2, <1>5, <2>4
  <2>6. before \o route # <<>> /\ Last(before \o route) = Last(route)
    BY <1>5, <2>4, EndOfBoth
  <2>7. QED
    BY <1>6, <2>3, <2>5, <2>6
<1>9. OnlyCustomersLeave'
  BY <1>8 DEF OnlyCustomersLeave
<1>10. QED
  BY <1>3, <1>9 DEF SentInv

\* The invariant holds at the start,
LEMMA StartSends == Init => SentInv
<1> SUFFICES ASSUME Init
             PROVE  SentInv
  OBVIOUS
<1>1. leg = "parked" /\ purpose = "nothing" /\ phase = "idle"
  BY DEF Init, Idle
<1>2. QED
  BY <1>1 DEF SentInv, PlanWidensLast, OnlyCustomersLeave, EnRoute

\* and every step keeps it.
LEMMA StepSends == JInv /\ JInv' /\ SentInv /\ [Next]_vars => SentInv'
<1> SUFFICES ASSUME JInv, JInv', SentInv, [Next]_vars
             PROVE  SentInv'
  OBVIOUS
<1>1. CASE \/ \E journey \in {"toCustomer", "toParking"} : Dispatch(journey)
           \/ Replan \/ Begin \/ Skip \/ Settle \/ Improve \/ PassBy \/ Finish \/ ComeToNothing
  BY <1>1, PlanningSends DEF Searches
<1>2. CASE SetOut
  BY <1>2, SettingOutSends
<1>3. CASE Move \/ PassPoint \/ EndRoad \/ Handover \/ Park
  BY <1>3, DrivingSends
<1>4. CASE UNCHANGED vars
  <2>1. UNCHANGED <<graph, leg, path, purpose, tries, phase, call>>
    BY <1>4 DEF vars, world, vehicle, search
  <2>2. PlanWidensLast'
    BY <2>1 DEF SentInv, PlanWidensLast, Widened, Inward
  <2>3. OnlyCustomersLeave'
    BY <2>1 DEF SentInv, OnlyCustomersLeave, EnRoute
  <2>4. QED
    BY <2>2, <2>3 DEF SentInv
<1>5. QED
  BY <1>1, <1>2, <1>3, <1>4 DEF Next

\* Only a customer drives out of the service area: wherever a vehicle is sent, and wherever
\* it is sent instead, lies inside (graph.go, Inside; vehicle.go, plan and replan).
THEOREM VehiclesSentInside == Spec => []OnlyCustomersLeave
<1>1. Init => SentInv
  BY StartSends
<1>2. JInv /\ JInv' /\ SentInv /\ [Next]_vars => SentInv'
  BY StepSends
<1>3. SentInv => OnlyCustomersLeave
  BY DEF SentInv
<1>4. QED
  BY <1>1, <1>2, <1>3, JourneysHold, PTL DEF Spec

\* When the last call of a plan is answered, every intersection inside has been found, the
\* network being connected: nothing comes of a plan only where there is no other.
LEMMA LastCallFindsAll == JInv /\ SentInv => NobodyIsStranded
<1> SUFFICES ASSUME JInv, SentInv, phase = "done", tries = <<>>, Eligible = {}
             PROVE  graph.inside \subseteq {call.from}
  BY DEF NobodyIsStranded
<1>1. Widened(call)
  BY DEF SentInv, PlanWidensLast
<1>2. call.within = graph.inside /\ call.low = 0 /\ call.high = Infinite
  BY <1>1 DEF Widened
<1>3. SearchInv /\ graph.inside \subseteq Nodes
  BY <1>2 DEF JInv, SearchInv
<1>4. Found = Nodes
  BY <1>2, <1>3, AllFound
<1>5. ASSUME NEW n \in graph.inside, n # call.from
      PROVE  FALSE
  <2>1. n \in Nodes /\ distance[n] # Infinite /\ distance[n] \in Nat \cup {Infinite}
    <3>1. n \in Nodes /\ distance[n] # Infinite
      BY <1>3, <1>4 DEF Found
    <3>2. Map(graph).nodes = Nodes
      BY <1>3, MapFacts DEF SearchInv
    <3>3. distance \in [Nodes -> Nat \cup {Infinite}]
      BY <1>3, <3>2 DEF SearchInv, P!IInv, P!TypeOK, P!Bounds, P!Infinite, Infinite
    <3>4. QED
      BY <3>1, <3>3
  <2>2. AtMost(call.low, distance[n]) /\ AtMost(distance[n], call.high)
    BY <1>2, <2>1 DEF AtMost, Infinite
  <2>3. n \in Eligible
    BY <1>2, <1>5, <2>2 DEF Eligible
  <2>4. QED
    BY <2>3
<1>6. QED
  BY <1>5

\* A vehicle is never left without anywhere to go: a plan comes to nothing only where the
\* intersection it starts from is the only one inside the service area (vehicle.go, plan;
\* roadgen, strongest).
THEOREM PlansLeadSomewhere == Spec => []NobodyIsStranded
<1>1. Init => SentInv
  BY StartSends
<1>2. JInv /\ JInv' /\ SentInv /\ [Next]_vars => SentInv'
  BY StepSends
<1>3. JInv /\ SentInv => NobodyIsStranded
  BY LastCallFindsAll
<1>4. QED
  BY <1>1, <1>2, <1>3, JourneysHold, PTL DEF Spec
=============================================================================
