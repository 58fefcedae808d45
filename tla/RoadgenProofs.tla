--------------------------- MODULE RoadgenProofs ---------------------------
(***************************************************************************)
(* Lemmas about Roadgen, for every extract and every map that satisfy      *)
(* RoadgenAssumption: what parse, simplify and build make of an extract,   *)
(* and that strongest, with the two passes it makes, finds a largest class *)
(* of intersections that can all reach one another by the roads.  The      *)
(* general facts they rest on come first: induction over the naturals,     *)
(* functions defined by recursion, sequences of sequences.                 *)
(***************************************************************************)
EXTENDS Roadgen, SequenceTheorems, FiniteSetTheorems, WellFoundedInduction, TLAPS

\* A nonempty set of naturals has a least element.
LEMMA LeastOf ==
  ASSUME NEW S \in SUBSET Nat, S # {}
  PROVE  \E n \in S : \A m \in S : n <= m
<1> DEFINE R == OpToRel(<, Nat)
<1>1. IsWellFoundedOn(R, Nat)
  BY NatLessThanWellFounded, ZenonT(30)
<1>2. \A m, n \in Nat : m < n => <<m, n>> \in R
  BY DEF OpToRel
<1> HIDE DEF R
<1>3. PICK n \in S : \A m \in S : ~(<<m, n>> \in R)
  BY <1>1, WFMin
<1>4. ASSUME NEW m \in S
      PROVE  n <= m
  <2>1. m \in Nat /\ n \in Nat
    OBVIOUS
  <2>2. ~(m < n)
    BY <1>2, <1>3, <2>1
  <2>3. QED
    BY <2>1, <2>2
<1>5. QED
  BY <1>4

\* A set that holds zero and the successor of each of its naturals holds them all.
LEMMA Naturally ==
  ASSUME NEW S, 0 \in S, \A n \in Nat : n \in S => n + 1 \in S
  PROVE  Nat \subseteq S
<1> SUFFICES ASSUME Nat \ S # {} PROVE FALSE
  OBVIOUS
<1>1. PICK n \in Nat \ S : \A m \in Nat \ S : n <= m
  BY LeastOf
<1>2. n - 1 \in Nat /\ n - 1 \in S
  BY <1>1
<1>3. QED
  BY <1>1, <1>2

\* A finite nonempty set of naturals has a greatest element.
LEMMA GreatestOf ==
  ASSUME NEW S \in SUBSET Nat, IsFiniteSet(S), S # {}
  PROVE  \E n \in S : \A m \in S : n >= m
<1> DEFINE HasGreatest(T) == \E n \in T : \A m \in T : n >= m
           Good == {k \in Nat : \A T \in SUBSET Nat :
                      IsFiniteSet(T) /\ T # {} /\ Cardinality(T) = k => HasGreatest(T)}
<1>1. 0 \in Good
  BY FS_EmptySet
<1>2. ASSUME NEW k \in Nat, k \in Good
      PROVE  k + 1 \in Good
  <2> SUFFICES ASSUME NEW T \in SUBSET Nat, IsFiniteSet(T), T # {}, Cardinality(T) = k + 1
               PROVE  HasGreatest(T)
    OBVIOUS
  <2>1. PICK x \in T : TRUE
    OBVIOUS
  <2>2. IsFiniteSet(T \ {x}) /\ Cardinality(T \ {x}) = k
    <3>1. IsFiniteSet(T \ {x}) /\ Cardinality(T \ {x}) = Cardinality(T) - 1
      BY <2>1, FS_RemoveElement
    <3>2. QED
      BY <3>1
  <2>3. CASE T \ {x} = {}
    BY <2>1, <2>3
  <2>4. CASE T \ {x} # {}
    <3>1. PICK n \in T \ {x} : \A m \in T \ {x} : n >= m
      BY <1>2, <2>2, <2>4
    <3>2. n \in Nat /\ x \in Nat /\ \A m \in T : m \in Nat
      BY <2>1, <3>1
    <3>3. CASE n >= x
      BY <3>1, <3>2, <3>3
    <3>4. CASE x > n
      <4>1. \A m \in T : x >= m
        BY <3>1, <3>2, <3>4
      <4>2. QED
        BY <2>1, <4>1
    <3>5. QED
      BY <3>2, <3>3, <3>4
  <2>5. QED
    BY <2>3, <2>4
<1>3. Nat \subseteq Good
  <2> HIDE DEF Good
  <2>1. QED
    BY <1>1, <1>2, Naturally
<1>4. Cardinality(S) \in Nat
  BY FS_CardinalityType
<1>5. QED
  BY <1>3, <1>4

-----------------------------------------------------------------------------
(* Recursion: what a recursive function is defined by, there is.           *)

\* What is asked of f at d: to follow from its values at two other arguments, unless the
\* recursion stops at d.
Branches(f, d, stop, next, other, base, step) ==
  f[d] = IF d \in stop THEN base[d] ELSE step[<<d, f[next[d]], f[other[d]]>>]

\* The arguments a recursion comes to an end from in fewer than k calls.
Below(D, m, k) == {d \in D : m[d] < k}

Serves(f, k, D, S, m, stop, next, other, base, step) ==
  /\ f \in [Below(D, m, k) -> S]
  /\ \A d \in Below(D, m, k) : Branches(f, d, stop, next, other, base, step)

\* A recursion that calls itself with smaller arguments only has a solution.
LEMMA Branching ==
  ASSUME NEW D, NEW S, NEW m \in [D -> Nat], NEW stop \in SUBSET D, NEW next \in [D -> D],
         NEW other \in [D -> D], NEW base \in [D -> S], NEW step \in [D \X S \X S -> S],
         \A d \in D \ stop : m[next[d]] < m[d] /\ m[other[d]] < m[d]
  PROVE  \E f \in [D -> S] : \A d \in D : Branches(f, d, stop, next, other, base, step)
<1> DEFINE B(k) == Below(D, m, k)
           Good(f, k) == Serves(f, k, D, S, m, stop, next, other, base, step)
           Solved == {k \in Nat : \E f : Good(f, k)}
<1>1. 0 \in Solved
  <2>1. B(0) = {}
    BY DEF Below
  <2>2. Good([d \in B(0) |-> base[d]], 0)
    BY <2>1 DEF Serves
  <2>3. QED
    BY <2>2
<1>2. ASSUME NEW k \in Nat, k \in Solved
      PROVE  k + 1 \in Solved
  <2>1. PICK f : Good(f, k)
    BY <1>2
  <2> DEFINE g == [d \in B(k + 1) |-> IF d \in stop THEN base[d] ELSE step[<<d, f[next[d]], f[other[d]]>>]]
  <2>2. ASSUME NEW d \in B(k + 1), d \notin stop
        PROVE  next[d] \in B(k) /\ other[d] \in B(k)
    BY <2>2 DEF Below
  <2>3. \A d \in B(k) : d \in B(k + 1)
    BY DEF Below
  <2>4. \A d \in B(k) : f[d] \in S
    BY <2>1 DEF Serves
  <2>5. g \in [B(k + 1) -> S]
    <3>1. ASSUME NEW d \in B(k + 1)
          PROVE  (IF d \in stop THEN base[d] ELSE step[<<d, f[next[d]], f[other[d]]>>]) \in S
      <4>1. d \in D
        BY DEF Below
      <4>2. CASE d \in stop
        BY <4>1, <4>2
      <4>3. CASE d \notin stop
        <5>1. <<d, f[next[d]], f[other[d]]>> \in D \X S \X S
          BY <2>2, <2>4, <4>1, <4>3
        <5>2. QED
          BY <4>3, <5>1
      <4>4. QED
        BY <4>2, <4>3
    <3>2. QED
      BY <3>1
  <2>6. ASSUME NEW d \in B(k)
        PROVE  g[d] = f[d]
    BY <2>1, <2>3 DEF Serves, Branches
  <2>7. ASSUME NEW d \in B(k + 1)
        PROVE  Branches(g, d, stop, next, other, base, step)
    <3>1. CASE d \in stop
      BY <3>1 DEF Branches
    <3>2. CASE d \notin stop
      <4>1. g[next[d]] = f[next[d]] /\ g[other[d]] = f[other[d]]
        BY <2>2, <2>6, <3>2
      <4> HIDE DEF B
      <4>2. g[d] = step[<<d, f[next[d]], f[other[d]]>>]
        BY <3>2
      <4> HIDE DEF g
      <4>3. QED
        BY <3>2, <4>1, <4>2 DEF Branches
    <3>3. QED
      BY <3>1, <3>2
  <2>8. Good(g, k + 1)
    BY <2>5, <2>7 DEF Serves
  <2>9. QED
    <3> HIDE DEF g, Good
    <3>1. QED
      BY <2>8
<1>3. Nat \subseteq Solved
  <2> HIDE DEF Solved
  <2>1. QED
    BY <1>1, <1>2, Naturally
<1>4. ASSUME NEW k \in Nat, NEW j \in Nat, NEW f, NEW g, Good(f, k), Good(g, j)
      PROVE  \A d \in B(k) \cap B(j) : f[d] = g[d]
  <2> DEFINE Apart == {n \in Nat : \E d \in B(k) \cap B(j) : m[d] = n /\ f[d] # g[d]}
  <2>1. ASSUME Apart # {}
        PROVE  FALSE
    <3>1. PICK n \in Apart : \A i \in Apart : n <= i
      <4> HIDE DEF Apart
      <4>1. Apart \in SUBSET Nat
        BY DEF Apart
      <4>2. QED
        BY <2>1, <4>1, LeastOf
    <3>2. PICK d \in B(k) \cap B(j) : m[d] = n /\ f[d] # g[d]
      BY <3>1
    <3>3. d \in D /\ m[d] \in Nat
      BY <3>2 DEF Below
    <3>4. CASE d \in stop
      BY <1>4, <3>2, <3>4 DEF Serves, Branches
    <3>5. CASE d \notin stop
      <4>1. /\ next[d] \in D /\ m[next[d]] \in Nat /\ m[next[d]] < m[d]
            /\ other[d] \in D /\ m[other[d]] \in Nat /\ m[other[d]] < m[d]
        BY <3>3, <3>5
      <4>2. next[d] \in B(k) \cap B(j) /\ other[d] \in B(k) \cap B(j)
        BY <3>2, <3>3, <4>1 DEF Below
      <4>3. f[next[d]] = g[next[d]] /\ f[other[d]] = g[other[d]]
        BY <3>1, <3>2, <4>1, <4>2
      <4>4. QED
        BY <1>4, <3>2, <3>5, <4>3 DEF Serves, Branches
    <3>6. QED
      BY <3>4, <3>5
  <2>2. \A d \in B(k) \cap B(j) : m[d] \in Nat
    BY DEF Below
  <2>3. QED
    BY <2>1, <2>2
<1> DEFINE part == [k \in Nat |-> CHOOSE f : Good(f, k)]
           F == [d \in D |-> part[m[d] + 1][d]]
<1>5. ASSUME NEW k \in Nat
      PROVE  Good(part[k], k)
  <2> HIDE DEF Good
  <2>1. \E f : Good(f, k)
    BY <1>3
  <2>2. QED
    BY <2>1
<1>6. ASSUME NEW d \in D
      PROVE  m[d] + 1 \in Nat /\ d \in B(m[d] + 1)
  BY DEF Below
<1>7. F \in [D -> S]
  <2>1. ASSUME NEW d \in D
        PROVE  part[m[d] + 1][d] \in S
    <3>1. Good(part[m[d] + 1], m[d] + 1) /\ d \in B(m[d] + 1)
      BY <1>5, <1>6
    <3> HIDE DEF part
    <3>2. QED
      BY <3>1 DEF Serves
  <2>2. QED
    BY <2>1
<1>8. ASSUME NEW d \in D
      PROVE  Branches(F, d, stop, next, other, base, step)
  <2> DEFINE k == m[d] + 1
  <2>1. k \in Nat /\ Good(part[k], k) /\ d \in B(k)
    BY <1>5, <1>6
  <2>2. F[d] = part[k][d]
    OBVIOUS
  <2>3. CASE d \in stop
    BY <2>1, <2>2, <2>3, ZenonT(30) DEF Serves, Branches
  <2>4. CASE d \notin stop
    <3>1. ASSUME NEW e \in {next[d], other[d]}
          PROVE  e \in B(k) /\ F[e] = part[k][e]
      <4> DEFINE j == m[e] + 1
      <4>1. e \in D /\ m[e] \in Nat /\ m[d] \in Nat /\ m[e] < m[d]
        BY <2>4
      <4>2. j \in Nat /\ Good(part[j], j) /\ e \in B(j)
        BY <1>5, <1>6, <4>1
      <4>3. e \in B(k)
        BY <4>1 DEF Below
      <4>4. F[e] = part[j][e]
        BY <4>1
      <4> HIDE DEF k, j, part, F, Good
      <4>5. QED
        BY <1>4, <2>1, <4>2, <4>3, <4>4
    <3> HIDE DEF k, part, F
    <3>2. F[next[d]] = part[k][next[d]] /\ F[other[d]] = part[k][other[d]]
      BY <3>1
    <3>3. part[k][d] = step[<<d, part[k][next[d]], part[k][other[d]]>>]
      BY <2>1, <2>4 DEF Good, Serves, Branches
    <3>4. QED
      BY <2>2, <2>4, <3>2, <3>3 DEF Branches
  <2>5. QED
    BY <2>3, <2>4
<1>9. QED
  <2> HIDE DEF F
  <2>1. QED
    BY <1>7, <1>8

\* The same with one other argument.
Unfolds(f, d, stop, next, base, step) ==
  f[d] = IF d \in stop THEN base[d] ELSE step[<<d, f[next[d]]>>]

LEMMA Recursion ==
  ASSUME NEW D, NEW S, NEW m \in [D -> Nat], NEW stop \in SUBSET D, NEW next \in [D -> D],
         NEW base \in [D -> S], NEW step \in [D \X S -> S],
         \A d \in D \ stop : m[next[d]] < m[d]
  PROVE  \E f \in [D -> S] : \A d \in D : Unfolds(f, d, stop, next, base, step)
<1> DEFINE both == [x \in D \X S \X S |-> step[<<x[1], x[2]>>]]
<1>1. both \in [D \X S \X S -> S]
  OBVIOUS
<1>2. PICK f \in [D -> S] : \A d \in D : Branches(f, d, stop, next, next, base, both)
  <2> HIDE DEF both
  <2>1. QED
    BY <1>1, Branching
<1>3. ASSUME NEW d \in D
      PROVE  Unfolds(f, d, stop, next, base, step)
  <2>1. f[next[d]] \in S
    OBVIOUS
  <2>2. both[<<d, f[next[d]], f[next[d]]>>] = step[<<d, f[next[d]]>>]
    BY <2>1
  <2> HIDE DEF both
  <2>3. QED
    BY <1>2, <2>2 DEF Branches, Unfolds
<1>4. QED
  BY <1>3

\* What is computed in rounds: from x, by g.
Rounds(f, x, g, N) == f[0] = x /\ \A k \in 1..N : f[k] = g[<<k, f[k - 1]>>]

LEMMA Iteration ==
  ASSUME NEW S, NEW N \in Nat, NEW x \in S, NEW g \in [(1..N) \X S -> S]
  PROVE  \E f \in [0..N -> S] : Rounds(f, x, g, N)
<1> DEFINE D == 0..N
           next == [k \in D |-> IF k = 0 THEN k ELSE k - 1]
           base == [k \in D |-> x]
           step == [y \in D \X S |-> IF y[1] = 0 THEN y[2] ELSE g[y]]
           m == [k \in D |-> k]
<1>1. next \in [D -> D] /\ base \in [D -> S] /\ m \in [D -> Nat]
  OBVIOUS
<1>2. step \in [D \X S -> S]
  <2>1. ASSUME NEW y \in D \X S
        PROVE  (IF y[1] = 0 THEN y[2] ELSE g[y]) \in S
    <3>1. CASE y[1] = 0
      BY <3>1
    <3>2. CASE y[1] # 0
      <4>1. y \in (1..N) \X S
        BY <3>2
      <4>2. QED
        BY <3>2, <4>1
    <3>3. QED
      BY <3>1, <3>2
  <2>2. QED
    BY <2>1
<1>3. \A k \in D \ {0} : m[next[k]] < m[k]
  OBVIOUS
<1>4. {0} \in SUBSET D
  OBVIOUS
<1>5. PICK f \in [D -> S] : \A k \in D : Unfolds(f, k, {0}, next, base, step)
  <2> HIDE DEF D, next, base, step, m
  <2>1. QED
    BY <1>1, <1>2, <1>3, <1>4, Recursion
<1>6. f[0] = x
  <2>1. 0 \in D /\ 0 \in {0} /\ base[0] = x
    OBVIOUS
  <2> HIDE DEF D, base, step, next
  <2>2. QED
    BY <1>5, <2>1 DEF Unfolds
<1>7. ASSUME NEW k \in 1..N
      PROVE  f[k] = g[<<k, f[k - 1]>>]
  <2>1. k \in D /\ k - 1 \in D /\ k # 0 /\ next[k] = k - 1
    OBVIOUS
  <2>2. f[k] = step[<<k, f[k - 1]>>]
    <3> HIDE DEF D, next, base, step
    <3>1. QED
      BY <1>5, <2>1 DEF Unfolds
  <2>3. f[k - 1] \in S
    BY <2>1
  <2>4. QED
    BY <2>1, <2>2, <2>3
<1>8. QED
  BY <1>6, <1>7 DEF Rounds

-----------------------------------------------------------------------------
(* Sequences of sequences, end to end.                                     *)

\* What FlattenSeq computes on the way to its result.
Flattens(f, ss) ==
  \A i \in DOMAIN ss : f[i] = IF i = 1 THEN ss[i] ELSE f[i - 1] \o ss[i]

\* FlattenSeq joins its sequences one by one, from the first.
LEMMA FlattenSteps ==
  ASSUME NEW X, NEW ss \in Seq(Seq(X)), ss # <<>>
  PROVE  \E f \in [DOMAIN ss -> Seq(X)] : Flattens(f, ss) /\ FlattenSeq(ss) = f[Len(ss)]
<1> DEFINE D == 1..Len(ss)
           next == [i \in D |-> IF i = 1 THEN i ELSE i - 1]
           base == [i \in D |-> ss[i]]
           step == [x \in D \X Seq(X) |-> x[2] \o ss[x[1]]]
           m == [i \in D |-> i]
           Meets(f) == f = [i \in D |-> IF i = 1 THEN ss[i] ELSE f[i - 1] \o ss[i]]
<1>1. Len(ss) \in Nat \ {0} /\ DOMAIN ss = D /\ \A i \in D : ss[i] \in Seq(X)
  BY EmptySeq, LenProperties, ElementOfSeq
<1> HIDE DEF D
<1>d. D \in SUBSET Nat /\ \A i \in D : i # 1 => i - 1 \in D
  BY <1>1 DEF D
<1>2. \A i \in D : i \in Nat /\ next[i] \in D /\ base[i] \in Seq(X) /\ m[i] = i
  BY <1>1, <1>d
<1>3. \A x \in D \X Seq(X) : step[x] \in Seq(X)
  BY <1>1, ConcatProperties
<1>4. next \in [D -> D] /\ base \in [D -> Seq(X)] /\ m \in [D -> Nat]
      /\ step \in [D \X Seq(X) -> Seq(X)]
  BY <1>2, <1>3
<1>5. \A i \in D \ ({1} \cap D) : m[next[i]] < m[i]
  BY <1>1, <1>2, <1>d
<1>6. PICK f \in [D -> Seq(X)] : \A i \in D : Unfolds(f, i, {1} \cap D, next, base, step)
  <2> HIDE DEF next, base, step, m
  <2>1. QED
    BY <1>4, <1>5, Recursion
<1>7. ASSUME NEW i \in D
      PROVE  f[i] = IF i = 1 THEN ss[i] ELSE f[i - 1] \o ss[i]
  <2>1. CASE i = 1
    BY <1>6, <2>1 DEF Unfolds
  <2>2. CASE i # 1
    <3>1. f[i] = step[<<i, f[i - 1]>>]
      BY <1>6, <2>2 DEF Unfolds
    <3>2. f[i - 1] \in Seq(X)
      BY <1>d, <2>2
    <3>3. QED
      BY <2>2, <3>1, <3>2
  <2>3. QED
    BY <2>1, <2>2
<1>8. Meets(f)
  BY <1>7
<1> DEFINE g == CHOOSE h : Meets(h)
<1>9. Meets(g)
  <2> HIDE DEF Meets
  <2>1. QED
    BY <1>8
<1>10. FlattenSeq(ss) = g[Len(ss)]
  BY <1>1 DEF FlattenSeq, D
<1> HIDE DEF g
<1>11. \A i \in D : g[i] = IF i = 1 THEN ss[i] ELSE g[i - 1] \o ss[i]
  BY <1>9
<1>12. \A i \in D : g[i] = f[i]
  <2> DEFINE Same == {i \in Nat : i + 1 \in D => g[i + 1] = f[i + 1]}
  <2>1. 0 \in Same
    <3>1. ASSUME 1 \in D
          PROVE  g[1] = f[1]
      BY <1>7, <1>11, <3>1
    <3>2. QED
      BY <3>1
  <2>2. ASSUME NEW i \in Nat, i \in Same
        PROVE  i + 1 \in Same
    <3>1. ASSUME i + 2 \in D
          PROVE  g[i + 2] = f[i + 2]
      <4>1. i + 1 \in D /\ i + 2 # 1 /\ (i + 2) - 1 = i + 1
        BY <1>d, <3>1
      <4>2. g[i + 1] = f[i + 1]
        BY <2>2, <4>1
      <4>3. f[i + 2] = f[i + 1] \o ss[i + 2] /\ g[i + 2] = g[i + 1] \o ss[i + 2]
        BY <1>7, <1>11, <3>1, <4>1
      <4>4. QED
        BY <4>2, <4>3
    <3>2. QED
      BY <3>1
  <2>3. Nat \subseteq Same
    <3> HIDE DEF Same
    <3>1. QED
      BY <2>1, <2>2, Naturally
  <2>4. ASSUME NEW i \in D
        PROVE  g[i] = f[i]
    <3>1. i - 1 \in Nat /\ (i - 1) + 1 = i
      BY <1>1 DEF D
    <3>2. QED
      BY <2>3, <3>1
  <2>5. QED
    BY <2>4
<1>13. Len(ss) \in D
  BY <1>1 DEF D
<1>14. QED
  BY <1>1, <1>7, <1>10, <1>12, <1>13 DEF Flattens

\* Nothing joined is nothing.
LEMMA FlattenEmpty == FlattenSeq(<<>>) = <<>>
<1>1. Len(<<>>) = 0
  OBVIOUS
<1>2. QED
  BY <1>1 DEF FlattenSeq

\* Sequences of X joined are a sequence of X.
LEMMA FlattenType ==
  ASSUME NEW X, NEW ss \in Seq(Seq(X))
  PROVE  FlattenSeq(ss) \in Seq(X)
<1>1. CASE ss = <<>>
  <2>1. FlattenSeq(ss) = <<>>
    BY <1>1, FlattenEmpty, Zenon
  <2>2. QED
    BY <2>1, EmptySeq
<1>2. CASE ss # <<>>
  <2>1. PICK f \in [DOMAIN ss -> Seq(X)] : FlattenSeq(ss) = f[Len(ss)]
    BY <1>2, FlattenSteps
  <2>2. Len(ss) \in DOMAIN ss
    BY <1>2, EmptySeq, LenProperties
  <2>3. QED
    BY <2>1, <2>2
<1>3. QED
  BY <1>1, <1>2

\* The first sequence comes first.
LEMMA FlattenFirst ==
  ASSUME NEW X, NEW s \in Seq(X), NEW ss \in Seq(Seq(X))
  PROVE  FlattenSeq(<<s>> \o ss) = s \o FlattenSeq(ss)
<1> DEFINE tt == <<s>> \o ss
           n == Len(ss)
<1>1. n \in Nat /\ DOMAIN ss = 1..n
  BY LenProperties
<1>2. /\ tt \in Seq(Seq(X)) /\ Len(tt) = n + 1 /\ tt # <<>> /\ DOMAIN tt = 1..(n + 1)
      /\ tt[1] = s /\ \A i \in 1..n : tt[i + 1] = ss[i]
  OBVIOUS
<1> HIDE DEF tt, n
<1>3. PICK g \in [DOMAIN tt -> Seq(X)] : Flattens(g, tt) /\ FlattenSeq(tt) = g[n + 1]
  BY <1>2, FlattenSteps
<1>4. \A i \in 1..(n + 1) : g[i] \in Seq(X) /\ g[i] = IF i = 1 THEN s ELSE g[i - 1] \o tt[i]
  BY <1>2, <1>3 DEF Flattens
<1>5. CASE ss = <<>>
  <2>1. n = 0
    BY <1>5 DEF n
  <2>2. g[1] = s
    BY <1>4, <2>1
  <2>3. QED
    BY <1>3, <1>5, <2>1, <2>2, FlattenEmpty, ConcatEmptySeq DEF tt
<1>6. CASE ss # <<>>
  <2>1. n \in Nat \ {0}
    BY <1>6, EmptySeq DEF n
  <2>2. PICK f \in [DOMAIN ss -> Seq(X)] : Flattens(f, ss) /\ FlattenSeq(ss) = f[n]
    BY <1>6, FlattenSteps DEF n
  <2>3. \A i \in 1..n : f[i] \in Seq(X) /\ f[i] = IF i = 1 THEN ss[1] ELSE f[i - 1] \o ss[i]
    BY <1>1, <2>2 DEF Flattens
  <2> DEFINE Follow == {i \in Nat : i + 1 \in 1..n => g[i + 2] = s \o f[i + 1]}
  <2>4. 0 \in Follow
    <3>1. 1 \in 1..(n + 1) /\ 2 \in 1..(n + 1) /\ 1 \in 1..n
      BY <2>1
    <3>2. g[1] = s /\ f[1] = ss[1]
      BY <1>4, <2>3, <3>1
    <3>3. g[2] = g[1] \o tt[2]
      <4>1. 2 # 1 /\ 2 - 1 = 1
        OBVIOUS
      <4>2. QED
        BY <1>4, <3>1, <4>1
    <3>4. tt[2] = ss[1]
      BY <1>2, <3>1
    <3>5. g[2] = s \o f[1]
      BY <3>2, <3>3, <3>4, Zenon
    <3>6. QED
      BY <3>5
  <2>5. ASSUME NEW i \in Nat, i \in Follow
        PROVE  i + 1 \in Follow
    <3>1. ASSUME i + 2 \in 1..n
          PROVE  g[i + 3] = s \o f[i + 2]
      <4>1. g[i + 2] = s \o f[i + 1]
        BY <2>5, <3>1, <1>1
      <4>2. g[i + 3] = g[i + 2] \o tt[i + 3]
        <5>1. i + 3 \in 1..(n + 1) /\ i + 3 # 1 /\ (i + 3) - 1 = i + 2
          BY <1>1, <3>1
        <5>2. QED
          BY <1>4, <5>1
      <4>3. tt[i + 3] = ss[i + 2]
        BY <1>1, <1>2, <3>1
      <4>4. f[i + 2] = f[i + 1] \o ss[i + 2] /\ f[i + 1] \in Seq(X) /\ ss[i + 2] \in Seq(X)
        <5>1. i + 1 \in 1..n /\ i + 2 # 1 /\ (i + 2) - 1 = i + 1
          BY <1>1, <3>1
        <5>2. ss[i + 2] \in Seq(X)
          BY <3>1, ElementOfSeq DEF n
        <5>3. QED
          BY <2>3, <3>1, <5>1, <5>2
      <4>5. (s \o f[i + 1]) \o ss[i + 2] = s \o (f[i + 1] \o ss[i + 2])
        <5>1. PICK x, y, z \in Seq(X) : x = s /\ y = f[i + 1] /\ z = ss[i + 2]
          BY <4>4
        <5>2. (x \o y) \o z = x \o (y \o z)
          BY ConcatAssociative
        <5>3. QED
          BY <5>1, <5>2, Zenon
      <4>6. QED
        BY <4>1, <4>2, <4>3, <4>4, <4>5
    <3>2. QED
      BY <3>1
  <2>6. Nat \subseteq Follow
    <3> HIDE DEF Follow
    <3>1. QED
      BY <2>4, <2>5, Naturally
  <2>7. n - 1 \in Nat /\ (n - 1) + 1 = n /\ (n - 1) + 2 = n + 1 /\ n \in 1..n
    BY <2>1
  <2>8. g[n + 1] = s \o f[n]
    BY <2>6, <2>7
  <2>9. QED
    BY <1>3, <2>2, <2>8 DEF tt
<1>7. QED
  BY <1>5, <1>6

\* Where every element of the result comes from, and where all elements go.
LEMMA FlattenGathers ==
  ASSUME NEW X, NEW ss \in Seq(Seq(X)), ss # <<>>
  PROVE  \E f \in [DOMAIN ss -> Seq(X)] :
           /\ Flattens(f, ss) /\ FlattenSeq(ss) = f[Len(ss)]
           /\ \A i \in DOMAIN ss : ToSet(f[i]) = UNION {ToSet(ss[j]) : j \in 1..i}
<1> DEFINE n == Len(ss)
<1>1. n \in Nat /\ DOMAIN ss = 1..n /\ \A i \in 1..n : ss[i] \in Seq(X)
  BY LenProperties, ElementOfSeq
<1> HIDE DEF n
<1>2. n \in Nat \ {0}
  BY EmptySeq DEF n
<1>3. PICK f \in [DOMAIN ss -> Seq(X)] : Flattens(f, ss) /\ FlattenSeq(ss) = f[n]
  BY FlattenSteps DEF n
<1>4. \A i \in 1..n : f[i] \in Seq(X) /\ f[i] = IF i = 1 THEN ss[1] ELSE f[i - 1] \o ss[i]
  BY <1>1, <1>3 DEF Flattens
<1> DEFINE upTo(i) == UNION {ToSet(ss[j]) : j \in 1..i}
           Held == {i \in Nat : i + 1 \in 1..n => ToSet(f[i + 1]) = upTo(i + 1)}
<1>5. 0 \in Held
  <2>1. f[1] = ss[1] /\ 1..1 = {1}
    BY <1>2, <1>4
  <2>2. ToSet(f[1]) = upTo(1)
    BY <2>1
  <2> HIDE DEF upTo
  <2>3. QED
    BY <2>2
<1>6. ASSUME NEW i \in Nat, i \in Held
      PROVE  i + 1 \in Held
  <2>1. ASSUME i + 2 \in 1..n
        PROVE  ToSet(f[i + 2]) = upTo(i + 2)
    <3>1. i + 1 \in 1..n /\ i + 2 # 1 /\ (i + 2) - 1 = i + 1
      BY <1>1, <2>1
    <3>2. f[i + 2] = f[i + 1] \o ss[i + 2] /\ f[i + 1] \in Seq(X) /\ ss[i + 2] \in Seq(X)
      BY <1>1, <1>4, <2>1, <3>1
    <3>3. ToSet(f[i + 2]) = ToSet(f[i + 1]) \cup ToSet(ss[i + 2])
      <4>1. Range(f[i + 2]) = Range(f[i + 1]) \cup Range(ss[i + 2])
        BY <3>2, RangeConcatenation
      <4>2. QED
        BY <4>1 DEF ToSet, Range
    <3>4. ToSet(f[i + 1]) = upTo(i + 1)
      BY <1>6, <3>1
    <3>5. upTo(i + 2) = upTo(i + 1) \cup ToSet(ss[i + 2])
      <4>1. 1..(i + 2) = 1..(i + 1) \cup {i + 2}
        OBVIOUS
      <4>2. QED
        BY <4>1
    <3>6. QED
      BY <3>3, <3>4, <3>5
  <2> HIDE DEF upTo
  <2>2. QED
    BY <2>1
<1>7. Nat \subseteq Held
  <2> HIDE DEF Held
  <2>1. QED
    BY <1>5, <1>6, Naturally
<1>8. ASSUME NEW i \in 1..n
      PROVE  ToSet(f[i]) = upTo(i)
  <2>1. i - 1 \in Nat /\ (i - 1) + 1 = i
    BY <1>1
  <2> HIDE DEF upTo
  <2>2. QED
    BY <1>7, <2>1
<1>9. QED
  BY <1>1, <1>3, <1>8 DEF n

\* What is joined holds what the pieces hold.
LEMMA FlattenHolds ==
  ASSUME NEW X, NEW ss \in Seq(Seq(X))
  PROVE  ToSet(FlattenSeq(ss)) = UNION {ToSet(ss[i]) : i \in DOMAIN ss}
<1>1. Len(ss) \in Nat /\ DOMAIN ss = 1..Len(ss)
  BY LenProperties
<1>2. CASE ss = <<>>
  <2>1. DOMAIN ss = {}
    BY <1>2
  <2>2. QED
    BY <1>2, <2>1, FlattenEmpty DEF ToSet
<1>3. CASE ss # <<>>
  <2>1. PICK f \in [DOMAIN ss -> Seq(X)] :
          /\ Flattens(f, ss) /\ FlattenSeq(ss) = f[Len(ss)]
          /\ \A i \in DOMAIN ss : ToSet(f[i]) = UNION {ToSet(ss[j]) : j \in 1..i}
    BY <1>3, FlattenGathers
  <2>2. Len(ss) \in DOMAIN ss
    BY <1>1, <1>3, EmptySeq
  <2>3. QED
    BY <1>1, <2>1, <2>2
<1>4. QED
  BY <1>2, <1>3

\* Two sequences without repetitions that share nothing have none together.
LEMMA ConcatDistinct ==
  ASSUME NEW X, NEW s \in Seq(X), NEW t \in Seq(X), IsInjective(s), IsInjective(t),
         ToSet(s) \cap ToSet(t) = {}
  PROVE  IsInjective(s \o t)
<1> SUFFICES ASSUME NEW i \in DOMAIN (s \o t), NEW j \in DOMAIN (s \o t), (s \o t)[i] = (s \o t)[j]
             PROVE  i = j
  BY DEF IsInjective
<1>1. /\ Len(s) \in Nat /\ Len(t) \in Nat /\ DOMAIN s = 1..Len(s) /\ DOMAIN t = 1..Len(t)
      /\ DOMAIN (s \o t) = 1..(Len(s) + Len(t))
  BY LenProperties, ConcatProperties
<1>2. ASSUME NEW k \in 1..(Len(s) + Len(t))
      PROVE  \/ k \in DOMAIN s /\ (s \o t)[k] = s[k]
             \/ k - Len(s) \in DOMAIN t /\ (s \o t)[k] = t[k - Len(s)]
  BY <1>1, ConcatProperties
<1>3. i \in 1..(Len(s) + Len(t)) /\ j \in 1..(Len(s) + Len(t))
  BY <1>1
<1>4. CASE i \in DOMAIN s /\ (s \o t)[i] = s[i]
  <2>1. CASE j \in DOMAIN s /\ (s \o t)[j] = s[j]
    BY <1>4, <2>1 DEF IsInjective
  <2>2. CASE j - Len(s) \in DOMAIN t /\ (s \o t)[j] = t[j - Len(s)]
    <3>1. s[i] \in ToSet(s) /\ s[i] \in ToSet(t)
      BY <1>4, <2>2 DEF ToSet
    <3>2. QED
      BY <3>1
  <2>3. QED
    BY <1>2, <1>3, <2>1, <2>2
<1>5. CASE i - Len(s) \in DOMAIN t /\ (s \o t)[i] = t[i - Len(s)]
  <2>1. CASE j \in DOMAIN s /\ (s \o t)[j] = s[j]
    <3>1. s[j] \in ToSet(s) /\ s[j] \in ToSet(t)
      BY <1>5, <2>1 DEF ToSet
    <3>2. QED
      BY <3>1
  <2>2. CASE j - Len(s) \in DOMAIN t /\ (s \o t)[j] = t[j - Len(s)]
    <3>1. i - Len(s) = j - Len(s)
      BY <1>5, <2>2 DEF IsInjective
    <3>2. QED
      BY <1>1, <1>3, <3>1
  <2>3. QED
    BY <1>2, <1>3, <2>1, <2>2
<1>6. QED
  BY <1>2, <1>3, <1>4, <1>5

\* Nor have any number of them.
LEMMA FlattenDistinct ==
  ASSUME NEW X, NEW ss \in Seq(Seq(X)), \A i \in DOMAIN ss : IsInjective(ss[i]),
         \A i, j \in DOMAIN ss : i # j => ToSet(ss[i]) \cap ToSet(ss[j]) = {}
  PROVE  IsInjective(FlattenSeq(ss))
<1> DEFINE n == Len(ss)
<1>1. n \in Nat /\ DOMAIN ss = 1..n /\ \A i \in 1..n : ss[i] \in Seq(X)
  BY LenProperties, ElementOfSeq
<1>2. CASE ss = <<>>
  <2>1. FlattenSeq(ss) = <<>>
    BY <1>2, FlattenEmpty, Zenon
  <2>2. QED
    BY <2>1 DEF IsInjective
<1>3. CASE ss # <<>>
  <2>0. n \in Nat \ {0}
    BY <1>3, EmptySeq
  <2>1. PICK f \in [DOMAIN ss -> Seq(X)] :
          /\ Flattens(f, ss) /\ FlattenSeq(ss) = f[n]
          /\ \A i \in DOMAIN ss : ToSet(f[i]) = UNION {ToSet(ss[j]) : j \in 1..i}
    BY <1>3, FlattenGathers
  <2> HIDE DEF n
  <2>2. \A i \in 1..n : f[i] \in Seq(X) /\ f[i] = IF i = 1 THEN ss[1] ELSE f[i - 1] \o ss[i]
    BY <1>1, <2>1 DEF Flattens
  <2> DEFINE Once == {i \in Nat : i + 1 \in 1..n => IsInjective(f[i + 1])}
  <2>3. 0 \in Once
    <3>1. 1 \in 1..n /\ f[1] = ss[1]
      BY <2>0, <2>2
    <3>2. IsInjective(f[1])
      BY <1>1, <3>1, Zenon
    <3>3. QED
      BY <3>2
  <2>4. ASSUME NEW i \in Nat, i \in Once
        PROVE  i + 1 \in Once
    <3>1. ASSUME i + 2 \in 1..n
          PROVE  IsInjective(f[i + 2])
      <4>1. i + 1 \in 1..n /\ i + 2 # 1 /\ (i + 2) - 1 = i + 1
        BY <1>1, <3>1
      <4>2. f[i + 2] = f[i + 1] \o ss[i + 2] /\ f[i + 1] \in Seq(X) /\ ss[i + 2] \in Seq(X)
        BY <1>1, <2>2, <3>1, <4>1
      <4>3. ToSet(f[i + 1]) \cap ToSet(ss[i + 2]) = {}
        <5>1. ToSet(f[i + 1]) = UNION {ToSet(ss[j]) : j \in 1..(i + 1)}
          BY <1>1, <2>1, <4>1
        <5>2. \A j \in 1..(i + 1) : j \in 1..n /\ j # i + 2
          BY <1>1, <3>1
        <5>3. \A j \in 1..(i + 1) : ToSet(ss[j]) \cap ToSet(ss[i + 2]) = {}
          BY <1>1, <3>1, <5>2
        <5>4. QED
          BY <5>1, <5>3
      <4>4. IsInjective(f[i + 1]) /\ IsInjective(ss[i + 2])
        BY <1>1, <2>4, <3>1, <4>1
      <4>5. QED
        <5>1. PICK x, y \in Seq(X) : x = f[i + 1] /\ y = ss[i + 2]
          BY <4>2
        <5>2. IsInjective(x \o y)
          BY <4>3, <4>4, <5>1, ConcatDistinct
        <5>3. QED
          BY <4>2, <5>1, <5>2, Zenon
    <3>2. QED
      BY <3>1
  <2>5. Nat \subseteq Once
    <3> HIDE DEF Once
    <3>1. QED
      BY <2>3, <2>4, Naturally
  <2>6. n - 1 \in Nat /\ (n - 1) + 1 = n /\ n \in 1..n
    BY <2>0
  <2>7. QED
    BY <2>1, <2>5, <2>6
<1>4. QED
  BY <1>2, <1>3

\* Two sequences together hold what either holds.
LEMMA ConcatHolds ==
  ASSUME NEW X, NEW s \in Seq(X), NEW t \in Seq(X)
  PROVE  ToSet(s \o t) = ToSet(s) \cup ToSet(t)
<1>1. /\ Len(s) \in Nat /\ Len(t) \in Nat /\ DOMAIN s = 1..Len(s) /\ DOMAIN t = 1..Len(t)
      /\ DOMAIN (s \o t) = 1..(Len(s) + Len(t))
      /\ \A i \in 1..(Len(s) + Len(t)) :
           (s \o t)[i] = IF i <= Len(s) THEN s[i] ELSE t[i - Len(s)]
  BY LenProperties, ConcatProperties
<1>2. ASSUME NEW x \in ToSet(s)
      PROVE  x \in ToSet(s \o t)
  <2>1. PICK i \in 1..Len(s) : x = s[i]
    BY <1>1 DEF ToSet
  <2>2. i \in 1..(Len(s) + Len(t)) /\ (s \o t)[i] = x
    BY <1>1, <2>1
  <2>3. QED
    BY <1>1, <2>2 DEF ToSet
<1>3. ASSUME NEW x \in ToSet(t)
      PROVE  x \in ToSet(s \o t)
  <2>1. PICK i \in 1..Len(t) : x = t[i]
    BY <1>1 DEF ToSet
  <2>2. Len(s) + i \in 1..(Len(s) + Len(t)) /\ (Len(s) + i) - Len(s) = i /\ ~(Len(s) + i <= Len(s))
    BY <1>1, <2>1
  <2>3. (s \o t)[Len(s) + i] = x
    BY <1>1, <2>1, <2>2
  <2>4. QED
    BY <1>1, <2>2, <2>3 DEF ToSet
<1>4. ASSUME NEW x \in ToSet(s \o t)
      PROVE  x \in ToSet(s) \cup ToSet(t)
  <2>1. PICK i \in 1..(Len(s) + Len(t)) : x = (s \o t)[i]
    BY <1>1 DEF ToSet
  <2>2. CASE i <= Len(s)
    BY <1>1, <2>1, <2>2 DEF ToSet
  <2>3. CASE ~(i <= Len(s))
    <3>1. i - Len(s) \in 1..Len(t) /\ x = t[i - Len(s)]
      BY <1>1, <2>1, <2>3
    <3>2. QED
      BY <1>1, <3>1 DEF ToSet
  <2>4. QED
    BY <2>2, <2>3
<1>5. QED
  BY <1>2, <1>3, <1>4
-----------------------------------------------------------------------------
(* Driving on along roads.                                                 *)

\* A nonempty set of naturals holds its minimum.
LEMMA MinOf ==
  ASSUME NEW S \in SUBSET Nat, S # {}
  PROVE  Min(S) \in S /\ \A m \in S : Min(S) <= m
<1>1. \E x \in S : \A y \in S : x <= y
  BY LeastOf
<1>2. QED
  BY <1>1 DEF Min

Road == [a : Nat, b : Nat, name : Nat, oneway : BOOLEAN, via : Seq(DOMAIN Place)]

\* A network as it is written to a file.
IsNetwork(n) == n.positions \in Seq(DOMAIN Place) /\ n.roads \in Seq(Road)

Corners(n) == DOMAIN n.positions

\* A network whose roads lie between its intersections.
Laid(n) ==
  /\ IsNetwork(n)
  /\ \A i \in DOMAIN n.roads : n.roads[i].a \in Corners(n) /\ n.roads[i].b \in Corners(n)

\* The i-th road can be driven from x to y.
DrivenBy(n, i, x, y) ==
  \/ n.roads[i].a = x /\ n.roads[i].b = y
  \/ n.roads[i].b = x /\ n.roads[i].a = y /\ ~n.roads[i].oneway

Joins(n, x, y) == \E i \in DOMAIN n.roads : DrivenBy(n, i, x, y)

\* A set that is not left by any road.
KeptIn(n, S) == \A x, y \in Corners(n) : x \in S /\ Joins(n, x, y) => y \in S

\* Whoever is at x and drives on can come to y.
LeadsTo(n, x, y) == \A S \in SUBSET Corners(n) : x \in S /\ KeptIn(n, S) => y \in S

\* What x and y are when each can be reached from the other.
Class(n, x) == {y \in Corners(n) : LeadsTo(n, x, y) /\ LeadsTo(n, y, x)}

LEMMA CornersOf ==
  ASSUME NEW n, Laid(n)
  PROVE  /\ Len(n.positions) \in Nat /\ Corners(n) = 1..Len(n.positions)
         /\ IsFiniteSet(Corners(n)) /\ Cardinality(Corners(n)) = Len(n.positions)
<1>1. Len(n.positions) \in Nat /\ Corners(n) = 1..Len(n.positions)
  BY LenProperties DEF Laid, IsNetwork, Corners
<1>2. /\ IsFiniteSet(1..Len(n.positions))
      /\ Cardinality(1..Len(n.positions))
           = IF 1 > Len(n.positions) THEN 0 ELSE Len(n.positions) - 1 + 1
  BY <1>1, FS_Interval, SMTT(30)
<1>3. QED
  BY <1>1, <1>2

LEMMA RoadsOf ==
  ASSUME NEW n, Laid(n)
  PROVE  /\ Len(n.roads) \in Nat /\ DOMAIN n.roads = 1..Len(n.roads)
         /\ \A i \in DOMAIN n.roads :
              /\ n.roads[i].a \in Corners(n) /\ n.roads[i].b \in Corners(n)
              /\ n.roads[i].oneway \in BOOLEAN
<1>1. Len(n.roads) \in Nat /\ DOMAIN n.roads = 1..Len(n.roads)
  BY LenProperties DEF Laid, IsNetwork
<1>2. ASSUME NEW i \in DOMAIN n.roads
      PROVE  n.roads[i].oneway \in BOOLEAN
  <2>1. n.roads[i] \in Road
    BY ElementOfSeq, <1>1 DEF Laid, IsNetwork
  <2>2. QED
    BY <2>1 DEF Road
<1>3. QED
  BY <1>1, <1>2 DEF Laid

LEMMA JoinsCorners ==
  ASSUME NEW n, Laid(n), NEW x, NEW y, Joins(n, x, y)
  PROVE  x \in Corners(n) /\ y \in Corners(n)
BY RoadsOf DEF Joins, DrivenBy

LEMMA LeadsBack ==
  ASSUME NEW n, NEW x
  PROVE  LeadsTo(n, x, x)
BY DEF LeadsTo

LEMMA LeadsOn ==
  ASSUME NEW n, Laid(n), NEW x, NEW y, NEW z, LeadsTo(n, x, y), Joins(n, y, z)
  PROVE  LeadsTo(n, x, z)
BY JoinsCorners DEF LeadsTo, KeptIn

LEMMA LeadsFrom ==
  ASSUME NEW n, Laid(n), NEW x, NEW y, NEW z, Joins(n, x, y), LeadsTo(n, y, z)
  PROVE  LeadsTo(n, x, z)
BY JoinsCorners DEF LeadsTo, KeptIn

LEMMA LeadsFar ==
  ASSUME NEW n, NEW x, NEW y, NEW z, LeadsTo(n, x, y), LeadsTo(n, y, z)
  PROVE  LeadsTo(n, x, z)
BY DEF LeadsTo

LEMMA SameClass ==
  ASSUME NEW n, NEW x \in Corners(n), NEW y \in Class(n, x)
  PROVE  Class(n, y) = Class(n, x) /\ x \in Class(n, x) /\ x \in Class(n, y)
<1>1. LeadsTo(n, x, y) /\ LeadsTo(n, y, x) /\ y \in Corners(n)
  BY DEF Class
<1>2. ASSUME NEW z \in Class(n, x)
      PROVE  z \in Class(n, y)
  BY <1>1, <1>2, LeadsFar DEF Class
<1>3. ASSUME NEW z \in Class(n, y)
      PROVE  z \in Class(n, x)
  BY <1>1, <1>3, LeadsFar DEF Class
<1>4. x \in Class(n, x)
  BY LeadsBack DEF Class
<1>5. QED
  BY <1>2, <1>3, <1>4

\* The road that is taken on leads to a node that has not been seen; without one there is none.
LEMMA OnwardLeads ==
  ASSUME NEW n, Laid(n), NEW seen, NEW at \in seen
  PROVE  /\ Onward(n.roads, at, seen) = {} => \A y : Joins(n, at, y) => y \in seen
         /\ Onward(n.roads, at, seen) # {} =>
              LET y == FarEnd(n.roads[Min(Onward(n.roads, at, seen))], at)
              IN  Joins(n, at, y) /\ y \notin seen
<1> DEFINE O == Onward(n.roads, at, seen)
<1>1. O \in SUBSET Nat /\ O \subseteq DOMAIN n.roads
  BY RoadsOf DEF Onward
<1>2. ASSUME O = {}
      PROVE  \A y : Joins(n, at, y) => y \in seen
  BY <1>2 DEF Onward, Joins, DrivenBy
<1>3. ASSUME O # {}
      PROVE  LET y == FarEnd(n.roads[Min(O)], at)
             IN  Joins(n, at, y) /\ y \notin seen
  <2>1. PICK i : i = Min(O)
    OBVIOUS
  <2>2. i \in O /\ i \in DOMAIN n.roads
    <3> HIDE DEF O
    <3>1. QED
      BY <1>1, <1>3, <2>1, MinOf
  <2>3. \/ n.roads[i].a = at /\ n.roads[i].b \notin seen
        \/ n.roads[i].b = at /\ n.roads[i].a \notin seen /\ ~n.roads[i].oneway
    BY <2>2 DEF Onward
  <2>4. Joins(n, at, FarEnd(n.roads[i], at)) /\ FarEnd(n.roads[i], at) \notin seen
    BY <2>2, <2>3 DEF Joins, DrivenBy, FarEnd
  <2>5. QED
    BY <2>1, <2>4
<1>4. QED
  BY <1>2, <1>3
-----------------------------------------------------------------------------
(* The first pass: the order in which the visits end.                      *)

\* Whoever has been seen is on the stack or has been left, once.
Accounted(n, seen, order, stack) ==
  /\ seen \in SUBSET Corners(n) /\ order \in Seq(Corners(n)) /\ stack \in Seq(Corners(n))
  /\ IsInjective(order) /\ IsInjective(stack)
  /\ ToSet(order) \cap ToSet(stack) = {}
  /\ seen = ToSet(order) \cup ToSet(stack)

\* No visit ends before whatever it leads to has been seen.
LeftLate(n, seen, order) ==
  \A i \in DOMAIN order : \A y \in Corners(n) : Joins(n, order[i], y) => y \in seen

\* What x leads to of the order from s on, and that no road leads there from before s.
Spans(n, order, s, i) ==
  /\ \A j \in s..i : LeadsTo(n, order[i], order[j])
  /\ \A h \in 1..(s - 1) : \A j \in s..i : ~Joins(n, order[h], order[j])

\* Every node that has been left leads to all that were left since some node, and there is
\* no way into these from the ones left before.
Ranged(n, order) == \A i \in DOMAIN order : \E s \in 1..i : Spans(n, order, s, i)

\* What a node on the stack leads to: all that were left since its mark, and all that are
\* above it on the stack; and no road leads there from what was left before.
Marks(n, order, stack, mark) ==
  \A p \in DOMAIN stack :
    /\ \A i \in mark[p]..Len(order) : LeadsTo(n, stack[p], order[i])
    /\ \A q \in p..Len(stack) : LeadsTo(n, stack[p], stack[q])
    /\ \A h \in 1..(mark[p] - 1) :
         /\ \A j \in mark[p]..Len(order) : ~Joins(n, order[h], order[j])
         /\ \A q \in p..Len(stack) : ~Joins(n, order[h], stack[q])

Marked(n, order, stack) ==
  \E mark \in [DOMAIN stack -> 1..(Len(order) + 1)] : Marks(n, order, stack, mark)

WalkInv(n, w) ==
  /\ Accounted(n, w.seen, w.order, w.stack)
  /\ LeftLate(n, w.seen, w.order)
  /\ Ranged(n, w.order)
  /\ Marked(n, w.order, w.stack)

\* What is appended comes last and changes nothing else.
LEMMA AppendFacts ==
  ASSUME NEW X, NEW s \in Seq(X), NEW x \in X
  PROVE  /\ Append(s, x) \in Seq(X) /\ Len(s) \in Nat /\ DOMAIN s = 1..Len(s)
         /\ Len(Append(s, x)) = Len(s) + 1 /\ DOMAIN Append(s, x) = 1..(Len(s) + 1)
         /\ \A i \in 1..Len(s) : Append(s, x)[i] = s[i]
         /\ Append(s, x)[Len(s) + 1] = x
         /\ ToSet(Append(s, x)) = ToSet(s) \cup {x}
<1>1. /\ Append(s, x) \in Seq(X) /\ Len(s) \in Nat /\ DOMAIN s = 1..Len(s)
      /\ Len(Append(s, x)) = Len(s) + 1
      /\ \A i \in 1..Len(s) : Append(s, x)[i] = s[i]
      /\ Append(s, x)[Len(s) + 1] = x
  BY AppendProperties, LenProperties
<1>2. DOMAIN Append(s, x) = 1..(Len(s) + 1)
  BY <1>1, LenProperties
<1>3. ToSet(Append(s, x)) = ToSet(s) \cup {x}
  <2>1. \A y \in ToSet(s) : y \in ToSet(Append(s, x))
    BY <1>1, <1>2 DEF ToSet
  <2>2. x \in ToSet(Append(s, x))
    BY <1>1, <1>2 DEF ToSet
  <2>3. ASSUME NEW y \in ToSet(Append(s, x))
        PROVE  y \in ToSet(s) \cup {x}
    <3>1. PICK i \in 1..(Len(s) + 1) : y = Append(s, x)[i]
      BY <1>2 DEF ToSet
    <3>2. CASE i = Len(s) + 1
      BY <1>1, <3>1, <3>2
    <3>3. CASE i # Len(s) + 1
      BY <1>1, <3>1, <3>3 DEF ToSet
    <3>4. QED
      BY <3>2, <3>3
  <2>4. QED
    BY <2>1, <2>2, <2>3
<1>4. QED
  BY <1>1, <1>2, <1>3

\* Something new keeps a sequence without repetitions.
LEMMA AppendDistinct ==
  ASSUME NEW X, NEW s \in Seq(X), NEW x \in X, IsInjective(s), x \notin ToSet(s)
  PROVE  IsInjective(Append(s, x))
<1> DEFINE t == Append(s, x)
<1>1. /\ DOMAIN s = 1..Len(s) /\ DOMAIN t = 1..(Len(s) + 1) /\ Len(s) \in Nat
      /\ (\A i \in 1..Len(s) : t[i] = s[i]) /\ t[Len(s) + 1] = x
  BY AppendFacts
<1>2. \A i \in 1..Len(s) : s[i] # x
  BY <1>1 DEF ToSet
<1> HIDE DEF t
<1>3. ASSUME NEW i \in DOMAIN t, NEW j \in DOMAIN t, t[i] = t[j]
      PROVE  i = j
  <2>1. CASE i = Len(s) + 1
    BY <1>1, <1>2, <1>3, <2>1
  <2>2. CASE j = Len(s) + 1
    BY <1>1, <1>2, <1>3, <2>2
  <2>3. CASE i \in 1..Len(s) /\ j \in 1..Len(s)
    BY <1>1, <1>3, <2>3 DEF IsInjective
  <2>4. QED
    BY <1>1, <1>3, <2>1, <2>2, <2>3
<1>4. QED
  BY <1>3 DEF IsInjective, t

\* A sequence is its front and its last element.
LEMMA FrontFacts ==
  ASSUME NEW X, NEW s \in Seq(X), s # <<>>
  PROVE  /\ Len(s) \in Nat \ {0} /\ DOMAIN s = 1..Len(s) /\ Last(s) = s[Len(s)] /\ Last(s) \in X
         /\ Front(s) \in Seq(X) /\ Len(Front(s)) = Len(s) - 1
         /\ DOMAIN Front(s) = 1..(Len(s) - 1) /\ \A i \in 1..(Len(s) - 1) : Front(s)[i] = s[i]
         /\ ToSet(s) = ToSet(Front(s)) \cup {Last(s)}
         /\ IsInjective(s) => IsInjective(Front(s)) /\ Last(s) \notin ToSet(Front(s))
<1>1. Len(s) \in Nat \ {0} /\ DOMAIN s = 1..Len(s) /\ \A i \in 1..Len(s) : s[i] \in X
  BY EmptySeq, LenProperties, ElementOfSeq
<1>2. Last(s) = s[Len(s)] /\ Last(s) \in X
  BY <1>1 DEF Last
<1>3. /\ Front(s) \in Seq(X) /\ Len(Front(s)) = Len(s) - 1
      /\ DOMAIN Front(s) = 1..(Len(s) - 1) /\ \A i \in 1..(Len(s) - 1) : Front(s)[i] = s[i]
  BY <1>1 DEF Front
<1>4. ToSet(s) = ToSet(Front(s)) \cup {Last(s)}
  <2>1. \A i \in 1..Len(s) : i = Len(s) \/ i \in 1..(Len(s) - 1)
    <3>1. Len(s) \in Nat
      BY <1>1
    <3>2. QED
      BY <3>1
  <2>2. \A i \in 1..(Len(s) - 1) : i \in 1..Len(s)
    BY <1>1
  <2>3. Len(s) \in 1..Len(s)
    BY <1>1
  <2>4. QED
    BY <1>1, <1>2, <1>3, <2>1, <2>2, <2>3, ZenonT(30) DEF ToSet
<1>5. ASSUME IsInjective(s)
      PROVE  IsInjective(Front(s)) /\ Last(s) \notin ToSet(Front(s))
  <2>1. IsInjective(Front(s))
    BY <1>1, <1>3, <1>5 DEF IsInjective
  <2>2. ASSUME Last(s) \in ToSet(Front(s))
        PROVE  FALSE
    <3>1. PICK i \in 1..(Len(s) - 1) : Last(s) = Front(s)[i]
      BY <1>3, <2>2 DEF ToSet
    <3>2. s[i] = s[Len(s)] /\ i \in DOMAIN s /\ Len(s) \in DOMAIN s
      BY <1>1, <1>2, <1>3, <3>1
    <3>3. i = Len(s)
      BY <1>5, <3>2 DEF IsInjective
    <3>4. QED
      BY <1>1, <3>1, <3>3
  <2>3. QED
    BY <2>1, <2>2
<1>6. QED
  BY <1>1, <1>2, <1>3, <1>4, <1>5

\* A node is put on the stack that has not been seen: the first of a tree, or a neighbour of
\* the one above which it comes.
LEMMA SeeKeeps ==
  ASSUME NEW n, Laid(n), NEW seen, NEW order, NEW stack, NEW y \in Corners(n), y \notin seen,
         Accounted(n, seen, order, stack), LeftLate(n, seen, order), Marked(n, order, stack),
         stack # <<>> => Joins(n, Last(stack), y)
  PROVE  /\ Accounted(n, seen \cup {y}, order, Append(stack, y))
         /\ LeftLate(n, seen \cup {y}, order)
         /\ Marked(n, order, Append(stack, y))
<1> DEFINE t == Append(stack, y)
           L == Len(stack)
<1>1. /\ t \in Seq(Corners(n)) /\ L \in Nat /\ DOMAIN stack = 1..L /\ Len(t) = L + 1
      /\ DOMAIN t = 1..(L + 1) /\ (\A i \in 1..L : t[i] = stack[i]) /\ t[L + 1] = y
      /\ ToSet(t) = ToSet(stack) \cup {y}
  BY AppendFacts DEF Accounted
<1>2. IsInjective(t)
  BY AppendDistinct DEF Accounted
<1>3. Len(order) \in Nat /\ DOMAIN order = 1..Len(order)
  BY LenProperties DEF Accounted
<1>4. \A h \in 1..Len(order) : ~Joins(n, order[h], y)
  BY <1>3 DEF LeftLate
<1>5. PICK mark \in [1..L -> 1..(Len(order) + 1)] : Marks(n, order, stack, mark)
  BY <1>1 DEF Marked
<1> HIDE DEF t, L
<1> DEFINE new == [p \in 1..(L + 1) |-> IF p = L + 1 THEN Len(order) + 1 ELSE mark[p]]
<1>6. new \in [1..(L + 1) -> 1..(Len(order) + 1)]
  BY <1>1, <1>3
<1>7. ASSUME NEW p \in 1..(L + 1)
      PROVE  /\ \A i \in new[p]..Len(order) : LeadsTo(n, t[p], order[i])
             /\ \A q \in p..(L + 1) : LeadsTo(n, t[p], t[q])
             /\ \A h \in 1..(new[p] - 1) :
                  /\ \A j \in new[p]..Len(order) : ~Joins(n, order[h], order[j])
                  /\ \A q \in p..(L + 1) : ~Joins(n, order[h], t[q])
  <2>1. CASE p = L + 1
    <3>1. new[p] = Len(order) + 1 /\ t[p] = y
      BY <1>1, <2>1
    <3>2. \A q \in p..(L + 1) : q = p
      BY <1>1, <2>1
    <3>3. \A i \in new[p]..Len(order) : FALSE
      BY <1>3, <3>1
    <3>4. \A h \in 1..(new[p] - 1) : h \in 1..Len(order)
      BY <1>3, <3>1
    <3> HIDE DEF new
    <3>5. QED
      BY <1>4, <3>1, <3>2, <3>3, <3>4, LeadsBack
  <2>2. CASE p # L + 1
    <3>1. p \in 1..L /\ new[p] = mark[p] /\ t[p] = stack[p] /\ mark[p] \in 1..(Len(order) + 1)
      BY <1>1, <1>5, <2>2
    <3>2. ASSUME NEW q \in p..(L + 1)
          PROVE  \/ q \in p..L /\ t[q] = stack[q]
                 \/ q = L + 1 /\ t[q] = y
      <4>1. q \in p..L => q \in 1..L
        BY <1>1, <3>1
      <4>2. q \in p..L \/ q = L + 1
        BY <1>1, <3>1
      <4>3. QED
        BY <1>1, <4>1, <4>2
    <3>3. /\ \A i \in mark[p]..Len(order) : LeadsTo(n, stack[p], order[i])
          /\ \A q \in p..L : LeadsTo(n, stack[p], stack[q])
          /\ \A h \in 1..(mark[p] - 1) :
               /\ \A j \in mark[p]..Len(order) : ~Joins(n, order[h], order[j])
               /\ \A q \in p..L : ~Joins(n, order[h], stack[q])
      BY <1>1, <1>5, <3>1 DEF Marks, L
    <3>4. LeadsTo(n, stack[p], y)
      <4>1. L \in p..L /\ stack # <<>>
        BY <1>1, <3>1
      <4>2. Last(stack) = stack[L]
        BY DEF Last, L
      <4>3. LeadsTo(n, stack[p], Last(stack)) /\ Joins(n, Last(stack), y)
        BY <3>3, <4>1, <4>2
      <4>4. QED
        BY <4>3, LeadsOn
    <3>5. \A h \in 1..(mark[p] - 1) : h \in 1..Len(order)
      BY <1>3, <3>1
    <3> HIDE DEF new
    <3>6. QED
      BY <1>4, <3>1, <3>2, <3>3, <3>4, <3>5
  <2>3. QED
    BY <2>1, <2>2
<1>8. Marked(n, order, t)
  <2> HIDE DEF new
  <2>1. Marks(n, order, t, new)
    BY <1>1, <1>7 DEF Marks
  <2>2. QED
    BY <1>1, <1>6, <2>1 DEF Marked
<1>9. Accounted(n, seen \cup {y}, order, t)
  BY <1>1, <1>2 DEF Accounted
<1>10. QED
  BY <1>8, <1>9 DEF t, LeftLate

\* The visit of the node on top of the stack ends.
LEMMA LeaveKeeps ==
  ASSUME NEW n, Laid(n), NEW seen, NEW order, NEW stack, stack # <<>>,
         Accounted(n, seen, order, stack), LeftLate(n, seen, order), Ranged(n, order),
         Marked(n, order, stack), \A y : Joins(n, Last(stack), y) => y \in seen
  PROVE  /\ Accounted(n, seen, Append(order, Last(stack)), Front(stack))
         /\ LeftLate(n, seen, Append(order, Last(stack)))
         /\ Ranged(n, Append(order, Last(stack)))
         /\ Marked(n, Append(order, Last(stack)), Front(stack))
<1> DEFINE L == Len(stack)
           M == Len(order)
           top == Last(stack)
           o == Append(order, top)
           f == Front(stack)
<1>1. /\ L \in Nat \ {0} /\ DOMAIN stack = 1..L /\ top = stack[L] /\ top \in Corners(n)
      /\ f \in Seq(Corners(n)) /\ Len(f) = L - 1 /\ DOMAIN f = 1..(L - 1)
      /\ (\A i \in 1..(L - 1) : f[i] = stack[i]) /\ ToSet(stack) = ToSet(f) \cup {top}
      /\ IsInjective(f) /\ top \notin ToSet(f)
  <2>1. stack \in Seq(Corners(n)) /\ IsInjective(stack)
    BY DEF Accounted
  <2>2. QED
    BY <2>1, FrontFacts
<1>2. /\ o \in Seq(Corners(n)) /\ M \in Nat /\ DOMAIN order = 1..M /\ Len(o) = M + 1
      /\ DOMAIN o = 1..(M + 1) /\ (\A i \in 1..M : o[i] = order[i]) /\ o[M + 1] = top
      /\ ToSet(o) = ToSet(order) \cup {top}
  <2>1. order \in Seq(Corners(n))
    BY DEF Accounted
  <2>2. QED
    BY <1>1, <2>1, AppendFacts
<1>3. top \notin ToSet(order)
  BY <1>1 DEF Accounted
<1>4. IsInjective(o)
  BY <1>1, <1>3, AppendDistinct DEF Accounted
<1>5. PICK mark \in [1..L -> 1..(M + 1)] : Marks(n, order, stack, mark)
  BY <1>1 DEF Marked
<1>6. ASSUME NEW p \in 1..L
      PROVE  /\ mark[p] \in 1..(M + 1)
             /\ \A i \in mark[p]..M : LeadsTo(n, stack[p], order[i])
             /\ \A q \in p..L : LeadsTo(n, stack[p], stack[q])
             /\ \A h \in 1..(mark[p] - 1) :
                  /\ \A j \in mark[p]..M : ~Joins(n, order[h], order[j])
                  /\ \A q \in p..L : ~Joins(n, order[h], stack[q])
  BY <1>1, <1>5 DEF Marks
<1>7. Accounted(n, seen, o, f)
  BY <1>1, <1>2, <1>3, <1>4 DEF Accounted
<1> HIDE DEF L, M, top, o, f
<1>8. LeftLate(n, seen, o)
  <2>1. ASSUME NEW i \in DOMAIN o, NEW y \in Corners(n), Joins(n, o[i], y)
        PROVE  y \in seen
    <3>1. CASE i = M + 1
      BY <1>2, <2>1, <3>1 DEF top
    <3>2. CASE i # M + 1
      <4>1. i \in 1..M
        BY <1>2, <3>2
      <4>2. QED
        BY <1>2, <2>1, <4>1 DEF LeftLate
    <3>3. QED
      BY <3>1, <3>2
  <2>2. QED
    BY <2>1 DEF LeftLate
\* Up to the mark of the top of the stack, old and new order are the same.
<1>9. ASSUME NEW j \in 1..(M + 1)
      PROVE  (j \in 1..M /\ o[j] = order[j]) \/ (j = M + 1 /\ o[j] = top)
  BY <1>2
<1>10. Ranged(n, o)
  <2>1. ASSUME NEW i \in DOMAIN o
        PROVE  \E s \in 1..i : Spans(n, o, s, i)
    <3>1. CASE i = M + 1
      <4>1. L \in 1..L /\ stack[L] = top
        BY <1>1
      <4>2. PICK s : s = mark[L]
        OBVIOUS
      <4>3. s \in 1..(M + 1) /\ s \in 1..i
        BY <1>6, <3>1, <4>1, <4>2
      <4>4. ASSUME NEW j \in s..i
            PROVE  LeadsTo(n, o[i], o[j])
        <5>1. j \in 1..(M + 1)
          BY <1>2, <3>1, <4>3
        <5>2. j # M + 1 => j \in s..M
          BY <1>2, <3>1, <4>3
        <5>3. QED
          BY <1>2, <1>6, <1>9, <3>1, <4>1, <4>2, <5>1, <5>2, LeadsBack
      <4>5. ASSUME NEW h \in 1..(s - 1), NEW j \in s..i
            PROVE  ~Joins(n, o[h], o[j])
        <5>1. j \in 1..(M + 1) /\ (j # M + 1 => j \in s..M)
          BY <1>2, <3>1, <4>3
        <5>2. h \in 1..M /\ o[h] = order[h]
          BY <1>2, <4>3
        <5>3. L \in L..L
          BY <1>1
        <5>4. QED
          BY <1>6, <1>9, <4>1, <4>2, <5>1, <5>2, <5>3
      <4>6. QED
        BY <4>3, <4>4, <4>5 DEF Spans
    <3>2. CASE i # M + 1
      <4>1. i \in 1..M
        BY <1>2, <3>2
      <4>2. PICK s \in 1..i : Spans(n, order, s, i)
        BY <1>2, <4>1 DEF Ranged
      <4>3. \A j \in 1..i : j \in 1..M /\ o[j] = order[j]
        BY <1>2, <4>1
      <4>4. \A j \in s..i : j \in 1..i
        BY <4>1
      <4>5. \A h \in 1..(s - 1) : h \in 1..i
        BY <4>1
      <4>6. i \in 1..i
        BY <4>1
      <4>7. QED
        BY <4>2, <4>3, <4>4, <4>5, <4>6 DEF Spans
    <3>3. QED
      BY <3>1, <3>2
  <2>2. QED
    BY <2>1 DEF Ranged
<1> DEFINE new == [p \in 1..(L - 1) |-> mark[p]]
<1>11. new \in [1..(L - 1) -> 1..(M + 1 + 1)]
  BY <1>1, <1>2, <1>6
<1>12. Marks(n, o, f, new)
  <2>1. ASSUME NEW p \in 1..(L - 1)
        PROVE  /\ \A i \in new[p]..(M + 1) : LeadsTo(n, f[p], o[i])
               /\ \A q \in p..(L - 1) : LeadsTo(n, f[p], f[q])
               /\ \A h \in 1..(new[p] - 1) :
                    /\ \A j \in new[p]..(M + 1) : ~Joins(n, o[h], o[j])
                    /\ \A q \in p..(L - 1) : ~Joins(n, o[h], f[q])
    <3>1. p \in 1..L /\ new[p] = mark[p] /\ f[p] = stack[p] /\ mark[p] \in 1..(M + 1)
      BY <1>1, <1>6
    <3>2. L \in p..L
      BY <1>1
    <3>3. ASSUME NEW i \in mark[p]..(M + 1)
          PROVE  (i \in mark[p]..M /\ o[i] = order[i]) \/ (i = M + 1 /\ o[i] = stack[L])
      <4>1. i \in 1..(M + 1) /\ (i # M + 1 => i \in mark[p]..M)
        BY <1>2, <3>1
      <4>2. QED
        BY <1>1, <1>9, <4>1
    <3>4. \A q \in p..(L - 1) : q \in p..L /\ f[q] = stack[q]
      BY <1>1
    <3>5. \A h \in 1..(mark[p] - 1) : o[h] = order[h]
      BY <1>2, <3>1
    <3>6. PICK m \in 1..(M + 1) : m = mark[p]
      BY <3>1
    <3>7. /\ \A i \in m..M : LeadsTo(n, stack[p], order[i])
          /\ \A q \in p..L : LeadsTo(n, stack[p], stack[q])
          /\ \A h \in 1..(m - 1) :
               /\ \A j \in m..M : ~Joins(n, order[h], order[j])
               /\ \A q \in p..L : ~Joins(n, order[h], stack[q])
      BY <1>6, <3>1, <3>6
    <3>8. \A i \in m..(M + 1) : LeadsTo(n, f[p], o[i])
      BY <3>1, <3>2, <3>3, <3>6, <3>7
    <3>9. \A q \in p..(L - 1) : LeadsTo(n, f[p], f[q])
      BY <3>1, <3>4, <3>7
    <3>10. \A h \in 1..(m - 1) : \A j \in m..(M + 1) : ~Joins(n, o[h], o[j])
      BY <3>2, <3>3, <3>5, <3>6, <3>7
    <3>11. \A h \in 1..(m - 1) : \A q \in p..(L - 1) : ~Joins(n, o[h], f[q])
      BY <3>4, <3>5, <3>6, <3>7
    <3> HIDE DEF new
    <3>12. QED
      BY <3>1, <3>6, <3>8, <3>9, <3>10, <3>11
  <2> HIDE DEF new
  <2>2. QED
    BY <1>1, <1>2, <2>1 DEF Marks
<1>13. Marked(n, o, f)
  <2> HIDE DEF new
  <2>1. QED
    BY <1>1, <1>2, <1>11, <1>12 DEF Marked
<1>14. QED
  BY <1>7, <1>8, <1>10, <1>13 DEF o, f, top
Walked(n) == [seen : SUBSET Corners(n), order : Seq(Corners(n)), stack : Seq(Corners(n))]

\* Every step sees a node or leaves one, until nothing is left to do.
Advanced(n, w, k) ==
  2 * Len(w.order) + Len(w.stack) = k \/ (w.seen = Corners(n) /\ w.stack = <<>>)

LEMMA WalkKeeps ==
  ASSUME NEW n, Laid(n), NEW w \in Walked(n), WalkInv(n, w), NEW k \in Nat, Advanced(n, w, k)
  PROVE  Walk(n, w) \in Walked(n) /\ WalkInv(n, Walk(n, w)) /\ Advanced(n, Walk(n, w), k + 1)
<1>0. PICK seen \in SUBSET Corners(n), order \in Seq(Corners(n)), stack \in Seq(Corners(n)) :
        w = [seen |-> seen, order |-> order, stack |-> stack]
  BY DEF Walked
<1> DEFINE at == Last(stack)
           onward == Onward(n.roads, at, seen)
           unseen == Corners(n) \ seen
<1>1. /\ w.seen = seen /\ w.order = order /\ w.stack = stack
      /\ Accounted(n, seen, order, stack) /\ LeftLate(n, seen, order)
      /\ Ranged(n, order) /\ Marked(n, order, stack)
  BY <1>0 DEF WalkInv
<1>2. /\ Len(order) \in Nat /\ Len(stack) \in Nat
      /\ 2 * Len(order) + Len(stack) = k \/ (seen = Corners(n) /\ stack = <<>>)
  BY <1>1, LenProperties DEF Advanced
<1>3. ASSUME NEW y \in Corners(n), y \notin seen, stack # <<>> => Joins(n, at, y),
             Walk(n, w) = See(w, y)
      PROVE  Walk(n, w) \in Walked(n) /\ WalkInv(n, Walk(n, w)) /\ Advanced(n, Walk(n, w), k + 1)
  <2>1. PICK s, t : s = seen \cup {y} /\ t = Append(stack, y)
    OBVIOUS
  <2>2. Walk(n, w) = [seen |-> s, order |-> order, stack |-> t]
    BY <1>0, <1>3, <2>1 DEF See
  <2>3. s \in SUBSET Corners(n) /\ t \in Seq(Corners(n)) /\ Len(t) = Len(stack) + 1
    BY <1>3, <2>1, AppendFacts
  <2>4. Accounted(n, s, order, t) /\ LeftLate(n, s, order) /\ Marked(n, order, t)
    BY <1>1, <1>3, <2>1, SeeKeeps
  <2>5. 2 * Len(order) + Len(t) = k + 1
    <3>1. 2 * Len(order) + Len(stack) = k
      BY <1>2, <1>3
    <3>2. QED
      BY <1>2, <2>3, <3>1, SMTT(30)
  <2>6. PICK v : v = Walk(n, w) /\ v.seen = s /\ v.order = order /\ v.stack = t
    BY <2>2
  <2>7. v \in Walked(n)
    BY <2>2, <2>3, <2>6 DEF Walked
  <2>8. WalkInv(n, v) /\ Advanced(n, v, k + 1)
    BY <1>1, <2>4, <2>5, <2>6 DEF WalkInv, Advanced
  <2>9. QED
    BY <2>6, <2>7, <2>8
<1>4. CASE stack # <<>>
  <2>0. at \in Corners(n) /\ at \in seen
    <3>1. at \in Corners(n) /\ ToSet(stack) = ToSet(Front(stack)) \cup {at}
      BY <1>4, FrontFacts
    <3>2. QED
      BY <1>1, <3>1 DEF Accounted
  <2>1. CASE onward # {}
    <3>1. PICK y : y = FarEnd(n.roads[Min(onward)], at)
      OBVIOUS
    <3>2. Joins(n, at, y) /\ y \notin seen
      BY <2>0, <2>1, <3>1, OnwardLeads
    <3>3. y \in Corners(n)
      BY <3>2, JoinsCorners
    <3>4. Walk(n, w) = See(w, y)
      BY <1>1, <1>4, <2>1, <3>1 DEF Walk
    <3>5. QED
      BY <1>3, <3>2, <3>3, <3>4
  <2>2. CASE onward = {}
    <3>1. \A y : Joins(n, at, y) => y \in seen
      BY <2>0, <2>2, OnwardLeads
    <3>2. PICK o, f : o = Append(order, at) /\ f = Front(stack)
      OBVIOUS
    <3>3. Walk(n, w) = [w EXCEPT !.order = o, !.stack = f]
      BY <1>1, <1>4, <2>2, <3>2 DEF Walk
    <3>4. Walk(n, w) = [seen |-> seen, order |-> o, stack |-> f]
      BY <1>0, <3>3
    <3>5. /\ o \in Seq(Corners(n)) /\ Len(o) = Len(order) + 1
          /\ f \in Seq(Corners(n)) /\ Len(f) = Len(stack) - 1
      BY <1>4, <2>0, <3>2, AppendFacts, FrontFacts
    <3>6. /\ Accounted(n, seen, o, f) /\ LeftLate(n, seen, o) /\ Ranged(n, o) /\ Marked(n, o, f)
      BY <1>1, <1>4, <3>1, <3>2, LeaveKeeps
    <3>7. 2 * Len(o) + Len(f) = k + 1
      <4>1. 2 * Len(order) + Len(stack) = k
        BY <1>2, <1>4
      <4>2. QED
        BY <1>2, <3>5, <4>1, SMTT(30)
    <3>8. PICK v : v = Walk(n, w) /\ v.seen = seen /\ v.order = o /\ v.stack = f
      BY <3>4
    <3>9. v \in Walked(n)
      BY <3>4, <3>5, <3>8 DEF Walked
    <3>10. WalkInv(n, v) /\ Advanced(n, v, k + 1)
      BY <3>6, <3>7, <3>8 DEF WalkInv, Advanced
    <3>11. QED
      BY <3>8, <3>9, <3>10
  <2>3. QED
    BY <2>1, <2>2
<1>5. CASE stack = <<>> /\ unseen # {}
  <2>1. unseen \in SUBSET Nat
    BY CornersOf
  <2>2. PICK y : y = Min(unseen)
    OBVIOUS
  <2>3. y \in unseen
    <3> HIDE DEF unseen
    <3>1. QED
      BY <1>5, <2>1, <2>2, MinOf
  <2>4. Walk(n, w) = See(w, y)
    BY <1>1, <1>5, <2>2 DEF Walk, Corners
  <2>5. QED
    BY <1>3, <1>5, <2>3, <2>4
<1>6. CASE stack = <<>> /\ unseen = {}
  <2>1. Walk(n, w) = w
    BY <1>1, <1>6 DEF Walk, Corners
  <2>2. seen = Corners(n)
    BY <1>6
  <2>3. QED
    BY <1>1, <1>6, <2>1, <2>2 DEF Advanced
<1>7. QED
  BY <1>4, <1>5, <1>6

\* A sequence without repetitions is as long as the set of its elements is large.
LEMMA DistinctLength ==
  ASSUME NEW X, NEW s \in Seq(X), IsInjective(s)
  PROVE  IsFiniteSet(ToSet(s)) /\ Cardinality(ToSet(s)) = Len(s)
<1>1. Len(s) \in Nat /\ DOMAIN s = 1..Len(s) /\ \A i \in 1..Len(s) : s[i] \in X
  BY LenProperties, ElementOfSeq
<1> DEFINE Many == {k \in Nat : k <= Len(s) =>
                      IsFiniteSet({s[i] : i \in 1..k}) /\ Cardinality({s[i] : i \in 1..k}) = k}
<1>2. 0 \in Many
  <2>1. {s[i] : i \in 1..0} = {}
    OBVIOUS
  <2>2. QED
    BY <2>1, FS_EmptySet
<1>3. ASSUME NEW k \in Nat, k \in Many
      PROVE  k + 1 \in Many
  <2>1. ASSUME k + 1 <= Len(s)
        PROVE  /\ IsFiniteSet({s[i] : i \in 1..(k + 1)})
               /\ Cardinality({s[i] : i \in 1..(k + 1)}) = k + 1
    <3> DEFINE T == {s[i] : i \in 1..k}
    <3>1. IsFiniteSet(T) /\ Cardinality(T) = k
      BY <1>1, <1>3, <2>1
    <3>2. 1..(k + 1) = 1..k \cup {k + 1}
      OBVIOUS
    <3>3. {s[i] : i \in 1..(k + 1)} = T \cup {s[k + 1]}
      BY <3>2
    <3>4. s[k + 1] \notin T
      <4>1. \A i \in 1..k : i \in DOMAIN s /\ i # k + 1
        BY <1>1, <2>1
      <4>2. k + 1 \in DOMAIN s
        BY <1>1, <2>1
      <4>3. QED
        BY <4>1, <4>2 DEF IsInjective
    <3> HIDE DEF T
    <3>5. /\ IsFiniteSet(T \cup {s[k + 1]})
          /\ Cardinality(T \cup {s[k + 1]})
               = IF s[k + 1] \in T THEN Cardinality(T) ELSE Cardinality(T) + 1
      BY <3>1, FS_AddElement
    <3>6. QED
      BY <3>1, <3>3, <3>4, <3>5
  <2>2. QED
    BY <2>1
<1>4. Nat \subseteq Many
  <2> HIDE DEF Many
  <2>1. QED
    BY <1>2, <1>3, Naturally
<1>5. ToSet(s) = {s[i] : i \in 1..Len(s)}
  BY <1>1 DEF ToSet
<1>6. PICK k \in Nat : k = Len(s)
  BY <1>1, ZenonT(30)
<1>7. IsFiniteSet({s[i] : i \in 1..k}) /\ Cardinality({s[i] : i \in 1..k}) = k
  <2>1. k \in Many
    BY <1>4
  <2>2. k <= Len(s)
    BY <1>6
  <2>3. QED
    BY <2>1, <2>2
<1>8. QED
  BY <1>5, <1>6, <1>7

\* The first pass leaves every node once, and each leads to those left since some other and
\* is not led to from those left before that one.
LEMMA FinishOrderHolds ==
  ASSUME NEW n, Laid(n)
  PROVE  /\ FinishOrder(n) \in Seq(Corners(n)) /\ ToSet(FinishOrder(n)) = Corners(n)
         /\ IsInjective(FinishOrder(n)) /\ Ranged(n, FinishOrder(n))
<1> DEFINE N == Len(n.positions)
           start == [seen |-> {}, order |-> <<>>, stack |-> <<>>]
           Good == {w \in Walked(n) : WalkInv(n, w)}
           Meets(f) == f = [k \in 0..2 * N |-> IF k = 0 THEN start ELSE Walk(n, f[k - 1])]
<1>1. N \in Nat /\ Corners(n) = 1..N /\ IsFiniteSet(Corners(n)) /\ Cardinality(Corners(n)) = N
  BY CornersOf
<1>2. 2 * N \in Nat
  BY <1>1
<1>3. start \in Walked(n) /\ WalkInv(n, start) /\ Advanced(n, start, 0)
  <2>1. start \in Walked(n)
    BY EmptySeq DEF Walked
  <2>2. ToSet(<<>>) = {} /\ DOMAIN <<>> = {} /\ Len(<<>>) = 0 /\ <<>> \in Seq(Corners(n))
    BY EmptySeq DEF ToSet
  <2>3. Accounted(n, {}, <<>>, <<>>) /\ LeftLate(n, {}, <<>>) /\ Ranged(n, <<>>)
    BY <2>2 DEF Accounted, LeftLate, Ranged, IsInjective
  <2>4. Marked(n, <<>>, <<>>)
    <3>1. [p \in {} |-> 1] \in [DOMAIN <<>> -> 1..(Len(<<>>) + 1)]
      BY <2>2
    <3>2. Marks(n, <<>>, <<>>, [p \in {} |-> 1])
      BY <2>2 DEF Marks
    <3>3. QED
      BY <3>1, <3>2 DEF Marked
  <2>5. QED
    BY <2>1, <2>2, <2>3, <2>4 DEF WalkInv, Advanced
<1> HIDE DEF start
<1>4. \E f : Meets(f)
  <2> DEFINE S == {w \in Walked(n) : WalkInv(n, w) /\ \E k \in Nat : Advanced(n, w, k)}
             g == [x \in (1..2 * N) \X S |-> Walk(n, x[2])]
  <2>1. ASSUME NEW w \in S
        PROVE  Walk(n, w) \in S
    <3>1. PICK k \in Nat : Advanced(n, w, k)
      OBVIOUS
    <3>2. QED
      BY <3>1, WalkKeeps
  <2>2. start \in S
    BY <1>3
  <2> HIDE DEF S
  <2>3. g \in [(1..2 * N) \X S -> S]
    BY <2>1
  <2>4. PICK f \in [0..2 * N -> S] : Rounds(f, start, g, 2 * N)
    <3> HIDE DEF g
    <3>1. QED
      BY <1>2, <2>2, <2>3, Iteration
  <2>5. ASSUME NEW k \in 0..2 * N
        PROVE  f[k] = IF k = 0 THEN start ELSE Walk(n, f[k - 1])
    <3>1. CASE k = 0
      BY <2>4, <3>1 DEF Rounds
    <3>2. CASE k # 0
      <4>1. k \in 1..2 * N /\ k - 1 \in 0..2 * N
        BY <1>2, <3>2
      <4>2. f[k] = g[<<k, f[k - 1]>>] /\ f[k - 1] \in S
        BY <2>4, <4>1 DEF Rounds
      <4>3. QED
        BY <3>2, <4>1, <4>2
    <3>3. QED
      BY <3>1, <3>2
  <2>6. QED
    BY <2>5
<1> DEFINE walk == CHOOSE f : Meets(f)
<1>5. Meets(walk)
  <2> HIDE DEF Meets
  <2>1. QED
    BY <1>4
<1>6. FinishOrder(n) = walk[2 * N].order
  BY DEF FinishOrder, start
<1> HIDE DEF walk
<1>7. walk[0] = start /\ \A k \in 1..2 * N : walk[k] = Walk(n, walk[k - 1])
  BY <1>2, <1>5, SMTT(30)
<1> DEFINE Kept == {k \in Nat : k <= 2 * N =>
                      walk[k] \in Walked(n) /\ WalkInv(n, walk[k]) /\ Advanced(n, walk[k], k)}
<1>8. 0 \in Kept
  BY <1>3, <1>7
<1>9. ASSUME NEW k \in Nat, k \in Kept
      PROVE  k + 1 \in Kept
  <2>1. ASSUME k + 1 <= 2 * N
        PROVE  /\ walk[k + 1] \in Walked(n) /\ WalkInv(n, walk[k + 1])
               /\ Advanced(n, walk[k + 1], k + 1)
    <3>1. walk[k] \in Walked(n) /\ WalkInv(n, walk[k]) /\ Advanced(n, walk[k], k)
      BY <1>2, <1>9, <2>1
    <3>2. walk[k + 1] = Walk(n, walk[k])
      <4>1. k + 1 \in 1..2 * N /\ (k + 1) - 1 = k
        BY <1>2, <2>1
      <4>2. QED
        BY <1>7, <4>1
    <3>3. QED
      BY <3>1, <3>2, WalkKeeps
  <2>2. QED
    BY <2>1
<1>10. Nat \subseteq Kept
  <2> HIDE DEF Kept
  <2>1. QED
    BY <1>8, <1>9, Naturally
<1>11. PICK w \in Walked(n) : w = walk[2 * N] /\ WalkInv(n, w) /\ Advanced(n, w, 2 * N)
  BY <1>2, <1>10
<1>12. /\ w.order \in Seq(Corners(n)) /\ w.stack \in Seq(Corners(n)) /\ w.seen \in SUBSET Corners(n)
       /\ IsInjective(w.order) /\ IsInjective(w.stack) /\ ToSet(w.order) \cap ToSet(w.stack) = {}
       /\ w.seen = ToSet(w.order) \cup ToSet(w.stack) /\ Ranged(n, w.order)
  BY <1>11 DEF Walked, WalkInv, Accounted
<1>13. ToSet(w.order) = Corners(n)
  <2>1. CASE w.seen = Corners(n) /\ w.stack = <<>>
    <3>1. ToSet(w.stack) = {}
      BY <2>1 DEF ToSet
    <3>2. QED
      BY <1>12, <2>1, <3>1
  <2>2. CASE 2 * Len(w.order) + Len(w.stack) = 2 * N
    <3> DEFINE S == ToSet(w.order)
               T == ToSet(w.stack)
    <3>1. /\ IsFiniteSet(S) /\ Cardinality(S) = Len(w.order) /\ IsFiniteSet(T)
          /\ Cardinality(T) = Len(w.stack) /\ Len(w.order) \in Nat /\ Len(w.stack) \in Nat
      BY <1>12, DistinctLength, LenProperties
    <3>2. S \cap T = {} /\ S \cup T \in SUBSET Corners(n) /\ S \in SUBSET Corners(n)
      BY <1>12
    <3> HIDE DEF S, T
    <3>3. Cardinality(S \cup T) = Cardinality(S) + Cardinality(T) - Cardinality(S \cap T)
      BY <3>1, FS_Union
    <3>4. Cardinality(S \cap T) = 0
      BY <3>2, FS_EmptySet
    <3>5. Cardinality(S \cup T) <= N
      BY <1>1, <3>2, FS_Subset
    <3>6. Cardinality(S) = N
      <4>1. PICK x \in Nat, y \in Nat : x = Cardinality(S) /\ y = Cardinality(T)
        BY <3>1
      <4>2. 2 * x + y = 2 * N
        BY <2>2, <3>1, <4>1
      <4>3. x + y <= N
        BY <3>3, <3>4, <3>5, <4>1
      <4>4. QED
        BY <1>1, <4>1, <4>2, <4>3, SMTT(30)
    <3>7. S = Corners(n)
      BY <1>1, <3>2, <3>6, FS_Subset
    <3>8. QED
      BY <3>7 DEF S
  <2>3. QED
    BY <1>11, <2>1, <2>2 DEF Advanced
<1>14. QED
  BY <1>6, <1>11, <1>12, <1>13
-----------------------------------------------------------------------------
(* The second pass: one class per root.                                    *)

\* Whoever leads into a set without being taken is in it.
Gathered(n, taken, S) ==
  \A x, y \in Corners(n) : y \in S /\ Joins(n, x, y) /\ x \notin taken => x \in S

LEMMA BackHolds ==
  ASSUME NEW n, Laid(n), NEW y, NEW x
  PROVE  x \in Back(n.roads, y) <=> Joins(n, x, y)
<1>1. DOMAIN n.roads = 1..Len(n.roads)
  BY RoadsOf
<1>2. ASSUME x \in Back(n.roads, y)
      PROVE  Joins(n, x, y)
  <2>1. CASE x \in {r.a : r \in {z \in ToSet(n.roads) : z.b = y}}
    <3>1. PICK r \in ToSet(n.roads) : r.b = y /\ x = r.a
      BY <2>1
    <3>2. PICK i \in DOMAIN n.roads : r = n.roads[i]
      BY DEF ToSet
    <3>3. QED
      BY <3>1, <3>2 DEF Joins, DrivenBy
  <2>2. CASE x \in {r.b : r \in {z \in ToSet(n.roads) : z.a = y /\ ~z.oneway}}
    <3>1. PICK r \in ToSet(n.roads) : r.a = y /\ ~r.oneway /\ x = r.b
      BY <2>2
    <3>2. PICK i \in DOMAIN n.roads : r = n.roads[i]
      BY DEF ToSet
    <3>3. QED
      BY <3>1, <3>2 DEF Joins, DrivenBy
  <2>3. QED
    BY <1>2, <2>1, <2>2 DEF Back
<1>3. ASSUME Joins(n, x, y)
      PROVE  x \in Back(n.roads, y)
  <2>1. PICK i \in DOMAIN n.roads : DrivenBy(n, i, x, y)
    BY <1>3 DEF Joins
  <2>2. n.roads[i] \in ToSet(n.roads)
    BY DEF ToSet
  <2>3. QED
    BY <2>1, <2>2 DEF DrivenBy, Back
<1>4. QED
  BY <1>2, <1>3

\* A round adds the neighbours that are not taken.
LEMMA WidenHolds ==
  ASSUME NEW n, Laid(n), NEW taken, NEW S \in SUBSET Corners(n)
  PROVE  /\ Widen(n, taken, S) \in SUBSET Corners(n) /\ S \subseteq Widen(n, taken, S)
         /\ \A x : x \in Widen(n, taken, S) <=>
                     x \in S \/ (x \notin taken /\ \E y \in S : Joins(n, x, y))
         /\ Widen(n, taken, S) = S => Gathered(n, taken, S)
<1>1. \A x : x \in Widen(n, taken, S) <=>
               x \in S \/ (x \notin taken /\ \E y \in S : Joins(n, x, y))
  BY BackHolds DEF Widen
<1>2. Widen(n, taken, S) \in SUBSET Corners(n)
  BY <1>1, JoinsCorners
<1>3. QED
  BY <1>1, <1>2 DEF Gathered

\* What is gathered for a root: the least set with the root that is closed backwards.
LEMMA GatherHolds ==
  ASSUME NEW n, Laid(n), NEW taken, NEW root \in Corners(n), root \notin taken
  PROVE  /\ Gather(n, taken, root) \in SUBSET Corners(n)
         /\ root \in Gather(n, taken, root) /\ Gather(n, taken, root) \cap taken = {}
         /\ Gathered(n, taken, Gather(n, taken, root))
         /\ \A S : root \in S /\ Gathered(n, taken, S) => Gather(n, taken, root) \subseteq S
<1> DEFINE N == Len(n.positions)
           G == SUBSET Corners(n)
           Meets(f) == f = [k \in 0..N |-> IF k = 0 THEN {root} ELSE Widen(n, taken, f[k - 1])]
<1>1. /\ N \in Nat /\ IsFiniteSet(Corners(n)) /\ Cardinality(Corners(n)) = N
      /\ {root} \in G
  BY CornersOf
<1>2. \E f : Meets(f)
  <2> DEFINE g == [x \in (1..N) \X G |-> Widen(n, taken, x[2])]
  <2>1. g \in [(1..N) \X G -> G]
    BY WidenHolds
  <2>2. PICK f \in [0..N -> G] : Rounds(f, {root}, g, N)
    <3> HIDE DEF g, G
    <3>1. QED
      BY <1>1, <2>1, Iteration
  <2>3. ASSUME NEW k \in 0..N
        PROVE  f[k] = IF k = 0 THEN {root} ELSE Widen(n, taken, f[k - 1])
    <3>1. CASE k = 0
      BY <2>2, <3>1 DEF Rounds
    <3>2. CASE k # 0
      <4>1. k \in 1..N /\ k - 1 \in 0..N
        BY <1>1, <3>2
      <4>2. f[k] = g[<<k, f[k - 1]>>] /\ f[k - 1] \in G
        BY <2>2, <4>1 DEF Rounds
      <4>3. QED
        BY <3>2, <4>1, <4>2
    <3>3. QED
      BY <3>1, <3>2
  <2>4. QED
    BY <2>3
<1> DEFINE gather == CHOOSE f : Meets(f)
<1>3. Meets(gather)
  <2> HIDE DEF Meets
  <2>1. QED
    BY <1>2
<1>4. Gather(n, taken, root) = gather[N]
  BY DEF Gather
<1> HIDE DEF gather
<1>5. gather[0] = {root} /\ \A k \in 1..N : gather[k] = Widen(n, taken, gather[k - 1])
  <2>1. 0 \in 0..N
    BY <1>1
  <2>2. gather[0] = {root}
    BY <1>3, <2>1
  <2>3. ASSUME NEW k \in 1..N
        PROVE  gather[k] = Widen(n, taken, gather[k - 1])
    <3>1. k \in 0..N /\ k # 0
      BY <1>1
    <3>2. QED
      BY <1>3, <3>1
  <2>4. QED
    BY <2>2, <2>3
\* Every round adds a node or the last one has.
<1> DEFINE Fits(k) ==
             /\ gather[k] \in G /\ root \in gather[k] /\ gather[k] \cap taken = {}
             /\ \A S : root \in S /\ Gathered(n, taken, S) => gather[k] \subseteq S
             /\ Gathered(n, taken, gather[k]) \/ Cardinality(gather[k]) >= k + 1
           Grown == {k \in Nat : k <= N => Fits(k)}
<1>6. 0 \in Grown
  <2>1. Cardinality({root}) = 1
    BY FS_Singleton
  <2>2. gather[0] = {root}
    BY <1>5
  <2>3. Fits(0)
    BY <1>1, <2>1, <2>2
  <2> HIDE DEF Fits
  <2>4. QED
    BY <2>3
<1>7. ASSUME NEW k \in Nat, k \in Grown
      PROVE  k + 1 \in Grown
  <2>1. ASSUME k + 1 <= N
        PROVE  Fits(k + 1)
    <3>1. PICK A : A = gather[k]
      OBVIOUS
    <3>2. PICK B : B = gather[k + 1]
      OBVIOUS
    <3>3. /\ A \in SUBSET Corners(n) /\ root \in A /\ A \cap taken = {}
          /\ \A S : root \in S /\ Gathered(n, taken, S) => A \subseteq S
          /\ Gathered(n, taken, A) \/ Cardinality(A) >= k + 1
      <4>1. Fits(k)
        <5> HIDE DEF Fits
        <5>1. k <= N
          BY <1>1, <2>1
        <5>2. QED
          BY <1>7, <5>1
      <4>2. QED
        BY <3>1, <4>1
    <3>4. B = Widen(n, taken, A)
      <4>1. k + 1 \in 1..N /\ (k + 1) - 1 = k
        BY <1>1, <2>1
      <4>2. QED
        BY <1>5, <3>1, <3>2, <4>1
    <3>5. /\ B \in SUBSET Corners(n) /\ A \subseteq B
          /\ \A x : x \in B <=> x \in A \/ (x \notin taken /\ \E y \in A : Joins(n, x, y))
          /\ B = A => Gathered(n, taken, A)
      BY <3>3, <3>4, WidenHolds
    <3>6. root \in B /\ B \cap taken = {}
      BY <3>3, <3>5
    <3>7. ASSUME NEW S, root \in S, Gathered(n, taken, S)
          PROVE  B \subseteq S
      <4>1. A \subseteq S
        BY <3>3, <3>7
      <4>2. ASSUME NEW x \in B
            PROVE  x \in S
        <5>1. CASE x \in A
          BY <4>1, <5>1
        <5>2. CASE x \notin A
          <6>1. PICK y \in A : x \notin taken /\ Joins(n, x, y)
            BY <3>5, <5>2
          <6>2. x \in Corners(n) /\ y \in Corners(n)
            BY <6>1, JoinsCorners
          <6>3. QED
            BY <3>7, <4>1, <6>1, <6>2 DEF Gathered
        <5>3. QED
          BY <5>1, <5>2
      <4>3. QED
        BY <4>2
    <3>8. Gathered(n, taken, B) \/ Cardinality(B) >= (k + 1) + 1
      <4>1. CASE A = B
        BY <3>5, <4>1
      <4>2. CASE Gathered(n, taken, A)
        <5>1. B \subseteq A
          BY <3>3, <3>7, <4>2
        <5>2. QED
          BY <3>5, <4>2, <5>1
      <4>3. CASE A # B /\ Cardinality(A) >= k + 1
        <5>1. IsFiniteSet(B) /\ IsFiniteSet(A)
          BY <1>1, <3>3, <3>5, FS_Subset
        <5>2. /\ Cardinality(A) <= Cardinality(B)
              /\ Cardinality(B) = Cardinality(A) => B = A
          BY <3>5, <5>1, FS_Subset
        <5>3. Cardinality(A) \in Nat /\ Cardinality(B) \in Nat
          BY <5>1, FS_CardinalityType
        <5>4. QED
          BY <4>3, <5>2, <5>3
      <4>4. QED
        BY <3>3, <4>1, <4>2, <4>3
    <3>9. QED
      BY <3>2, <3>5, <3>6, <3>7, <3>8
  <2> HIDE DEF Fits
  <2>2. QED
    BY <2>1
<1>8. Fits(N)
  <2> HIDE DEF Fits
  <2>1. Nat \subseteq Grown
    <3> HIDE DEF Grown
    <3>1. QED
      BY <1>6, <1>7, Naturally
  <2>2. N <= N
    BY <1>1
  <2>3. QED
    BY <1>1, <2>1, <2>2
<1>9. PICK A : A = gather[N]
  OBVIOUS
<1>10. /\ A \in SUBSET Corners(n) /\ root \in A /\ A \cap taken = {}
       /\ \A S : root \in S /\ Gathered(n, taken, S) => A \subseteq S
       /\ Gathered(n, taken, A) \/ Cardinality(A) >= N + 1
  BY <1>8, <1>9
<1>11. Gathered(n, taken, A)
  <2>1. Cardinality(A) <= N /\ Cardinality(A) \in Nat
    BY <1>1, <1>10, FS_Subset, FS_CardinalityType
  <2>2. QED
    BY <1>1, <1>10, <2>1
<1>12. QED
  BY <1>4, <1>9, <1>10, <1>11
\* What is gathered for the last node of the order that is not taken is its class: everything
\* in it was left since some node, and no road leads there from what was left before.
LEMMA GatherIsClass ==
  ASSUME NEW n, Laid(n), NEW order \in Seq(Corners(n)), ToSet(order) = Corners(n),
         Ranged(n, order), NEW f \in DOMAIN order, NEW taken \in SUBSET Corners(n),
         order[f] \notin taken, \A h \in DOMAIN order : h > f => order[h] \in taken,
         \A x \in taken : Class(n, x) \subseteq taken
  PROVE  Gather(n, taken, order[f]) = Class(n, order[f])
<1> DEFINE root == order[f]
           G == Gather(n, taken, root)
<1>1. Len(order) \in Nat /\ DOMAIN order = 1..Len(order) /\ root \in Corners(n)
  BY LenProperties, ElementOfSeq
<1>2. /\ G \in SUBSET Corners(n) /\ root \in G /\ G \cap taken = {} /\ Gathered(n, taken, G)
      /\ \A S : root \in S /\ Gathered(n, taken, S) => G \subseteq S
  <2> HIDE DEF root
  <2>1. root \notin taken
    BY DEF root
  <2>2. QED
    BY <1>1, <2>1, GatherHolds
<1> HIDE DEF G, root
<1>3. \A x \in G : LeadsTo(n, x, root)
  <2> DEFINE S == {x \in Corners(n) : LeadsTo(n, x, root)}
  <2>1. root \in S
    BY <1>1, LeadsBack
  <2>2. Gathered(n, taken, S)
    BY LeadsFrom DEF Gathered
  <2> HIDE DEF S
  <2>3. G \subseteq S
    BY <1>2, <2>1, <2>2
  <2>4. QED
    BY <2>3 DEF S
<1>4. \A x \in G : LeadsTo(n, root, x)
  <2>1. PICK s \in 1..f : Spans(n, order, s, f)
    BY DEF Ranged
  <2> DEFINE S == {order[j] : j \in s..f}
  <2>2. f \in 1..Len(order) /\ f \in s..f
    BY <1>1
  <2>3. root \in S
    BY <2>2 DEF root
  <2>4. ASSUME NEW x \in Corners(n), NEW y \in S, Joins(n, x, y), x \notin taken
        PROVE  x \in S
    <3>1. PICK j \in s..f : y = order[j]
      OBVIOUS
    <3>2. PICK h \in DOMAIN order : x = order[h]
      BY DEF ToSet
    <3>3. h \in Nat /\ h >= 1 /\ h <= f
      BY <1>1, <2>2, <2>4, <3>2
    <3>4. ~(h \in 1..(s - 1))
      BY <2>1, <2>4, <3>1, <3>2 DEF Spans
    <3>5. h \in s..f
      BY <2>2, <3>3, <3>4
    <3>6. QED
      BY <3>2, <3>5
  <2>5. Gathered(n, taken, S)
    <3> HIDE DEF S
    <3>1. QED
      BY <2>4 DEF Gathered
  <2>6. \A x \in S : LeadsTo(n, root, x)
    BY <2>1 DEF Spans, root
  <2> HIDE DEF S
  <2>7. G \subseteq S
    BY <1>2, <2>3, <2>5
  <2>8. QED
    BY <2>6, <2>7
<1>5. Class(n, root) \cap taken = {}
  <2>1. ASSUME NEW y \in Class(n, root), y \in taken
        PROVE  FALSE
    <3>1. root \in Class(n, y)
      BY <1>1, SameClass
    <3>2. root \in taken
      BY <2>1, <3>1
    <3>3. QED
      BY <3>2 DEF root
  <2>2. QED
    BY <2>1
<1>6. ASSUME NEW x \in Class(n, root), x \notin G
      PROVE  FALSE
  <2> DEFINE T == {w \in Corners(n) : (w \notin G /\ LeadsTo(n, root, w)) \/ ~LeadsTo(n, w, root)}
  <2>1. x \in T /\ LeadsTo(n, x, root)
    BY <1>6 DEF Class
  <2>2. ASSUME NEW w \in Corners(n), NEW v \in Corners(n), w \in T, Joins(n, w, v)
        PROVE  v \in T
    <3>1. CASE ~LeadsTo(n, w, root)
      <4>1. ~LeadsTo(n, v, root)
        BY <2>2, <3>1, LeadsFrom
      <4>2. QED
        BY <4>1
    <3>2. CASE LeadsTo(n, w, root)
      <4>1. w \notin G /\ LeadsTo(n, root, w)
        BY <2>2, <3>2
      <4>2. w \notin taken
        BY <1>5, <3>2, <4>1 DEF Class
      <4>3. v \notin G
        BY <1>2, <2>2, <4>1, <4>2 DEF Gathered
      <4>4. LeadsTo(n, root, v)
        BY <2>2, <4>1, LeadsOn
      <4>5. QED
        BY <4>3, <4>4
    <3>3. QED
      BY <3>1, <3>2
  <2>3. T \in SUBSET Corners(n)
    OBVIOUS
  <2>4. root \notin T
    BY <1>2, LeadsBack
  <2> HIDE DEF T
  <2>5. KeptIn(n, T)
    BY <2>2 DEF KeptIn
  <2>6. QED
    BY <2>1, <2>3, <2>4, <2>5 DEF LeadsTo
<1>7. G \subseteq Class(n, root)
  BY <1>2, <1>3, <1>4 DEF Class
<1>8. QED
  BY <1>6, <1>7 DEF G, root

Collected(n) == [taken : SUBSET Corners(n), best : SUBSET Corners(n)]

\* What is taken is whole classes, the best of which is the largest.
ClassesTaken(n, found) ==
  /\ \A x \in found.taken : Class(n, x) \subseteq found.taken
  /\ IF found.taken = {} THEN found.best = {}
     ELSE \E x \in Corners(n) : found.best = Class(n, x)
  /\ \A x \in found.taken : Cardinality(Class(n, x)) <= Cardinality(found.best)

LEMMA ReverseFacts ==
  ASSUME NEW X, NEW s \in Seq(X)
  PROVE  /\ Len(s) \in Nat /\ DOMAIN s = 1..Len(s) /\ Reverse(s) \in Seq(X)
         /\ Len(Reverse(s)) = Len(s) /\ DOMAIN Reverse(s) = 1..Len(s)
         /\ \A i \in 1..Len(s) : Reverse(s)[i] = s[Len(s) + 1 - i]
<1>1. Len(s) \in Nat /\ DOMAIN s = 1..Len(s) /\ \A i \in 1..Len(s) : s[i] \in X
  BY LenProperties, ElementOfSeq
<1> DEFINE t == [i \in 1..Len(s) |-> s[(Len(s) - i) + 1]]
<1>2. \A i \in 1..Len(s) : Len(s) + 1 - i \in 1..Len(s) /\ (Len(s) - i) + 1 = Len(s) + 1 - i
  BY <1>1
<1>3. \A i \in 1..Len(s) : t[i] = s[Len(s) + 1 - i] /\ t[i] \in X
  BY <1>1, <1>2
<1>4. t \in Seq(X) /\ Len(t) = Len(s) /\ DOMAIN t = 1..Len(s)
  BY <1>1, <1>3, IsASeq
<1>5. Reverse(s) = t
  BY DEF Reverse
<1> HIDE DEF t
<1>6. QED
  BY <1>1, <1>3, <1>4, <1>5

\* The largest of the components is a class that no other is larger than.
LEMMA LargestIsClass ==
  ASSUME NEW n, Laid(n)
  PROVE  /\ Largest(n) \in SUBSET Corners(n)
         /\ Corners(n) # {} => \E x \in Corners(n) : Largest(n) = Class(n, x)
         /\ \A x \in Corners(n) : Cardinality(Class(n, x)) <= Cardinality(Largest(n))
<1>1. PICK order \in Seq(Corners(n)) :
        /\ order = FinishOrder(n) /\ ToSet(order) = Corners(n) /\ Ranged(n, order)
  BY FinishOrderHolds
<1>2. PICK roots : roots = Reverse(order)
  OBVIOUS
<1> DEFINE N == Len(order)
           start == [taken |-> {}, best |-> {}]
           Meets(f) == f = [k \in 0..N |-> IF k = 0 THEN start ELSE Component(n, f[k - 1], roots[k])]
<1>3. /\ N \in Nat /\ DOMAIN order = 1..N /\ Len(roots) = N
      /\ \A k \in 1..N : roots[k] = order[N + 1 - k] /\ roots[k] \in Corners(n)
  BY <1>2, ReverseFacts, ElementOfSeq
<1>4. IsFiniteSet(Corners(n))
  BY CornersOf
\* What a round makes of what was found.
<1>5. ASSUME NEW k \in 1..N, NEW found \in Collected(n), ClassesTaken(n, found),
             \A j \in 1..(k - 1) : roots[j] \in found.taken
      PROVE  /\ Component(n, found, roots[k]) \in Collected(n)
             /\ ClassesTaken(n, Component(n, found, roots[k]))
             /\ \A j \in 1..k : roots[j] \in Component(n, found, roots[k]).taken
  <2>1. PICK root : root = roots[k]
    OBVIOUS
  <2>2. PICK taken \in SUBSET Corners(n), best \in SUBSET Corners(n) :
          found = [taken |-> taken, best |-> best]
    BY DEF Collected
  <2>3. /\ found.taken = taken /\ found.best = best
        /\ \A x \in taken : Class(n, x) \subseteq taken
        /\ IF taken = {} THEN best = {} ELSE \E x \in Corners(n) : best = Class(n, x)
        /\ \A x \in taken : Cardinality(Class(n, x)) <= Cardinality(best)
    BY <1>5, <2>2 DEF ClassesTaken
  <2>4. \A j \in 1..k : j = k \/ j \in 1..(k - 1)
    OBVIOUS
  <2>5. CASE root \in taken
    <3>1. Component(n, found, root) = found
      BY <2>3, <2>5 DEF Component
    <3>2. QED
      BY <1>5, <2>1, <2>3, <2>4, <2>5, <3>1
  <2>6. CASE root \notin taken
    <3>1. PICK f \in 1..N : f = N + 1 - k /\ root = order[f]
      BY <1>3, <2>1
    <3>2. ASSUME NEW h \in DOMAIN order, h > f
          PROVE  order[h] \in taken
      <4>1. N + 1 - h \in 1..(k - 1) /\ N + 1 - h \in 1..N /\ N + 1 - (N + 1 - h) = h
        BY <1>3, <3>1, <3>2
      <4>2. roots[N + 1 - h] = order[h]
        BY <1>3, <4>1
      <4>3. QED
        BY <1>5, <2>3, <4>1, <4>2
    <3>3. PICK C : C = Class(n, root)
      OBVIOUS
    <3>4. Gather(n, taken, root) = C
      <4>1. f \in DOMAIN order /\ order[f] \notin taken
        BY <1>3, <2>6, <3>1
      <4>2. \A x \in taken : Class(n, x) \subseteq taken
        BY <2>3
      <4>3. Gather(n, taken, order[f]) = Class(n, order[f])
        BY <1>1, <3>2, <4>1, <4>2, GatherIsClass
      <4>4. QED
        BY <3>1, <3>3, <4>3
    <3>5. root \in Corners(n) /\ C \in SUBSET Corners(n) /\ root \in C
      BY <1>3, <2>1, <3>3, LeadsBack DEF Class
    <3>6. \A x \in C : Class(n, x) = C
      BY <3>3, <3>5, SameClass
    <3>7. PICK b : b = IF Cardinality(C) > Cardinality(best) THEN C ELSE best
      OBVIOUS
    <3>8. Component(n, found, root) = [taken |-> taken \cup C, best |-> b]
      BY <2>3, <2>6, <3>4, <3>7 DEF Component
    <3>9. Component(n, found, root) \in Collected(n)
      BY <3>5, <3>7, <3>8 DEF Collected
    <3>10. Cardinality(C) \in Nat /\ Cardinality(best) \in Nat
      BY <1>4, <3>5, FS_Subset, FS_CardinalityType
    <3>11. \A x \in taken : Cardinality(Class(n, x)) \in Nat
      <4>1. \A x : Class(n, x) \in SUBSET Corners(n)
        BY DEF Class
      <4>2. QED
        BY <1>4, <4>1, FS_Subset, FS_CardinalityType
    <3>12. \A x \in taken \cup C : Class(n, x) \subseteq taken \cup C
      BY <2>3, <3>6
    <3>13. \E x \in Corners(n) : b = Class(n, x)
      <4>1. CASE b = C
        BY <3>3, <3>5, <4>1
      <4>2. CASE b # C
        <5>1. b = best /\ ~(Cardinality(C) > Cardinality(best))
          BY <3>7, <4>2
        <5>2. taken # {}
          <6>1. ASSUME taken = {}
                PROVE  FALSE
            <7>1. Cardinality(C) >= 1
              <8>1. C # {} /\ IsFiniteSet(C)
                BY <1>4, <3>5, FS_Subset
              <8>2. Cardinality(C) # 0
                BY <8>1, FS_EmptySet
              <8>3. QED
                BY <3>10, <8>2
            <7>2. Cardinality(best) = 0
              BY <2>3, <6>1, FS_EmptySet
            <7>3. QED
              BY <3>10, <5>1, <7>1, <7>2
          <6>2. QED
            BY <6>1
        <5>3. QED
          BY <2>3, <5>1, <5>2
      <4>3. QED
        BY <4>1, <4>2
    <3>14. ASSUME NEW x \in taken \cup C
           PROVE  Cardinality(Class(n, x)) <= Cardinality(b)
      <4>1. Cardinality(C) <= Cardinality(b) /\ Cardinality(best) <= Cardinality(b)
        BY <3>7, <3>10
      <4>2. CASE x \in C
        BY <3>6, <4>1, <4>2
      <4>3. CASE x \in taken
        BY <2>3, <3>7, <3>10, <3>11, <4>1, <4>3
      <4>4. QED
        BY <4>2, <4>3
    <3>15. ClassesTaken(n, Component(n, found, root))
      <4>1. taken \cup C # {}
        BY <3>5
      <4>2. QED
        BY <3>8, <3>12, <3>13, <3>14, <4>1 DEF ClassesTaken
    <3>16. \A j \in 1..k : roots[j] \in taken \cup C
      BY <1>5, <2>1, <2>3, <2>4, <3>5
    <3>17. QED
      BY <2>1, <3>8, <3>9, <3>15, <3>16
  <2>7. QED
    BY <2>5, <2>6
<1> DEFINE Fine(k, found) == /\ found \in Collected(n) /\ ClassesTaken(n, found)
                             /\ \A j \in 1..k : roots[j] \in found.taken
<1>6. Fine(0, start)
  BY DEF Collected, ClassesTaken
<1>7. ASSUME NEW k \in 1..N, NEW found, Fine(k - 1, found)
      PROVE  Fine(k, Component(n, found, roots[k]))
  BY <1>5, <1>7
<1> HIDE DEF Fine, start
<1>8. ASSUME NEW k \in 1..N, NEW found \in Collected(n)
      PROVE  Component(n, found, roots[k]) \in Collected(n)
  <2>1. PICK root \in Corners(n) : root = roots[k]
    BY <1>3
  <2>2. PICK taken \in SUBSET Corners(n), best \in SUBSET Corners(n) :
          found = [taken |-> taken, best |-> best]
    BY DEF Collected
  <2>3. CASE root \in taken
    BY <2>1, <2>2, <2>3 DEF Component
  <2>4. CASE root \notin taken
    <3>1. PICK C \in SUBSET Corners(n) : C = Gather(n, taken, root)
      BY <2>4, GatherHolds
    <3>2. PICK b \in SUBSET Corners(n) : b = IF Cardinality(C) > Cardinality(best) THEN C ELSE best
      OBVIOUS
    <3>3. Component(n, found, root) = [taken |-> taken \cup C, best |-> b]
      BY <2>2, <2>4, <3>1, <3>2 DEF Component
    <3>4. QED
      BY <2>1, <3>3 DEF Collected
  <2>5. QED
    BY <2>3, <2>4
<1>9. \E f : Meets(f)
  <2> DEFINE S == Collected(n)
             g == [x \in (1..N) \X S |-> Component(n, x[2], roots[x[1]])]
  <2>1. g \in [(1..N) \X S -> S]
    BY <1>8
  <2>2. start \in S
    BY <1>6 DEF Fine
  <2>3. PICK f \in [0..N -> S] : Rounds(f, start, g, N)
    <3> HIDE DEF g, S
    <3>1. QED
      BY <1>3, <2>1, <2>2, Iteration
  <2>4. ASSUME NEW k \in 0..N
        PROVE  f[k] = IF k = 0 THEN start ELSE Component(n, f[k - 1], roots[k])
    <3>1. CASE k = 0
      BY <2>3, <3>1 DEF Rounds
    <3>2. CASE k # 0
      <4>1. k \in 1..N /\ k - 1 \in 0..N
        BY <1>3, <3>2
      <4>2. f[k] = g[<<k, f[k - 1]>>] /\ f[k - 1] \in S
        BY <2>3, <4>1 DEF Rounds
      <4>3. QED
        BY <3>2, <4>1, <4>2
    <3>3. QED
      BY <3>1, <3>2
  <2>5. QED
    BY <2>4
<1> DEFINE found == CHOOSE f : Meets(f)
<1>10. Meets(found)
  <2> HIDE DEF Meets
  <2>1. QED
    BY <1>9
<1>11. Largest(n) = found[N].best
  BY <1>1, <1>2, <1>3 DEF Largest, start
<1> HIDE DEF found
<1>12. found[0] = start /\ \A k \in 1..N : found[k] = Component(n, found[k - 1], roots[k])
  <2>1. 0 \in 0..N
    BY <1>3
  <2>2. found[0] = start
    BY <1>10, <2>1
  <2>3. ASSUME NEW k \in 1..N
        PROVE  found[k] = Component(n, found[k - 1], roots[k])
    <3>1. k \in 0..N /\ k # 0
      BY <1>3
    <3>2. QED
      BY <1>10, <3>1
  <2>4. QED
    BY <2>2, <2>3
<1> DEFINE Kept == {k \in Nat : k <= N => Fine(k, found[k])}
<1>13. Nat \subseteq Kept
  <2>1. 0 \in Kept
    BY <1>6, <1>12
  <2>2. ASSUME NEW k \in Nat, k \in Kept
        PROVE  k + 1 \in Kept
    <3>1. ASSUME k + 1 <= N
          PROVE  Fine(k + 1, found[k + 1])
      <4>1. k + 1 \in 1..N /\ (k + 1) - 1 = k /\ k <= N
        BY <1>3, <3>1
      <4>2. Fine(k, found[k]) /\ found[k + 1] = Component(n, found[k], roots[k + 1])
        BY <1>12, <2>2, <4>1
      <4>3. QED
        BY <1>7, <4>1, <4>2
    <3>2. QED
      BY <3>1
  <2> HIDE DEF Kept
  <2>3. QED
    BY <2>1, <2>2, Naturally
<1>14. PICK all : all = found[N]
  OBVIOUS
<1>15. Fine(N, all)
  BY <1>3, <1>13, <1>14
<1>16. /\ all.best \in SUBSET Corners(n) /\ all.taken \in SUBSET Corners(n)
       /\ ClassesTaken(n, all) /\ \A j \in 1..N : roots[j] \in all.taken
  BY <1>15 DEF Fine, Collected
<1>17. all.taken = Corners(n)
  <2>1. ASSUME NEW x \in Corners(n)
        PROVE  x \in all.taken
    <3>1. PICK h \in 1..N : x = order[h]
      BY <1>1, <1>3 DEF ToSet
    <3>2. N + 1 - h \in 1..N /\ N + 1 - (N + 1 - h) = h
      BY <1>3
    <3>3. roots[N + 1 - h] = x
      BY <1>3, <3>1, <3>2
    <3>4. QED
      BY <1>16, <3>2, <3>3
  <2>2. QED
    BY <1>16, <2>1
<1>18. QED
  BY <1>11, <1>14, <1>16, <1>17 DEF ClassesTaken
-----------------------------------------------------------------------------
(* Picking elements of a sequence.                                         *)

\* Of every element, itself or nothing.
Taken(s, places) == [i \in DOMAIN s |-> IF i \in places THEN <<s[i]>> ELSE <<>>]

\* A function on the first n naturals is a sequence of length n.
LEMMA FunctionIsSeq ==
  ASSUME NEW S, NEW n \in Nat, NEW f \in [1..n -> S]
  PROVE  f \in Seq(S) /\ Len(f) = n
<1>1. f \in Seq(S)
  BY SeqDef
<1>2. 1..Len(f) = 1..n /\ Len(f) \in Nat
  BY <1>1, LenProperties
<1>3. QED
  <2>1. CASE n = 0
    BY <1>1, <1>2, <2>1
  <2>2. CASE Len(f) = 0
    BY <1>1, <1>2, <2>2
  <2>3. CASE n # 0 /\ Len(f) # 0
    <3>1. n \in 1..Len(f) /\ Len(f) \in 1..n
      BY <1>2, <2>3
    <3>2. QED
      BY <1>1, <1>2, <3>1
  <2>4. QED
    BY <2>1, <2>2, <2>3

LEMMA SingletonFacts ==
  ASSUME NEW X, NEW x \in X
  PROVE  <<x>> \in Seq(X) /\ ToSet(<<x>>) = {x} /\ IsInjective(<<x>>) /\ Len(<<x>>) = 1
<1>1. DOMAIN <<x>> = {1} /\ <<x>>[1] = x /\ <<x>> \in Seq(X) /\ Len(<<x>>) = 1
  OBVIOUS
<1>2. QED
  BY <1>1 DEF ToSet, IsInjective

\* What is optional is a sequence of at most one.
LEMMA OptionFacts ==
  ASSUME NEW X, NEW t, t = <<>> \/ \E x \in X : t = <<x>>
  PROVE  /\ t \in Seq(X) /\ IsInjective(t)
         /\ t = <<>> => ToSet(t) = {}
         /\ \A x : t = <<x>> => ToSet(t) = {x}
<1>1. CASE t = <<>>
  <2>1. DOMAIN t = {} /\ t \in Seq(X)
    BY <1>1, EmptySeq
  <2>2. \A x : t # <<x>>
    BY <1>1
  <2>3. QED
    BY <2>1, <2>2 DEF ToSet, IsInjective
<1>2. CASE \E x \in X : t = <<x>>
  <2>1. PICK x \in X : t = <<x>>
    BY <1>2
  <2>2. t # <<>>
    BY <2>1
  <2>3. \A y : t = <<y>> => y = x
    BY <2>1
  <2>4. QED
    BY <2>1, <2>2, <2>3, SingletonFacts
<1>3. QED
  BY <1>1, <1>2

LEMMA PickedFacts ==
  ASSUME NEW X, NEW s \in Seq(X), NEW places
  PROVE  /\ Picked(s, places) \in Seq(X)
         /\ ToSet(Picked(s, places)) = {s[i] : i \in DOMAIN s \cap places}
         /\ (\A i, j \in DOMAIN s \cap places : s[i] = s[j] => i = j) => IsInjective(Picked(s, places))
<1> DEFINE ss == Taken(s, places)
<1>1. Len(s) \in Nat /\ DOMAIN s = 1..Len(s) /\ \A i \in DOMAIN s : s[i] \in X
  BY LenProperties, ElementOfSeq
<1>2. /\ DOMAIN ss = DOMAIN s
      /\ \A i \in DOMAIN s : ss[i] = IF i \in places THEN <<s[i]>> ELSE <<>>
  BY DEF Taken
<1>3. Picked(s, places) = FlattenSeq(ss)
  BY DEF Picked, Taken
<1>d. ss = [i \in DOMAIN s |-> ss[i]]
  BY DEF Taken
<1> HIDE DEF ss
<1>4. ASSUME NEW i \in DOMAIN s
      PROVE  /\ ss[i] \in Seq(X) /\ IsInjective(ss[i])
             /\ ToSet(ss[i]) = IF i \in places THEN {s[i]} ELSE {}
  <2>1. PICK t : t = ss[i]
    OBVIOUS
  <2>2. CASE i \in places
    <3>1. t = <<s[i]>> /\ s[i] \in X
      BY <1>1, <1>2, <2>1, <2>2
    <3>2. QED
      BY <2>1, <2>2, <3>1, OptionFacts
  <2>3. CASE i \notin places
    <3>1. t = <<>>
      BY <1>2, <2>1, <2>3
    <3>2. t \in Seq(X) /\ IsInjective(t) /\ ToSet(t) = {}
      BY <3>1, OptionFacts
    <3>3. QED
      BY <2>1, <2>3, <3>2
  <2>4. QED
    BY <2>2, <2>3
<1>5. ss \in Seq(Seq(X))
  <2>1. ss \in [1..Len(s) -> Seq(X)]
    BY <1>1, <1>2, <1>4, <1>d
  <2>2. QED
    BY <1>1, <2>1, FunctionIsSeq
<1>6. FlattenSeq(ss) \in Seq(X) /\ ToSet(FlattenSeq(ss)) = UNION {ToSet(ss[i]) : i \in DOMAIN ss}
  BY <1>5, FlattenType, FlattenHolds
<1>7. UNION {ToSet(ss[i]) : i \in DOMAIN ss} = {s[i] : i \in DOMAIN s \cap places}
  <2>1. ASSUME NEW x \in UNION {ToSet(ss[i]) : i \in DOMAIN ss}
        PROVE  x \in {s[i] : i \in DOMAIN s \cap places}
    <3>1. PICK i \in DOMAIN s : x \in ToSet(ss[i])
      BY <1>2
    <3>2. QED
      BY <1>4, <3>1
  <2>2. ASSUME NEW i \in DOMAIN s \cap places
        PROVE  s[i] \in UNION {ToSet(ss[j]) : j \in DOMAIN ss}
    <3>1. s[i] \in ToSet(ss[i]) /\ i \in DOMAIN ss
      BY <1>2, <1>4
    <3>2. QED
      BY <3>1
  <2>3. QED
    BY <2>1, <2>2
<1>8. ASSUME \A i, j \in DOMAIN s \cap places : s[i] = s[j] => i = j
      PROVE  IsInjective(FlattenSeq(ss))
  <2>1. ASSUME NEW i \in DOMAIN ss, NEW j \in DOMAIN ss, i # j
        PROVE  ToSet(ss[i]) \cap ToSet(ss[j]) = {}
    BY <1>2, <1>4, <1>8, <2>1
  <2>2. QED
    BY <1>2, <1>4, <1>5, <2>1, FlattenDistinct
<1>9. QED
  BY <1>3, <1>6, <1>7, <1>8

\* What a sequence holds is what is first met in it, and that only once.
LEMMA FirstMetFacts ==
  ASSUME NEW X, NEW s \in Seq(X)
  PROVE  FirstMet(s) \in Seq(X) /\ ToSet(FirstMet(s)) = ToSet(s) /\ IsInjective(FirstMet(s))
<1> DEFINE P == {i \in DOMAIN s : \A j \in 1..(i - 1) : s[j] # s[i]}
<1>1. Len(s) \in Nat /\ DOMAIN s = 1..Len(s)
  BY LenProperties
<1>2. FirstMet(s) = Picked(s, P)
  BY DEF FirstMet
<1>3. /\ FirstMet(s) \in Seq(X) /\ ToSet(FirstMet(s)) = {s[i] : i \in DOMAIN s \cap P}
      /\ (\A i, j \in DOMAIN s \cap P : s[i] = s[j] => i = j) => IsInjective(FirstMet(s))
  <2> HIDE DEF P
  <2>1. QED
    BY <1>2, PickedFacts
<1>4. ASSUME NEW i \in DOMAIN s \cap P, NEW j \in DOMAIN s \cap P, s[i] = s[j]
      PROVE  i = j
  <2>1. CASE i < j
    <3>1. i \in 1..(j - 1)
      BY <1>1, <2>1
    <3>2. QED
      BY <1>4, <3>1
  <2>2. CASE j < i
    <3>1. j \in 1..(i - 1)
      BY <1>1, <2>2
    <3>2. QED
      BY <1>4, <3>1
  <2>3. QED
    BY <1>1, <2>1, <2>2
<1>5. ASSUME NEW x \in ToSet(s)
      PROVE  \E i \in DOMAIN s \cap P : s[i] = x
  <2> DEFINE S == {i \in DOMAIN s : s[i] = x}
  <2>1. S \in SUBSET Nat /\ S # {}
    BY <1>1 DEF ToSet
  <2>2. PICK i \in S : \A j \in S : i <= j
    <3> HIDE DEF S
    <3>1. QED
      BY <2>1, LeastOf
  <2>3. ASSUME NEW j \in 1..(i - 1)
        PROVE  s[j] # s[i]
    <3>1. j \in DOMAIN s /\ ~(i <= j)
      BY <1>1
    <3>2. QED
      BY <2>2, <3>1
  <2>4. QED
    BY <2>3
<1>6. {s[i] : i \in DOMAIN s \cap P} = ToSet(s)
  <2>1. \A i \in DOMAIN s \cap P : s[i] \in ToSet(s)
    BY DEF ToSet
  <2> HIDE DEF P
  <2>2. QED
    BY <1>5, <2>1
<1>7. QED
  BY <1>3, <1>4, <1>6

\* What a table holds has an index in it.
LEMMA IndexFacts ==
  ASSUME NEW table, NEW x \in ToSet(table)
  PROVE  IndexIn(table, x) \in DOMAIN table /\ table[IndexIn(table, x)] = x
BY DEF IndexIn, ToSet

LEMMA IndexOnly ==
  ASSUME NEW table, IsInjective(table), NEW i \in DOMAIN table
  PROVE  IndexIn(table, table[i]) = i
<1>1. table[i] \in ToSet(table)
  BY DEF ToSet
<1>2. QED
  BY <1>1, IndexFacts DEF IsInjective
-----------------------------------------------------------------------------
(* The stretches of an extract.                                            *)

Stretches == [nodes : Shapes, oneway : BOOLEAN, name : STRING]

\* A stretch is the points of its run, in the order they are driven in.
LEMMA StretchFacts ==
  ASSUME NEW e \in Elements, NEW run \in Runs(e)
  PROVE  /\ run[1] \in 1..Len(e.nodes) /\ run[2] \in 1..Len(e.nodes) /\ run[1] < run[2]
         /\ Stretch(e, run) \in Stretches
         /\ Stretch(e, run).oneway = Directed(e)
         /\ DOMAIN Stretch(e, run).nodes = 1..(run[2] - run[1] + 1)
         /\ Len(Stretch(e, run).nodes) = run[2] - run[1] + 1
         /\ \A k \in 1..(run[2] - run[1] + 1) :
              Stretch(e, run).nodes[k] =
                IF e.oneway = "-1" THEN e.nodes[run[2] + 1 - k] ELSE e.nodes[run[1] + k - 1]
<1> DEFINE listed == SubSeq(e.nodes, run[1], run[2])
<1>1. /\ e.nodes \in Seq(DOMAIN Place) /\ e.oneway \in STRING /\ e.roundabout \in BOOLEAN
      /\ e.name \in STRING
  BY DEF Elements
<1>2. /\ Len(e.nodes) \in Nat /\ DOMAIN e.nodes = 1..Len(e.nodes)
      /\ \A k \in 1..Len(e.nodes) : e.nodes[k] \in DOMAIN Place
  BY <1>1, LenProperties, ElementOfSeq
<1>3. run[1] \in 1..Len(e.nodes) /\ run[2] \in 1..Len(e.nodes) /\ run[1] < run[2]
  BY <1>2 DEF Runs
<1>4. PICK i \in 1..Len(e.nodes), j \in 1..Len(e.nodes) : i = run[1] /\ j = run[2] /\ i < j
  BY <1>3
<1>5. /\ listed \in Seq(DOMAIN Place) /\ Len(listed) = j - i + 1
      /\ \A k \in 1..(j - i + 1) : listed[k] = e.nodes[i + k - 1]
  BY <1>2, <1>4, SubSeqProperties
<1> HIDE DEF listed
<1>6. PICK l \in Seq(DOMAIN Place) : l = listed
  BY <1>5
<1>7. /\ Reverse(l) \in Seq(DOMAIN Place) /\ Len(Reverse(l)) = j - i + 1
      /\ \A k \in 1..(j - i + 1) : Reverse(l)[k] = l[j - i + 1 + 1 - k]
  BY <1>5, <1>6, ReverseFacts, SMTT(30)
<1>8. \A k \in 1..(j - i + 1) : Reverse(l)[k] = e.nodes[j + 1 - k]
  <2>1. ASSUME NEW k \in 1..(j - i + 1)
        PROVE  Reverse(l)[k] = e.nodes[j + 1 - k]
    <3>1. j - i + 1 + 1 - k \in 1..(j - i + 1) /\ i + (j - i + 1 + 1 - k) - 1 = j + 1 - k
      BY <1>2, <1>4, SMTT(30)
    <3>2. l[j - i + 1 + 1 - k] = e.nodes[j + 1 - k]
      BY <1>5, <1>6, <3>1
    <3>3. QED
      BY <1>7, <3>2
  <2>2. QED
    BY <2>1
<1>9. PICK m \in Seq(DOMAIN Place) : m = IF e.oneway = "-1" THEN Reverse(l) ELSE l
  BY <1>7
<1>10. /\ Len(m) = j - i + 1 /\ DOMAIN m = 1..(j - i + 1)
       /\ \A k \in 1..(j - i + 1) :
            m[k] = IF e.oneway = "-1" THEN e.nodes[j + 1 - k] ELSE e.nodes[i + k - 1]
  <2>1. CASE e.oneway = "-1"
    BY <1>7, <1>8, <1>9, <2>1, LenProperties
  <2>2. CASE e.oneway # "-1"
    BY <1>5, <1>6, <1>9, <2>2, LenProperties
  <2>3. QED
    BY <2>1, <2>2
<1>11. m \in Shapes
  BY <1>4, <1>10 DEF Shapes
<1>12. Directed(e) \in BOOLEAN
  BY <1>1 DEF Directed
<1>13. PICK w : w = Stretch(e, run)
  OBVIOUS
<1>14. w = [nodes |-> m, oneway |-> Directed(e), name |-> e.name]
  BY <1>6, <1>9, <1>13 DEF Stretch, listed
<1>15. w \in Stretches /\ w.nodes = m /\ w.oneway = Directed(e)
  BY <1>1, <1>11, <1>12, <1>14 DEF Stretches
<1>16. QED
  BY <1>3, <1>4, <1>10, <1>13, <1>15

\* An element of two lists of one length gives a way for every run, and nothing else.
LEMMA WaysOfFacts ==
  ASSUME NEW e \in Elements
  PROVE  /\ WaysOf(e) \in Seq(Stretches)
         /\ ToSet(WaysOf(e)) = {Stretch(e, run) : run \in {r \in Runs(e) : Len(e.nodes) = Len(e.known)}}
<1> DEFINE From(i) == {run \in Runs(e) : run[1] = i}
           ss == [i \in DOMAIN e.nodes |->
                    IF From(i) = {} THEN <<>>
                    ELSE <<Stretch(e, CHOOSE run \in From(i) : TRUE)>>]
<1>1. e.nodes \in Seq(DOMAIN Place)
  BY DEF Elements
<1>2. Len(e.nodes) \in Nat /\ DOMAIN e.nodes = 1..Len(e.nodes)
  BY <1>1, LenProperties
<1>3. CASE Len(e.nodes) # Len(e.known)
  <2>1. WaysOf(e) = <<>>
    BY <1>3 DEF WaysOf
  <2>2. <<>> \in Seq(Stretches) /\ ToSet(<<>>) = {}
    BY OptionFacts
  <2>3. QED
    BY <1>3, <2>1, <2>2
<1>4. CASE Len(e.nodes) = Len(e.known)
  <2>1. WaysOf(e) = FlattenSeq(ss)
    BY <1>4 DEF WaysOf
  <2>2. ASSUME NEW r \in Runs(e), NEW s \in Runs(e), r[1] = s[1]
        PROVE  r = s
    <3>1. /\ r = <<r[1], r[2]>> /\ s = <<s[1], s[2]>>
          /\ r[1] \in Nat /\ r[2] \in Nat /\ s[2] \in Nat /\ r[1] < r[2] /\ s[1] < s[2]
      BY <1>2 DEF Runs
    <3>2. ~(r[2] < s[2]) /\ ~(s[2] < r[2])
      <4>1. /\ \A k \in r[1]..r[2] : Known(e, k)
            /\ \A k \in s[1]..s[2] : Known(e, k)
            /\ ~Known(e, r[2] + 1) /\ ~Known(e, s[2] + 1)
        BY DEF Runs
      <4>2. r[2] < s[2] => r[2] + 1 \in s[1]..s[2]
        BY <2>2, <3>1
      <4>3. s[2] < r[2] => s[2] + 1 \in r[1]..r[2]
        BY <2>2, <3>1
      <4>4. QED
        BY <4>1, <4>2, <4>3
    <3>3. QED
      BY <2>2, <3>1, <3>2
  <2>3. ASSUME NEW i \in DOMAIN e.nodes
        PROVE  /\ ss[i] \in Seq(Stretches)
               /\ ToSet(ss[i]) = {Stretch(e, run) : run \in From(i)}
    <3>1. CASE From(i) = {}
      <4>1. ss[i] = <<>>
        BY <3>1
      <4>2. <<>> \in Seq(Stretches) /\ ToSet(<<>>) = {}
        BY OptionFacts
      <4>3. QED
        BY <3>1, <4>1, <4>2
    <3>2. CASE From(i) # {}
      <4>1. PICK run : run = CHOOSE r \in From(i) : TRUE
        OBVIOUS
      <4>2. run \in From(i)
        BY <3>2, <4>1
      <4>3. From(i) = {run}
        BY <2>2, <4>2
      <4>4. ss[i] = <<Stretch(e, run)>>
        BY <3>2, <4>1
      <4>5. PICK w \in Stretches : w = Stretch(e, run)
        BY <4>2, StretchFacts
      <4>6. <<w>> \in Seq(Stretches) /\ ToSet(<<w>>) = {w}
        BY SingletonFacts
      <4>7. QED
        BY <4>3, <4>4, <4>5, <4>6
    <3>3. QED
      BY <3>1, <3>2
  <2>4. ss \in [1..Len(e.nodes) -> Seq(Stretches)]
    <3>1. ss = [i \in 1..Len(e.nodes) |-> ss[i]]
      BY <1>2
    <3> HIDE DEF ss
    <3>2. QED
      BY <1>2, <2>3, <3>1
  <2>5. ss \in Seq(Seq(Stretches)) /\ DOMAIN ss = DOMAIN e.nodes
    <3> HIDE DEF ss
    <3>1. QED
      BY <1>2, <2>4, FunctionIsSeq
  <2>6. FlattenSeq(ss) \in Seq(Stretches) /\ ToSet(FlattenSeq(ss)) = UNION {ToSet(ss[i]) : i \in DOMAIN ss}
    <3> HIDE DEF ss
    <3>1. QED
      BY <2>5, FlattenType, FlattenHolds
  <2>7. UNION {ToSet(ss[i]) : i \in DOMAIN ss} = {Stretch(e, run) : run \in Runs(e)}
    <3>1. \A run \in Runs(e) : run[1] \in DOMAIN e.nodes /\ run \in From(run[1])
      BY DEF Runs
    <3>2. \A i \in DOMAIN e.nodes : From(i) \subseteq Runs(e)
      OBVIOUS
    <3> HIDE DEF ss, From
    <3>3. ASSUME NEW w \in UNION {ToSet(ss[i]) : i \in DOMAIN ss}
          PROVE  w \in {Stretch(e, run) : run \in Runs(e)}
      <4>1. PICK i \in DOMAIN ss : w \in ToSet(ss[i])
        BY <3>3
      <4>2. PICK run \in From(i) : w = Stretch(e, run)
        BY <2>3, <2>5, <4>1, ZenonT(30)
      <4>3. QED
        BY <2>5, <3>2, <4>2
    <3>4. ASSUME NEW run \in Runs(e)
          PROVE  Stretch(e, run) \in UNION {ToSet(ss[i]) : i \in DOMAIN ss}
      <4>1. Stretch(e, run) \in ToSet(ss[run[1]]) /\ run[1] \in DOMAIN ss
        BY <2>3, <2>5, <3>1
      <4>2. QED
        BY <4>1
    <3>5. QED
      BY <3>3, <3>4
  <2>8. QED
    BY <1>4, <2>1, <2>6, <2>7
<1>5. QED
  BY <1>3, <1>4

\* The extracts' ways are the runs of their elements.
LEMMA ParseFacts ==
  ASSUME NEW extract \in Seq(Elements)
  PROVE  /\ Parse(extract) \in Seq(Stretches)
         /\ \A w : w \in ToSet(Parse(extract)) <=>
                     \E e \in ToSet(extract) : \E run \in Runs(e) :
                       Len(e.nodes) = Len(e.known) /\ w = Stretch(e, run)
         /\ ToSet(extract) \subseteq Elements
<1> DEFINE ss == [k \in DOMAIN extract |-> WaysOf(extract[k])]
<1>1. Len(extract) \in Nat /\ DOMAIN extract = 1..Len(extract) /\ \A k \in DOMAIN extract : extract[k] \in Elements
  BY LenProperties, ElementOfSeq
<1>2. ss \in [1..Len(extract) -> Seq(Stretches)] /\ \A k \in DOMAIN extract : ss[k] = WaysOf(extract[k])
  BY <1>1, WaysOfFacts
<1>3. Parse(extract) = FlattenSeq(ss)
  BY DEF Parse
<1> HIDE DEF ss
<1>4. ss \in Seq(Seq(Stretches)) /\ DOMAIN ss = DOMAIN extract
  BY <1>1, <1>2, FunctionIsSeq
<1>5. /\ FlattenSeq(ss) \in Seq(Stretches)
      /\ ToSet(FlattenSeq(ss)) = UNION {ToSet(ss[i]) : i \in DOMAIN ss}
  BY <1>4, FlattenType, FlattenHolds
<1>6. ASSUME NEW w
      PROVE  w \in UNION {ToSet(ss[i]) : i \in DOMAIN ss} <=>
               \E e \in ToSet(extract) : \E run \in Runs(e) :
                 Len(e.nodes) = Len(e.known) /\ w = Stretch(e, run)
  <2>1. ASSUME NEW k \in DOMAIN extract
        PROVE  w \in ToSet(ss[k]) <=>
                 \E run \in Runs(extract[k]) :
                   /\ Len(extract[k].nodes) = Len(extract[k].known)
                   /\ w = Stretch(extract[k], run)
    <3>1. PICK e \in Elements : e = extract[k]
      BY <1>1
    <3>2. ToSet(WaysOf(e)) = {Stretch(e, run) : run \in {r \in Runs(e) : Len(e.nodes) = Len(e.known)}}
      BY WaysOfFacts
    <3>3. QED
      BY <1>2, <3>1, <3>2
  <2>2. ASSUME w \in UNION {ToSet(ss[i]) : i \in DOMAIN ss}
        PROVE  \E e \in ToSet(extract) : \E run \in Runs(e) :
                 Len(e.nodes) = Len(e.known) /\ w = Stretch(e, run)
    <3>1. PICK k \in DOMAIN extract : w \in ToSet(ss[k])
      BY <1>4, <2>2
    <3>2. extract[k] \in ToSet(extract)
      BY DEF ToSet
    <3>3. QED
      BY <2>1, <3>1, <3>2
  <2>3. ASSUME NEW e \in ToSet(extract), NEW run \in Runs(e),
               Len(e.nodes) = Len(e.known), w = Stretch(e, run)
        PROVE  w \in UNION {ToSet(ss[i]) : i \in DOMAIN ss}
    <3>1. PICK k \in DOMAIN extract : e = extract[k]
      BY DEF ToSet
    <3>2. w \in ToSet(ss[k])
      BY <2>1, <2>3, <3>1
    <3>3. QED
      BY <1>4, <3>2
  <2>4. QED
    BY <2>2, <2>3
<1>7. ToSet(extract) \subseteq Elements
  BY <1>1 DEF ToSet
<1>8. QED
  BY <1>3, <1>5, <1>6, <1>7
-----------------------------------------------------------------------------
(* Where ways meet.                                                        *)

\* What a function makes of a finite set is finite.
LEMMA FiniteImage ==
  ASSUME NEW S, IsFiniteSet(S), NEW f
  PROVE  IsFiniteSet({f[x] : x \in S})
<1> DEFINE T == {f[x] : x \in S}
           g == [x \in S |-> f[x]]
<1>1. g \in Surjection(S, T)
  BY DEF Surjection
<1>2. QED
  <2> HIDE DEF g, T
  <2>1. IsFiniteSet(T)
    BY <1>1, FS_Surjection
  <2>2. QED
    BY <2>1 DEF T

LEMMA WayFacts ==
  ASSUME NEW ways \in Seq(Stretches)
  PROVE  /\ Len(ways) \in Nat /\ DOMAIN ways = 1..Len(ways)
         /\ \A k \in DOMAIN ways :
              /\ ways[k] \in Stretches /\ ways[k].nodes \in Shapes
              /\ ways[k].nodes \in Seq(DOMAIN Place) /\ ways[k].oneway \in BOOLEAN
              /\ Len(ways[k].nodes) \in Nat /\ Len(ways[k].nodes) >= 2
              /\ DOMAIN ways[k].nodes = 1..Len(ways[k].nodes)
              /\ \A i \in DOMAIN ways[k].nodes : ways[k].nodes[i] \in DOMAIN Place
<1>1. Len(ways) \in Nat /\ DOMAIN ways = 1..Len(ways) /\ \A k \in DOMAIN ways : ways[k] \in Stretches
  BY LenProperties, ElementOfSeq
<1>2. ASSUME NEW k \in DOMAIN ways
      PROVE  /\ ways[k].nodes \in Shapes /\ ways[k].oneway \in BOOLEAN
             /\ ways[k].nodes \in Seq(DOMAIN Place) /\ Len(ways[k].nodes) >= 2
             /\ Len(ways[k].nodes) \in Nat
             /\ DOMAIN ways[k].nodes = 1..Len(ways[k].nodes)
             /\ \A i \in DOMAIN ways[k].nodes : ways[k].nodes[i] \in DOMAIN Place
  <2>1. ways[k].nodes \in Shapes /\ ways[k].oneway \in BOOLEAN
    BY <1>1 DEF Stretches
  <2>2. ways[k].nodes \in Seq(DOMAIN Place) /\ Len(ways[k].nodes) >= 2
    BY <2>1 DEF Shapes
  <2>3. QED
    BY <2>1, <2>2, LenProperties, ElementOfSeq
<1>3. QED
  BY <1>1, <1>2

\* Where the ways pass a node, and where they end at it.
Passing(ways, n) ==
  UNION {{<<k, i>> : i \in {j \in DOMAIN ways[k].nodes : ways[k].nodes[j] = n}} : k \in DOMAIN ways}

Ending(ways, n) == {x \in (DOMAIN ways) \X {1, 2} : Ends(ways[x[1]])[x[2]] = n}

LEMMA PassingFacts ==
  ASSUME NEW ways \in Seq(Stretches), NEW n
  PROVE  /\ Passes(ways, n) = Cardinality(Passing(ways, n)) + Cardinality(Ending(ways, n))
         /\ IsFiniteSet(Passing(ways, n)) /\ IsFiniteSet(Ending(ways, n))
         /\ \A k, i : <<k, i>> \in Passing(ways, n) <=>
                        k \in DOMAIN ways /\ i \in DOMAIN ways[k].nodes /\ ways[k].nodes[i] = n
<1>1. Passes(ways, n) = Cardinality(Passing(ways, n)) + Cardinality(Ending(ways, n))
  BY DEF Passes, Passing, Ending
<1>2. IsFiniteSet(DOMAIN ways) /\ \A k \in DOMAIN ways : IsFiniteSet(DOMAIN ways[k].nodes)
  <2>1. Len(ways) \in Nat /\ DOMAIN ways = 1..Len(ways)
    BY WayFacts
  <2>2. ASSUME NEW k \in DOMAIN ways
        PROVE  IsFiniteSet(DOMAIN ways[k].nodes)
    <3>1. PICK m \in Nat : DOMAIN ways[k].nodes = 1..m
      BY WayFacts
    <3>2. QED
      BY <3>1, FS_Interval
  <2>3. QED
    BY <2>1, <2>2, FS_Interval
<1>3. IsFiniteSet(Ending(ways, n))
  <2>1. IsFiniteSet({1}) /\ IsFiniteSet({1} \cup {2})
    BY FS_Singleton, FS_AddElement
  <2>2. {1} \cup {2} = {1, 2}
    OBVIOUS
  <2>3. IsFiniteSet((DOMAIN ways) \X {1, 2})
    BY <1>2, <2>1, <2>2, FS_Product
  <2>4. Ending(ways, n) \in SUBSET ((DOMAIN ways) \X {1, 2})
    BY DEF Ending
  <2>5. QED
    BY <2>3, <2>4, FS_Subset
<1>4. ASSUME NEW k, NEW i
      PROVE  <<k, i>> \in Passing(ways, n) <=>
               k \in DOMAIN ways /\ i \in DOMAIN ways[k].nodes /\ ways[k].nodes[i] = n
  BY DEF Passing
<1>5. IsFiniteSet(Passing(ways, n))
  <2> DEFINE of == [k \in DOMAIN ways |-> {k} \X DOMAIN ways[k].nodes]
             all == {of[k] : k \in DOMAIN ways}
  <2>1. IsFiniteSet(all)
    <3> HIDE DEF of
    <3>1. QED
      BY <1>2, FiniteImage
  <2>2. \A T \in all : IsFiniteSet(T)
    <3>1. ASSUME NEW k \in DOMAIN ways
          PROVE  IsFiniteSet(of[k])
      <4>1. IsFiniteSet({k}) /\ IsFiniteSet(DOMAIN ways[k].nodes)
        BY <1>2, FS_Singleton
      <4>2. IsFiniteSet({k} \X DOMAIN ways[k].nodes)
        BY <4>1, FS_Product
      <4>3. QED
        BY <4>2
    <3> HIDE DEF of
    <3>2. QED
      BY <3>1
  <2>3. Passing(ways, n) \in SUBSET UNION all
    <3>1. ASSUME NEW x \in Passing(ways, n)
          PROVE  \E k \in DOMAIN ways : x \in of[k]
      BY DEF Passing
    <3> HIDE DEF of
    <3>2. QED
      BY <3>1
  <2> HIDE DEF all
  <2>4. IsFiniteSet(UNION all)
    BY <2>1, <2>2, FS_UNION
  <2>5. QED
    BY <2>3, <2>4, FS_Subset
<1>6. QED
  BY <1>1, <1>3, <1>4, <1>5

\* A node that is no junction is passed at one place only.
LEMMA PassedOnce ==
  ASSUME NEW ways \in Seq(Stretches),
         NEW k \in DOMAIN ways, NEW i \in DOMAIN ways[k].nodes,
         NEW l \in DOMAIN ways, NEW j \in DOMAIN ways[l].nodes,
         ways[k].nodes[i] = ways[l].nodes[j], k # l \/ i # j
  PROVE  Passes(ways, ways[k].nodes[i]) >= 2
<1> DEFINE n == ways[k].nodes[i]
           P == Passing(ways, n)
           E == Ending(ways, n)
<1>1. IsFiniteSet(P) /\ IsFiniteSet(E) /\ <<k, i>> \in P /\ <<l, j>> \in P
      /\ Passes(ways, n) = Cardinality(P) + Cardinality(E)
  BY PassingFacts
<1>2. <<k, i>> # <<l, j>>
  OBVIOUS
<1> HIDE DEF n, P, E
<1>3. Cardinality(P) \in Nat /\ Cardinality(E) \in Nat
  BY <1>1, FS_CardinalityType
<1>4. Cardinality(P) # 0 /\ Cardinality(P) # 1
  <2>1. P # {} /\ ~\E x : P = {x}
    BY <1>1, <1>2
  <2>2. QED
    BY <1>1, <2>1, FS_EmptySet, FS_Singleton
<1>5. Cardinality(P) + Cardinality(E) >= 2
  BY <1>3, <1>4
<1>6. QED
  BY <1>1, <1>5 DEF n

\* A way ends at junctions.
LEMMA EndsAreJunctions ==
  ASSUME NEW ways \in Seq(Stretches), NEW k \in DOMAIN ways
  PROVE  1 \in Junctions(ways, ways[k]) /\ Len(ways[k].nodes) \in Junctions(ways, ways[k])
<1> DEFINE w == ways[k]
<1>1. /\ Len(w.nodes) \in Nat /\ Len(w.nodes) >= 2 /\ DOMAIN w.nodes = 1..Len(w.nodes)
  BY WayFacts
<1>2. 1 \in DOMAIN w.nodes /\ Len(w.nodes) \in DOMAIN w.nodes
  BY <1>1
<1>3. ASSUME NEW i \in DOMAIN w.nodes, i = 1 \/ i = Len(w.nodes)
      PROVE  Passes(ways, w.nodes[i]) >= 2
  <2>1. PICK n : n = w.nodes[i]
    OBVIOUS
  <2>2. <<k, i>> \in Passing(ways, n)
    BY <2>1, PassingFacts
  <2>3. Ends(w)[1] = w.nodes[1] /\ Ends(w)[2] = w.nodes[Len(w.nodes)]
    BY DEF Ends, Last
  <2>4. <<k, 1>> \in Ending(ways, n) \/ <<k, 2>> \in Ending(ways, n)
    BY <1>3, <2>1, <2>3 DEF Ending
  <2>5. /\ Passes(ways, n) = Cardinality(Passing(ways, n)) + Cardinality(Ending(ways, n))
        /\ IsFiniteSet(Passing(ways, n)) /\ IsFiniteSet(Ending(ways, n))
    BY PassingFacts
  <2>6. PICK P, E : P = Passing(ways, n) /\ E = Ending(ways, n)
    OBVIOUS
  <2>7. Cardinality(P) \in Nat /\ Cardinality(E) \in Nat
    BY <2>5, <2>6, FS_CardinalityType
  <2>8. Cardinality(P) # 0 /\ Cardinality(E) # 0
    BY <2>2, <2>4, <2>5, <2>6, FS_EmptySet
  <2>9. QED
    BY <2>1, <2>5, <2>6, <2>7, <2>8
<1>4. QED
  BY <1>2, <1>3 DEF Junctions
-----------------------------------------------------------------------------
(* The ways cut where they meet.                                           *)

\* Two junctions of a way with none in between.
Adjacent(ways, w, i, j) ==
  /\ i \in Junctions(ways, w) /\ j \in Junctions(ways, w) /\ i < j
  /\ \A k \in Junctions(ways, w) : ~(i < k /\ k < j)

\* A way from one of its points to another.
Cut(w, i, j) == [w EXCEPT !.nodes = SubSeq(w.nodes, i, j)]

LEMMA CutFacts ==
  ASSUME NEW w \in Stretches, NEW i \in DOMAIN w.nodes, NEW j \in DOMAIN w.nodes, i < j
  PROVE  /\ Cut(w, i, j) \in Stretches /\ Cut(w, i, j).oneway = w.oneway
         /\ Len(Cut(w, i, j).nodes) = j - i + 1 /\ DOMAIN Cut(w, i, j).nodes = 1..(j - i + 1)
         /\ \A k \in 1..(j - i + 1) : Cut(w, i, j).nodes[k] = w.nodes[i + k - 1]
         /\ Cut(w, i, j).nodes[1] = w.nodes[i] /\ Last(Cut(w, i, j).nodes) = w.nodes[j]
<1>1. w.nodes \in Seq(DOMAIN Place) /\ w.oneway \in BOOLEAN /\ w.name \in STRING
  BY DEF Stretches, Shapes
<1>2. /\ Len(w.nodes) \in Nat /\ DOMAIN w.nodes = 1..Len(w.nodes)
      /\ \A k \in 1..Len(w.nodes) : w.nodes[k] \in DOMAIN Place
  BY <1>1, LenProperties, ElementOfSeq
<1>3. PICK c \in Seq(DOMAIN Place) :
        /\ c = SubSeq(w.nodes, i, j) /\ Len(c) = j - i + 1
        /\ \A k \in 1..(j - i + 1) : c[k] = w.nodes[i + k - 1]
  <2>1. i \in Int /\ j \in Int /\ i <= j /\ \A k \in i..j : w.nodes[k] \in DOMAIN Place
    BY <1>2
  <2>2. PICK v, x, y : v = w.nodes /\ x = i /\ y = j
    OBVIOUS
  <2>3. /\ SubSeq(v, x, y) \in Seq(DOMAIN Place)
        /\ Len(SubSeq(v, x, y)) = IF x <= y THEN y - x + 1 ELSE 0
        /\ \A k \in 1..(y - x + 1) : SubSeq(v, x, y)[k] = v[x + k - 1]
    BY <2>1, <2>2, SubSeqProperties
  <2>4. QED
    BY <2>1, <2>2, <2>3
<1>4. c \in Shapes /\ DOMAIN c = 1..(j - i + 1)
  BY <1>2, <1>3, LenProperties DEF Shapes
<1>5. w = [nodes |-> w.nodes, oneway |-> w.oneway, name |-> w.name]
  BY DEF Stretches
<1>6. PICK s : s = Cut(w, i, j)
  OBVIOUS
<1>7. s = [nodes |-> c, oneway |-> w.oneway, name |-> w.name]
  BY <1>3, <1>5, <1>6 DEF Cut
<1>8. s \in Stretches /\ s.nodes = c /\ s.oneway = w.oneway
  BY <1>1, <1>4, <1>7 DEF Stretches
<1>9. 1 \in 1..(j - i + 1) /\ j - i + 1 \in 1..(j - i + 1) /\ i + 1 - 1 = i /\ i + (j - i + 1) - 1 = j
  BY <1>2
<1>10. c[1] = w.nodes[i] /\ Last(c) = w.nodes[j]
  BY <1>3, <1>9 DEF Last
<1>11. QED
  BY <1>3, <1>4, <1>6, <1>8, <1>10

LEMMA JunctionsFacts ==
  ASSUME NEW ways \in Seq(Stretches), NEW k \in DOMAIN ways
  PROVE  /\ Junctions(ways, ways[k]) \in SUBSET DOMAIN ways[k].nodes
         /\ Junctions(ways, ways[k]) \in SUBSET Nat
BY WayFacts DEF Junctions

\* From a junction that is not the last, a way goes on to the next.
LEMMA NextJunction ==
  ASSUME NEW ways \in Seq(Stretches), NEW k \in DOMAIN ways,
         NEW i \in Junctions(ways, ways[k]), i # Len(ways[k].nodes)
  PROVE  \E j \in DOMAIN ways[k].nodes : Adjacent(ways, ways[k], i, j)
<1> DEFINE J == Junctions(ways, ways[k])
           later == {j \in J : j > i}
<1>n. PICK N \in Nat : N = Len(ways[k].nodes) /\ DOMAIN ways[k].nodes = 1..N
  BY WayFacts
<1>1. /\ J \in SUBSET (1..N) /\ J \in SUBSET Nat /\ i \in J
      /\ N \in J /\ DOMAIN ways[k].nodes = 1..N
  BY <1>n, JunctionsFacts, EndsAreJunctions
<1> HIDE DEF J
<1>2. later \in SUBSET Nat /\ N \in later
  <2>1. i \in 1..N /\ i # N
    BY <1>n, <1>1
  <2>2. N > i
    BY <2>1
  <2>3. QED
    BY <1>1, <2>2
<1>3. PICK j \in later : \A m \in later : j <= m
  <2> HIDE DEF later
  <2>1. QED
    BY <1>2, LeastOf
<1>4. j \in DOMAIN ways[k].nodes /\ i < j /\ j \in J
  BY <1>n, <1>1, <1>3
<1>5. \A m \in J : ~(i < m /\ m < j)
  BY <1>n, <1>1, <1>3, <1>4
<1>6. QED
  BY <1>n, <1>1, <1>4, <1>5 DEF Adjacent, J

\* ... and at a junction that is not the first, it came from the one before.
LEMMA JunctionBefore ==
  ASSUME NEW ways \in Seq(Stretches), NEW k \in DOMAIN ways,
         NEW j \in Junctions(ways, ways[k]), j # 1
  PROVE  \E i \in DOMAIN ways[k].nodes : Adjacent(ways, ways[k], i, j)
<1> DEFINE J == Junctions(ways, ways[k])
           earlier == {i \in J : i < j}
<1>n. PICK N \in Nat : N = Len(ways[k].nodes) /\ DOMAIN ways[k].nodes = 1..N
  BY WayFacts
<1>1. /\ J \in SUBSET (1..N) /\ J \in SUBSET Nat /\ j \in J
      /\ 1 \in J /\ DOMAIN ways[k].nodes = 1..N
  BY <1>n, JunctionsFacts, EndsAreJunctions
<1> HIDE DEF J
<1>2. earlier \in SUBSET Nat /\ 1 \in earlier /\ earlier \in SUBSET (1..N)
  <2>1. j \in 1..N /\ j # 1
    BY <1>1
  <2>2. 1 < j
    BY <2>1
  <2>3. QED
    BY <1>1, <2>2
<1>3. PICK i \in earlier : \A m \in earlier : i >= m
  <2>1. IsFiniteSet(1..N)
    BY FS_Interval
  <2> HIDE DEF earlier
  <2>2. IsFiniteSet(earlier)
    BY <1>2, <2>1, FS_Subset
  <2>3. QED
    BY <1>2, <2>2, GreatestOf
<1>4. i \in DOMAIN ways[k].nodes /\ i < j /\ i \in J
  BY <1>n, <1>1, <1>3
<1>5. \A m \in J : ~(i < m /\ m < j)
  BY <1>n, <1>1, <1>3, <1>4
<1>6. QED
  BY <1>n, <1>1, <1>4, <1>5 DEF Adjacent, J

\* A point of a way is a junction, or lies between two that are adjacent.
LEMMA BetweenJunctions ==
  ASSUME NEW ways \in Seq(Stretches), NEW k \in DOMAIN ways,
         NEW m \in DOMAIN ways[k].nodes, m \notin Junctions(ways, ways[k])
  PROVE  \E i, j \in DOMAIN ways[k].nodes : Adjacent(ways, ways[k], i, j) /\ i < m /\ m < j
<1> DEFINE J == Junctions(ways, ways[k])
           earlier == {i \in J : i < m}
<1>n. PICK N \in Nat : N = Len(ways[k].nodes) /\ DOMAIN ways[k].nodes = 1..N
  BY WayFacts
<1>1. /\ J \in SUBSET (1..N) /\ J \in SUBSET Nat /\ m \notin J
      /\ 1 \in J /\ N \in J /\ DOMAIN ways[k].nodes = 1..N
  BY <1>n, JunctionsFacts, EndsAreJunctions
<1>a. ASSUME NEW i \in J, i # N
      PROVE  \E j \in DOMAIN ways[k].nodes : Adjacent(ways, ways[k], i, j)
  BY <1>n, <1>a, NextJunction
<1>b. ASSUME NEW i, NEW j, Adjacent(ways, ways[k], i, j)
      PROVE  i \in J /\ j \in J /\ i < j
  BY <1>b DEF Adjacent
<1> HIDE DEF J
<1>2. earlier \in SUBSET Nat /\ 1 \in earlier /\ earlier \in SUBSET (1..N)
  <2>1. m \in 1..N /\ m # 1
    BY <1>n, <1>1
  <2>2. 1 < m
    BY <2>1
  <2>3. QED
    BY <1>1, <2>2
<1>3. PICK i \in earlier : \A l \in earlier : i >= l
  <2>1. IsFiniteSet(1..N)
    BY FS_Interval
  <2> HIDE DEF earlier
  <2>2. IsFiniteSet(earlier)
    BY <1>2, <2>1, FS_Subset
  <2>3. QED
    BY <1>2, <2>2, GreatestOf
<1>4. i \in DOMAIN ways[k].nodes /\ i < m /\ i \in J /\ i # N
  BY <1>n, <1>1, <1>3
<1>5. PICK j \in DOMAIN ways[k].nodes : Adjacent(ways, ways[k], i, j)
  BY <1>n, <1>4, <1>a
<1>6. j \in J /\ i < j
  BY <1>5, <1>b
<1>7. m < j
  <2>1. j # m
    BY <1>n, <1>1, <1>6
  <2>2. ~(j < m)
    <3>1. j < m => j \in earlier
      BY <1>6
    <3>2. j \in earlier => i >= j
      BY <1>3
    <3>3. QED
      BY <1>n, <1>1, <1>4, <1>6, <3>1, <3>2
  <2>3. QED
    BY <1>n, <1>1, <1>6, <2>1, <2>2
<1>8. QED
  BY <1>4, <1>5, <1>7

\* A way's segments lead from junctions to the next.
LEMMA SegmentsFacts ==
  ASSUME NEW ways \in Seq(Stretches), NEW k \in DOMAIN ways
  PROVE  /\ Segments(ways, ways[k]) \in Seq(Stretches)
         /\ \A s : s \in ToSet(Segments(ways, ways[k])) <=>
                     \E i, j \in DOMAIN ways[k].nodes :
                       Adjacent(ways, ways[k], i, j) /\ s = Cut(ways[k], i, j)
<1> DEFINE w == ways[k]
           J == Junctions(ways, w)
           later(i) == {j \in J : j > i}
           on(i) == i \in J /\ \E j \in J : j > i
           ss == [i \in DOMAIN w.nodes |-> IF on(i) THEN <<Piece(ways, w, i)>> ELSE <<>>]
<1>1. /\ w \in Stretches /\ J \in SUBSET DOMAIN w.nodes /\ J \in SUBSET Nat
      /\ Len(w.nodes) \in Nat /\ DOMAIN w.nodes = 1..Len(w.nodes)
  BY JunctionsFacts, WayFacts
<1>2. Segments(ways, w) = FlattenSeq(ss)
  BY DEF Segments
<1>3. ASSUME NEW i \in DOMAIN w.nodes, on(i)
      PROVE  /\ Min(later(i)) \in DOMAIN w.nodes /\ Adjacent(ways, w, i, Min(later(i)))
             /\ Piece(ways, w, i) = Cut(w, i, Min(later(i)))
             /\ \A j \in DOMAIN w.nodes : Adjacent(ways, w, i, j) => j = Min(later(i))
  <2>1. later(i) \in SUBSET Nat /\ later(i) # {}
    BY <1>1, <1>3
  <2>2. PICK j : j = Min(later(i))
    OBVIOUS
  <2>3. j \in later(i) /\ \A m \in later(i) : j <= m
    <3> HIDE DEF later
    <3>1. QED
      BY <2>1, <2>2, MinOf
  <2>4. j \in J /\ j > i /\ i \in J /\ \A m \in J : m > i => j <= m
    BY <1>3, <2>3
  <2>5. Adjacent(ways, w, i, j)
    <3>1. \A m \in J : ~(i < m /\ m < j)
      BY <1>1, <2>4
    <3>2. QED
      BY <1>1, <2>4, <3>1 DEF Adjacent
  <2>6. Piece(ways, w, i) = Cut(w, i, j)
    BY <2>2 DEF Piece, Cut
  <2>7. ASSUME NEW l \in DOMAIN w.nodes, Adjacent(ways, w, i, l)
        PROVE  l = j
    <3>1. l \in J /\ l > i /\ ~(i < j /\ j < l)
      BY <1>1, <2>4, <2>7 DEF Adjacent
    <3>2. QED
      BY <1>1, <2>4, <3>1
  <2>8. QED
    BY <1>1, <2>2, <2>4, <2>5, <2>6, <2>7
<1>4. \A i, j \in DOMAIN w.nodes : Adjacent(ways, w, i, j) => on(i) /\ i < j
  BY <1>1 DEF Adjacent
<1>5. DOMAIN ss = DOMAIN w.nodes /\ ss = [i \in DOMAIN w.nodes |-> ss[i]]
      /\ \A i \in DOMAIN w.nodes : ss[i] = IF on(i) THEN <<Piece(ways, w, i)>> ELSE <<>>
  OBVIOUS
<1> HIDE DEF ss
<1>6. ASSUME NEW i \in DOMAIN w.nodes
      PROVE  /\ ss[i] \in Seq(Stretches)
             /\ \A s : s \in ToSet(ss[i]) <=>
                         \E j \in DOMAIN w.nodes : Adjacent(ways, w, i, j) /\ s = Cut(w, i, j)
  <2>1. CASE on(i)
    <3>1. PICK j \in DOMAIN w.nodes :
            /\ j = Min(later(i)) /\ Adjacent(ways, w, i, j) /\ Piece(ways, w, i) = Cut(w, i, j)
            /\ \A l \in DOMAIN w.nodes : Adjacent(ways, w, i, l) => l = j
      BY <1>3, <2>1
    <3>2. PICK s \in Stretches : s = Cut(w, i, j)
      BY <1>1, <1>4, <3>1, CutFacts
    <3>3. <<s>> \in Seq(Stretches) /\ ToSet(<<s>>) = {s} /\ ss[i] = <<s>>
      BY <1>5, <2>1, <3>1, <3>2, SingletonFacts
    <3>4. QED
      BY <3>1, <3>2, <3>3
  <2>2. CASE ~on(i)
    <3>1. <<>> \in Seq(Stretches) /\ ToSet(<<>>) = {} /\ ss[i] = <<>>
      BY <1>5, <2>2, OptionFacts
    <3>2. QED
      BY <1>4, <2>2, <3>1
  <2>3. QED
    BY <2>1, <2>2
<1>7. ss \in Seq(Seq(Stretches))
  BY <1>1, <1>5, <1>6, FunctionIsSeq
<1>8. /\ FlattenSeq(ss) \in Seq(Stretches)
      /\ ToSet(FlattenSeq(ss)) = UNION {ToSet(ss[i]) : i \in DOMAIN ss}
  BY <1>7, FlattenType, FlattenHolds
<1>9. ASSUME NEW s
      PROVE  s \in UNION {ToSet(ss[i]) : i \in DOMAIN ss} <=>
               \E i, j \in DOMAIN w.nodes : Adjacent(ways, w, i, j) /\ s = Cut(w, i, j)
  <2>1. s \in UNION {ToSet(ss[i]) : i \in DOMAIN ss} <=> \E i \in DOMAIN ss : s \in ToSet(ss[i])
    OBVIOUS
  <2>2. QED
    BY <1>5, <1>6, <2>1
<1>10. QED
  BY <1>2, <1>8, <1>9
-----------------------------------------------------------------------------
(* Shapes.                                                                 *)

LEMMA SquareFacts ==
  ASSUME NEW x \in Int
  PROVE  Square(x) \in Nat /\ Square(-x) = Square(x)
BY DEF Square

LEMMA ProductFacts ==
  ASSUME NEW x \in Nat, NEW y \in Nat
  PROVE  x * y \in Nat
OBVIOUS

\* What is compared are natural numbers.
LEMMA OffLineType ==
  ASSUME NEW f \in DOMAIN Place, NEW l \in DOMAIN Place, NEW p \in DOMAIN Place
  PROVE  OffLine(f, l, p) \in Nat /\ Scale(f, l) \in Nat
<1>1. PICK a, b, c, d, x, y \in Int :
        /\ a = Place[f].lng /\ b = Place[f].lat /\ c = Place[l].lng /\ d = Place[l].lat
        /\ x = Place[p].lng /\ y = Place[p].lat
  BY RoadgenAssumption
<1>2. /\ x - a \in Int /\ y - b \in Int /\ c - a \in Int /\ d - b \in Int
      /\ (d - b) * (x - a) - (c - a) * (y - b) \in Int
  OBVIOUS
<1>3. \A u \in Int : Square(u) \in Nat
  BY SquareFacts
<1>4. /\ Square(x - a) + Square(y - b) \in Nat
      /\ Square(c - a) + Square(d - b) \in Nat
      /\ Square((d - b) * (x - a) - (c - a) * (y - b)) \in Nat
  BY <1>2, <1>3
<1>5. QED
  BY <1>1, <1>4 DEF OffLine, Scale

\* The ends of a line are on it.
LEMMA EndsInvisible ==
  ASSUME NEW f \in DOMAIN Place, NEW l \in DOMAIN Place
  PROVE  Invisible(f, l, f) /\ Invisible(f, l, l)
<1>1. PICK a, b, c, d \in Int :
        a = Place[f].lng /\ b = Place[f].lat /\ c = Place[l].lng /\ d = Place[l].lat
  BY RoadgenAssumption
<1>2. Square(0) = 0 /\ a - a = 0 /\ b - b = 0
  BY DEF Square
<1>3. OffLine(f, l, f) = 0
  <2>1. CASE Place[f] = Place[l]
    BY <1>1, <1>2, <2>1 DEF OffLine
  <2>2. CASE Place[f] # Place[l]
    <3>1. OffLine(f, l, f) = Square((d - b) * (a - a) - (c - a) * (b - b))
      BY <1>1, <2>2 DEF OffLine
    <3>2. (d - b) * (a - a) - (c - a) * (b - b) = 0
      OBVIOUS
    <3>3. QED
      BY <1>2, <3>1, <3>2
  <2>3. QED
    BY <2>1, <2>2
<1>4. OffLine(f, l, l) = 0
  <2>1. CASE Place[f] = Place[l]
    BY <1>1, <1>2, <2>1 DEF OffLine
  <2>2. CASE Place[f] # Place[l]
    <3>1. PICK u, v \in Int : u = d - b /\ v = c - a
      OBVIOUS
    <3>2. u * v - v * u = 0
      OBVIOUS
    <3>3. QED
      BY <1>1, <1>2, <2>2, <3>1, <3>2 DEF OffLine
  <2>3. QED
    BY <2>1, <2>2
<1>5. Scale(f, l) \in Nat
  BY OffLineType
<1>6. Square(Tolerance) * Scale(f, l) \in Nat
  <2>1. Square(Tolerance) \in Nat
    BY RoadgenAssumption, SquareFacts
  <2>2. QED
    BY <1>5, <2>1, ProductFacts
<1>7. QED
  BY <1>3, <1>4, <1>6 DEF Invisible

\* A line is the same line from its other end.
LEMMA InvisibleTurned ==
  ASSUME NEW f \in DOMAIN Place, NEW l \in DOMAIN Place, NEW p \in DOMAIN Place
  PROVE  Invisible(l, f, p) <=> Invisible(f, l, p)
<1>1. PICK a, b, c, d, x, y \in Int :
        /\ a = Place[f].lng /\ b = Place[f].lat /\ c = Place[l].lng /\ d = Place[l].lat
        /\ x = Place[p].lng /\ y = Place[p].lat
  BY RoadgenAssumption
<1>2. CASE Place[f] = Place[l]
  BY <1>2 DEF Invisible, OffLine, Scale
<1>3. CASE Place[f] # Place[l]
  <2>1. OffLine(f, l, p) = Square((d - b) * (x - a) - (c - a) * (y - b))
    BY <1>1, <1>3 DEF OffLine
  <2>2. OffLine(l, f, p) = Square((b - d) * (x - c) - (a - c) * (y - d))
    BY <1>1, <1>3 DEF OffLine
  <2>3. (b - d) * (x - c) - (a - c) * (y - d) = -((d - b) * (x - a) - (c - a) * (y - b))
    OBVIOUS
  <2>4. OffLine(l, f, p) = OffLine(f, l, p)
    <3>1. PICK z \in Int : z = (d - b) * (x - a) - (c - a) * (y - b)
      OBVIOUS
    <3>2. Square(-z) = Square(z)
      BY SquareFacts
    <3>3. QED
      BY <2>1, <2>2, <2>3, <3>1, <3>2
  <2>5. Scale(f, l) = Square(c - a) + Square(d - b) /\ Scale(l, f) = Square(a - c) + Square(b - d)
    BY <1>1, <1>3 DEF Scale
  <2>6. Square(a - c) = Square(c - a) /\ Square(b - d) = Square(d - b)
    <3>1. a - c = -(c - a) /\ b - d = -(d - b) /\ c - a \in Int /\ d - b \in Int
      OBVIOUS
    <3>2. QED
      BY <3>1, SquareFacts
  <2>7. QED
    BY <2>4, <2>5, <2>6 DEF Invisible
<1>4. QED
  BY <1>2, <1>3

LEMMA ShapeFacts ==
  ASSUME NEW run \in Shapes
  PROVE  /\ run \in Seq(DOMAIN Place) /\ Len(run) \in Nat /\ Len(run) >= 2
         /\ DOMAIN run = 1..Len(run) /\ \A i \in 1..Len(run) : run[i] \in DOMAIN Place
         /\ Last(run) = run[Len(run)] /\ Last(run) \in DOMAIN Place
<1>1. run \in Seq(DOMAIN Place) /\ Len(run) >= 2
  BY DEF Shapes
<1>2. Len(run) \in Nat /\ DOMAIN run = 1..Len(run) /\ \A i \in 1..Len(run) : run[i] \in DOMAIN Place
  BY <1>1, LenProperties, ElementOfSeq
<1>3. QED
  BY <1>1, <1>2 DEF Last

\* Between the ends there is a point that is furthest off.
LEMMA FurthestFacts ==
  ASSUME NEW run \in Shapes, Len(run) > 2
  PROVE  Furthest(run) \in 2..(Len(run) - 1)
<1> DEFINE I == 2..(Len(run) - 1)
           off == [i \in I |-> OffEnds(run, i)]
           values == {off[i] : i \in I}
           Is(i) == \A j \in I : OffEnds(run, j) <= OffEnds(run, i) /\ (j < i => OffEnds(run, j) < OffEnds(run, i))
<1>1. /\ Len(run) \in Nat /\ \A i \in 1..Len(run) : run[i] \in DOMAIN Place
      /\ Last(run) \in DOMAIN Place
  BY ShapeFacts
<1>2. 2 \in I /\ I \in SUBSET Nat /\ I \in SUBSET (1..Len(run)) /\ 1 \in 1..Len(run)
  BY <1>1
<1>3. \A i \in I : OffEnds(run, i) \in Nat
  BY <1>1, <1>2, OffLineType DEF OffEnds
<1>4. IsFiniteSet(values)
  <2>1. IsFiniteSet(I)
    BY <1>1, FS_Interval
  <2> HIDE DEF off
  <2>2. QED
    BY <2>1, FiniteImage
<1>5. values \in SUBSET Nat /\ values # {}
  BY <1>2, <1>3
<1>6. PICK v \in values : \A u \in values : v >= u
  <2> HIDE DEF values
  <2>1. QED
    BY <1>4, <1>5, GreatestOf
<1>7. \A j \in I : OffEnds(run, j) <= v
  <2>1. ASSUME NEW j \in I
        PROVE  OffEnds(run, j) <= v
    <3>1. OffEnds(run, j) \in values
      OBVIOUS
    <3>2. QED
      BY <1>3, <1>5, <1>6, <3>1
  <2>2. QED
    BY <2>1
<1> DEFINE top == {i \in I : OffEnds(run, i) = v}
<1>8. top \in SUBSET Nat /\ top # {}
  BY <1>2, <1>6
<1>9. PICK i \in top : \A j \in top : i <= j
  <2> HIDE DEF top
  <2>1. QED
    BY <1>8, LeastOf
<1>10. Is(i)
  <2>1. ASSUME NEW j \in I
        PROVE  OffEnds(run, j) <= OffEnds(run, i) /\ (j < i => OffEnds(run, j) < OffEnds(run, i))
    <3>1. OffEnds(run, i) = v /\ OffEnds(run, j) <= v /\ v \in Nat /\ OffEnds(run, j) \in Nat
      BY <1>3, <1>5, <1>6, <1>7, <1>9
    <3>2. j < i => OffEnds(run, j) # v
      <4>1. OffEnds(run, j) = v => i <= j
        BY <1>9
      <4>2. i \in Nat /\ j \in Nat
        BY <1>2, <1>9
      <4>3. QED
        BY <4>1, <4>2
    <3>3. QED
      BY <3>1, <3>2
  <2>2. QED
    BY <2>1
<1>11. Furthest(run) = CHOOSE k \in I : Is(k)
  BY DEF Furthest
<1>12. i \in I
  BY <1>9
<1> HIDE DEF I, Is
<1>13. (CHOOSE k \in I : Is(k)) \in I
  BY <1>10, <1>12
<1>14. QED
  BY <1>11, <1>13 DEF I
\* The cases of the recursion: nothing off the line is seen, or a point is.
Straight(run) == \A i \in 2..Len(run) - 1 : Invisible(run[1], Last(run), run[i])

\* The two halves of a run, each shorter than it.
LEMMA HalvesFacts ==
  ASSUME NEW run \in Shapes, ~Straight(run)
  PROVE  /\ Furthest(run) \in 2..(Len(run) - 1)
         /\ SubSeq(run, 1, Furthest(run)) \in Shapes
         /\ SubSeq(run, Furthest(run), Len(run)) \in Shapes
         /\ Len(SubSeq(run, 1, Furthest(run))) = Furthest(run)
         /\ Len(SubSeq(run, Furthest(run), Len(run))) = Len(run) - Furthest(run) + 1
         /\ \A i \in 1..Furthest(run) : SubSeq(run, 1, Furthest(run))[i] = run[i]
         /\ \A i \in 1..(Len(run) - Furthest(run) + 1) :
              SubSeq(run, Furthest(run), Len(run))[i] = run[Furthest(run) + i - 1]
<1>1. /\ Len(run) \in Nat /\ Len(run) >= 2 /\ \A i \in 1..Len(run) : run[i] \in DOMAIN Place
  BY ShapeFacts
<1>2. Len(run) > 2
  <2>1. 2..(Len(run) - 1) # {}
    BY DEF Straight
  <2>2. QED
    BY <1>1, <2>1
<1>3. PICK m : m = Furthest(run) /\ m \in 2..(Len(run) - 1)
  BY <1>2, FurthestFacts
<1>4. PICK n \in Nat : n = Len(run) /\ m \in Nat /\ 2 <= m /\ m < n
  BY <1>1, <1>3
<1>5. /\ SubSeq(run, 1, m) \in Seq(DOMAIN Place) /\ Len(SubSeq(run, 1, m)) = m - 1 + 1
      /\ \A i \in 1..(m - 1 + 1) : SubSeq(run, 1, m)[i] = run[1 + i - 1]
  <2>1. 1 \in Int /\ m \in Int /\ 1 <= m /\ \A i \in 1..m : run[i] \in DOMAIN Place
    BY <1>1, <1>4
  <2>2. QED
    BY <2>1, SubSeqProperties
<1>6. /\ SubSeq(run, m, n) \in Seq(DOMAIN Place) /\ Len(SubSeq(run, m, n)) = n - m + 1
      /\ \A i \in 1..(n - m + 1) : SubSeq(run, m, n)[i] = run[m + i - 1]
  <2>1. m \in Int /\ n \in Int /\ m <= n /\ \A i \in m..n : run[i] \in DOMAIN Place
    BY <1>1, <1>4
  <2>2. QED
    BY <2>1, SubSeqProperties
<1>7. SubSeq(run, 1, m) \in Shapes /\ SubSeq(run, m, n) \in Shapes
  BY <1>4, <1>5, <1>6 DEF Shapes
<1>8. \A i \in 1..m : SubSeq(run, 1, m)[i] = run[i]
  BY <1>4, <1>5
<1>9. m - 1 + 1 = m
  BY <1>4
<1>10. QED
  BY <1>3, <1>4, <1>5, <1>6, <1>7, <1>8, <1>9

\* The front of one shape and another are a shape.
LEMMA JoinedFacts ==
  ASSUME NEW s \in Shapes, NEW t \in Shapes
  PROVE  /\ Front(s) \o t \in Shapes /\ Len(Front(s) \o t) = Len(s) - 1 + Len(t)
         /\ \A i \in 1..(Len(s) - 1 + Len(t)) :
              (Front(s) \o t)[i] = IF i <= Len(s) - 1 THEN s[i] ELSE t[i - (Len(s) - 1)]
<1>1. /\ s \in Seq(DOMAIN Place) /\ Len(s) \in Nat /\ Len(s) >= 2
      /\ \A i \in 1..Len(s) : s[i] \in DOMAIN Place
      /\ t \in Seq(DOMAIN Place) /\ Len(t) \in Nat /\ Len(t) >= 2
  BY ShapeFacts
<1>2. /\ SubSeq(s, 1, Len(s) - 1) \in Seq(DOMAIN Place)
      /\ Len(SubSeq(s, 1, Len(s) - 1)) = Len(s) - 1 - 1 + 1
      /\ \A i \in 1..(Len(s) - 1 - 1 + 1) : SubSeq(s, 1, Len(s) - 1)[i] = s[1 + i - 1]
  <2>1. 1 \in Int /\ Len(s) - 1 \in Int /\ 1 <= Len(s) - 1 /\ \A i \in 1..(Len(s) - 1) : s[i] \in DOMAIN Place
    BY <1>1
  <2>2. QED
    BY <2>1, SubSeqProperties
<1>3. PICK f \in Seq(DOMAIN Place) : f = Front(s) /\ f = SubSeq(s, 1, Len(s) - 1)
  BY <1>2 DEF Front
<1>4. Len(f) = Len(s) - 1 /\ \A i \in 1..(Len(s) - 1) : f[i] = s[i]
  BY <1>1, <1>2, <1>3
<1>5. /\ f \o t \in Seq(DOMAIN Place) /\ Len(f \o t) = Len(f) + Len(t)
      /\ \A i \in 1..(Len(f) + Len(t)) : (f \o t)[i] = IF i <= Len(f) THEN f[i] ELSE t[i - Len(f)]
  BY <1>1, ConcatProperties
<1>6. PICK u : u = f \o t
  OBVIOUS
<1>7. PICK m, k \in Nat : m = Len(s) - 1 /\ k = Len(t) /\ Len(f) = m /\ k >= 2
  BY <1>1, <1>4
<1>8. ASSUME NEW i \in 1..(m + k)
      PROVE  u[i] = IF i <= m THEN s[i] ELSE t[i - m]
  BY <1>4, <1>5, <1>6, <1>7, SMTT(30)
<1>9. u \in Shapes /\ Len(u) = m + k
  BY <1>5, <1>6, <1>7 DEF Shapes
<1>10. QED
  BY <1>3, <1>6, <1>7, <1>8, <1>9

LEMMA PairFacts ==
  ASSUME NEW x \in DOMAIN Place, NEW y \in DOMAIN Place
  PROVE  <<x, y>> \in Shapes /\ Len(<<x, y>>) = 2 /\ <<x, y>>[1] = x /\ <<x, y>>[2] = y
<1>1. <<x, y>> \in Seq(DOMAIN Place) /\ Len(<<x, y>>) = 2
  OBVIOUS
<1>2. QED
  BY <1>1 DEF Shapes

\* The recursion has a solution: each half is shorter.
LEMMA DouglasPeuckerUnfolds ==
  /\ DouglasPeucker \in [Shapes -> Shapes]
  /\ \A run \in Shapes :
       DouglasPeucker[run] =
         IF Straight(run) THEN <<run[1], Last(run)>>
         ELSE Front(DouglasPeucker[SubSeq(run, 1, Furthest(run))])
                \o DouglasPeucker[SubSeq(run, Furthest(run), Len(run))]
<1> DEFINE stop == {run \in Shapes : Straight(run)}
           next == [run \in Shapes |-> IF run \in stop THEN run ELSE SubSeq(run, 1, Furthest(run))]
           other == [run \in Shapes |->
                       IF run \in stop THEN run ELSE SubSeq(run, Furthest(run), Len(run))]
           base == [run \in Shapes |-> <<run[1], Last(run)>>]
           step == [x \in Shapes \X Shapes \X Shapes |-> Front(x[2]) \o x[3]]
           m == [run \in Shapes |-> Len(run)]
           Meets(f) == f = [run \in Shapes |->
                              IF \A i \in 2..Len(run) - 1 : Invisible(run[1], Last(run), run[i])
                              THEN <<run[1], Last(run)>>
                              ELSE Front(f[SubSeq(run, 1, Furthest(run))])
                                     \o f[SubSeq(run, Furthest(run), Len(run))]]
<1>1. m \in [Shapes -> Nat] /\ stop \in SUBSET Shapes
  BY ShapeFacts
<1>2. next \in [Shapes -> Shapes] /\ other \in [Shapes -> Shapes]
  BY HalvesFacts
<1>3. base \in [Shapes -> Shapes]
  <2>1. \A run \in Shapes : <<run[1], Last(run)>> \in Shapes
    <3>1. ASSUME NEW run \in Shapes
          PROVE  <<run[1], Last(run)>> \in Shapes
      <4>1. run[1] \in DOMAIN Place /\ Last(run) \in DOMAIN Place
        BY ShapeFacts
      <4>2. QED
        BY <4>1, PairFacts
    <3>2. QED
      BY <3>1
  <2>2. QED
    BY <2>1
<1>4. step \in [Shapes \X Shapes \X Shapes -> Shapes]
  <2>1. \A s, t \in Shapes : Front(s) \o t \in Shapes
    BY JoinedFacts
  <2>2. \A x \in Shapes \X Shapes \X Shapes : x[2] \in Shapes /\ x[3] \in Shapes
    OBVIOUS
  <2>3. QED
    BY <2>1, <2>2
<1>5. \A run \in Shapes \ stop : m[next[run]] < m[run] /\ m[other[run]] < m[run]
  <2>1. ASSUME NEW run \in Shapes \ stop
        PROVE  m[next[run]] < m[run] /\ m[other[run]] < m[run]
    <3>1. ~Straight(run) /\ run \in Shapes
      OBVIOUS
    <3>2. PICK k \in Nat : k = Furthest(run) /\ k \in 2..(Len(run) - 1)
      BY <3>1, HalvesFacts
    <3>3. PICK n \in Nat : n = Len(run)
      BY ShapeFacts
    <3>4. /\ SubSeq(run, 1, k) \in Shapes /\ SubSeq(run, k, n) \in Shapes
          /\ Len(SubSeq(run, 1, k)) = k /\ Len(SubSeq(run, k, n)) = n - k + 1
      BY <3>1, <3>2, <3>3, HalvesFacts
    <3>5. /\ next[run] = SubSeq(run, 1, k) /\ other[run] = SubSeq(run, k, n)
      BY <3>1, <3>2, <3>3
    <3>6. m[next[run]] = k /\ m[other[run]] = n - k + 1 /\ m[run] = n
      BY <3>1, <3>3, <3>4, <3>5
    <3>7. k < n /\ n - k + 1 < n
      BY <3>2, <3>3
    <3>8. QED
      BY <3>6, <3>7
  <2>2. QED
    BY <2>1
<1>6. PICK f \in [Shapes -> Shapes] :
        \A run \in Shapes : Branches(f, run, stop, next, other, base, step)
  <2> HIDE DEF stop, next, other, base, step, m
  <2>1. QED
    BY <1>1, <1>2, <1>3, <1>4, <1>5, Branching
<1>7. ASSUME NEW run \in Shapes
      PROVE  f[run] = IF \A i \in 2..Len(run) - 1 : Invisible(run[1], Last(run), run[i])
                      THEN <<run[1], Last(run)>>
                      ELSE Front(f[SubSeq(run, 1, Furthest(run))])
                             \o f[SubSeq(run, Furthest(run), Len(run))]
  <2>1. CASE Straight(run)
    <3>1. run \in stop /\ base[run] = <<run[1], Last(run)>>
      BY <2>1
    <3>2. f[run] = base[run]
      <4> HIDE DEF stop, next, other, base, step
      <4>1. QED
        BY <1>6, <3>1 DEF Branches
    <3>3. QED
      BY <2>1, <3>1, <3>2 DEF Straight
  <2>2. CASE ~Straight(run)
    <3>1. run \notin stop
      BY <2>2
    <3>2. f[run] = step[<<run, f[next[run]], f[other[run]]>>]
      <4> HIDE DEF stop, next, other, base, step
      <4>1. QED
        BY <1>6, <3>1 DEF Branches
    <3>3. PICK s, t \in Shapes : s = f[next[run]] /\ t = f[other[run]]
      <4> HIDE DEF next, other
      <4>1. QED
        BY <1>2
    <3>4. step[<<run, s, t>>] = Front(s) \o t
      OBVIOUS
    <3>5. /\ next[run] = SubSeq(run, 1, Furthest(run))
          /\ other[run] = SubSeq(run, Furthest(run), Len(run))
      BY <3>1
    <3>6. f[run] = Front(f[SubSeq(run, 1, Furthest(run))]) \o f[SubSeq(run, Furthest(run), Len(run))]
      <4> HIDE DEF next, other, step
      <4>1. QED
        BY <3>2, <3>3, <3>4, <3>5
    <3>7. QED
      BY <2>2, <3>6 DEF Straight
  <2>3. QED
    BY <2>1, <2>2
<1>8. Meets(f)
  BY <1>7
<1> DEFINE dp == CHOOSE g : Meets(g)
<1>9. DouglasPeucker = dp
  BY DEF DouglasPeucker
<1>10. Meets(dp)
  <2> HIDE DEF Meets
  <2>1. QED
    BY <1>8
<1> HIDE DEF dp
<1>11. \A run \in Shapes :
         dp[run] = IF Straight(run) THEN <<run[1], Last(run)>>
                   ELSE Front(dp[SubSeq(run, 1, Furthest(run))])
                          \o dp[SubSeq(run, Furthest(run), Len(run))]
  BY <1>10 DEF Straight
<1>12. dp = [run \in Shapes |-> dp[run]]
  <2>1. dp = [run \in Shapes |->
                IF \A i \in 2..Len(run) - 1 : Invisible(run[1], Last(run), run[i])
                THEN <<run[1], Last(run)>>
                ELSE Front(dp[SubSeq(run, 1, Furthest(run))])
                       \o dp[SubSeq(run, Furthest(run), Len(run))]]
    BY <1>10
  <2>2. QED
    BY <2>1
<1> DEFINE Typed == {k \in Nat : \A run \in Shapes : Len(run) < k => dp[run] \in Shapes}
<1>13. 0 \in Typed
  <2>1. ASSUME NEW run \in Shapes
        PROVE  ~(Len(run) < 0)
    BY ShapeFacts
  <2>2. QED
    BY <2>1
<1>14. ASSUME NEW k \in Nat, k \in Typed
       PROVE  k + 1 \in Typed
  <2>1. ASSUME NEW run \in Shapes, Len(run) < k + 1
        PROVE  dp[run] \in Shapes
    <3>1. CASE Straight(run)
      <4>1. run[1] \in DOMAIN Place /\ Last(run) \in DOMAIN Place
        BY ShapeFacts
      <4>2. dp[run] = <<run[1], Last(run)>>
        BY <1>11, <3>1
      <4>3. <<run[1], Last(run)>> \in Shapes
        BY <4>1, PairFacts
      <4>4. QED
        BY <4>2, <4>3
    <3>2. CASE ~Straight(run)
      <4>1. PICK u, v \in Shapes :
              /\ u = SubSeq(run, 1, Furthest(run)) /\ v = SubSeq(run, Furthest(run), Len(run))
              /\ Len(u) < Len(run) /\ Len(v) < Len(run)
        <5>1. PICK m1 \in Nat : m1 = Furthest(run) /\ m1 \in 2..(Len(run) - 1)
          BY <3>2, HalvesFacts
        <5>2. PICK n \in Nat : n = Len(run)
          BY ShapeFacts
        <5>3. /\ SubSeq(run, 1, m1) \in Shapes /\ SubSeq(run, m1, n) \in Shapes
              /\ Len(SubSeq(run, 1, m1)) = m1 /\ Len(SubSeq(run, m1, n)) = n - m1 + 1
          BY <3>2, <5>1, <5>2, HalvesFacts
        <5>4. m1 < n /\ n - m1 + 1 < n
          BY <5>1, <5>2
        <5>5. QED
          BY <5>1, <5>2, <5>3, <5>4
      <4>2. Len(u) < k /\ Len(v) < k
        <5>1. PICK a, b, c \in Nat : a = Len(u) /\ b = Len(v) /\ c = Len(run)
          BY ShapeFacts
        <5>2. a < c /\ b < c /\ c < k + 1
          BY <2>1, <4>1, <5>1
        <5>3. a < k /\ b < k
          BY <5>2
        <5>4. QED
          BY <5>1, <5>3
      <4>3. PICK s, t \in Shapes : s = dp[u] /\ t = dp[v]
        BY <1>14, <4>2
      <4>4. dp[run] = Front(s) \o t
        BY <1>11, <3>2, <4>1, <4>3
      <4>5. QED
        BY <4>4, JoinedFacts
    <3>3. QED
      BY <3>1, <3>2
  <2>2. QED
    BY <2>1
<1>15. Nat \subseteq Typed
  <2> HIDE DEF Typed
  <2>1. QED
    BY <1>13, <1>14, Naturally
<1>16. \A run \in Shapes : dp[run] \in Shapes
  <2>1. ASSUME NEW run \in Shapes
        PROVE  dp[run] \in Shapes
    <3>1. Len(run) + 1 \in Nat /\ Len(run) < Len(run) + 1
      BY ShapeFacts
    <3>2. QED
      BY <1>15, <3>1
  <2>2. QED
    BY <2>1
<1>17. dp \in [Shapes -> Shapes]
  BY <1>12, <1>16
<1>18. QED
  BY <1>9, <1>11, <1>17
\* A run leads from p to q with no bend in between that could be seen.
Follows(run, p, q) ==
  \E i, j \in DOMAIN run :
    /\ i < j /\ run[i] = p /\ run[j] = q
    /\ \A k \in i..j : Invisible(p, q, run[k])

\* What is kept of a run leads from its one end to the other along it.
Outlines(d, run) ==
  /\ d[1] = run[1] /\ Last(d) = Last(run)
  /\ \A i \in 1..(Len(d) - 1) : Follows(run, d[i], d[i + 1])

\* What follows a part of a run follows the run.
LEMMA FollowsPart ==
  ASSUME NEW run \in Shapes, NEW part \in Shapes, NEW b \in Nat, b + Len(part) <= Len(run),
         \A i \in 1..Len(part) : part[i] = run[b + i],
         NEW p, NEW q, Follows(part, p, q)
  PROVE  Follows(run, p, q)
<1>1. PICK n \in Nat : n = Len(part) /\ DOMAIN part = 1..n
  BY ShapeFacts
<1>2. PICK N \in Nat : N = Len(run) /\ DOMAIN run = 1..N
  BY ShapeFacts
<1>3. PICK i \in 1..n, j \in 1..n :
        /\ i < j /\ part[i] = p /\ part[j] = q /\ \A k \in i..j : Invisible(p, q, part[k])
  BY <1>1 DEF Follows
<1>4. \A k \in 1..n : part[k] = run[b + k]
  BY <1>1
<1>5. b + i \in 1..N /\ b + j \in 1..N /\ b + i < b + j
  <2>1. b + n <= N /\ i \in Nat /\ j \in Nat /\ 1 <= i /\ j <= n /\ i < j
    BY <1>1, <1>2, <1>3
  <2>2. QED
    BY <2>1
<1>6. ASSUME NEW k \in (b + i)..(b + j)
      PROVE  Invisible(p, q, run[k])
  <2>1. k - b \in i..j /\ k - b \in 1..n /\ b + (k - b) = k
    OBVIOUS
  <2>2. Invisible(p, q, part[k - b]) /\ part[k - b] = run[b + (k - b)]
    BY <1>3, <1>4, <2>1
  <2>3. QED
    BY <2>1, <2>2
<1>7. run[b + i] = p /\ run[b + j] = q
  BY <1>3, <1>4
<1>8. QED
  BY <1>2, <1>5, <1>6, <1>7 DEF Follows

LEMMA DouglasPeuckerOutlines ==
  \A run \in Shapes : DouglasPeucker[run] \in Shapes /\ Outlines(DouglasPeucker[run], run)
<1> DEFINE dp(run) == DouglasPeucker[run]
           Good == {k \in Nat : \A run \in Shapes : Len(run) < k => Outlines(dp(run), run)}
<1>1. \A run \in Shapes : DouglasPeucker[run] \in Shapes
  BY DouglasPeuckerUnfolds
<1>2. 0 \in Good
  <2>1. ASSUME NEW run \in Shapes
        PROVE  ~(Len(run) < 0)
    BY ShapeFacts
  <2>2. QED
    BY <2>1
<1>3. ASSUME NEW k \in Nat, k \in Good
      PROVE  k + 1 \in Good
  <2>1. ASSUME NEW run \in Shapes, Len(run) < k + 1
        PROVE  Outlines(dp(run), run)
    <3>1. PICK n \in Nat : n = Len(run) /\ n >= 2 /\ DOMAIN run = 1..n
                           /\ \A i \in 1..n : run[i] \in DOMAIN Place
      BY ShapeFacts
    <3>2. PICK p, q \in DOMAIN Place : p = run[1] /\ q = run[n] /\ Last(run) = q
      <4>1. 1 \in 1..n /\ n \in 1..n
        BY <3>1
      <4>2. QED
        BY <3>1, <4>1 DEF Last
    <3>3. CASE Straight(run)
      <4>1. PICK d : d = DouglasPeucker[run]
        OBVIOUS
      <4>2. d = <<p, q>>
        BY <3>2, <3>3, <4>1, DouglasPeuckerUnfolds
      <4>3. d[1] = p /\ Last(d) = q /\ d[2] = q /\ Len(d) = 2
        BY <4>2 DEF Last
      <4>4. ASSUME NEW i \in 1..n
            PROVE  Invisible(p, q, run[i])
        <5>1. Invisible(p, q, p) /\ Invisible(p, q, q)
          BY EndsInvisible
        <5>2. i \in 2..(n - 1) => Invisible(p, q, run[i])
          BY <3>1, <3>2, <3>3 DEF Straight
        <5>3. i = 1 \/ i = n \/ i \in 2..(n - 1)
          BY <3>1
        <5>4. QED
          BY <3>2, <5>1, <5>2, <5>3
      <4>5. Follows(run, p, q)
        <5>1. 1 \in 1..n /\ n \in 1..n /\ 1 < n
          BY <3>1
        <5>2. QED
          BY <3>1, <3>2, <4>4, <5>1 DEF Follows
      <4>6. \A i \in 1..(Len(d) - 1) : i = 1
        BY <4>3
      <4>7. Outlines(d, run)
        BY <3>2, <4>3, <4>5, <4>6 DEF Outlines
      <4>8. QED
        BY <4>1, <4>7
    <3>4. CASE ~Straight(run)
      <4>1. PICK m \in Nat : m = Furthest(run) /\ m \in 2..(n - 1)
        BY <3>1, <3>4, HalvesFacts
      <4>2. PICK u, v \in Shapes :
              /\ u = SubSeq(run, 1, m) /\ v = SubSeq(run, m, n)
              /\ Len(u) = m /\ Len(v) = n - m + 1
              /\ \A i \in 1..m : u[i] = run[i]
              /\ \A i \in 1..(n - m + 1) : v[i] = run[m + i - 1]
        BY <3>1, <3>4, <4>1, HalvesFacts
      <4>3. PICK s, t \in Shapes : s = DouglasPeucker[u] /\ t = DouglasPeucker[v]
        BY <1>1
      <4>4. Outlines(s, u) /\ Outlines(t, v)
        <5>1. m < k /\ n - m + 1 < k
          BY <2>1, <3>1, <4>1
        <5>2. QED
          BY <1>3, <4>2, <4>3, <5>1
      <4>5. PICK d \in Shapes : d = DouglasPeucker[run] /\ d = Front(s) \o t
        BY <1>1, <3>1, <3>4, <4>1, <4>2, <4>3, DouglasPeuckerUnfolds
      <4>6. PICK a, b \in Nat : a = Len(s) /\ b = Len(t) /\ a >= 2 /\ b >= 2
        BY ShapeFacts
      <4>7. /\ Len(d) = a - 1 + b
            /\ \A i \in 1..(a - 1 + b) : d[i] = IF i <= a - 1 THEN s[i] ELSE t[i - (a - 1)]
        <5>1. /\ Len(Front(s) \o t) = Len(s) - 1 + Len(t)
              /\ \A i \in 1..(Len(s) - 1 + Len(t)) :
                   (Front(s) \o t)[i] = IF i <= Len(s) - 1 THEN s[i] ELSE t[i - (Len(s) - 1)]
          BY JoinedFacts
        <5>2. QED
          BY <4>5, <4>6, <5>1
      <4>8. s[1] = run[1] /\ s[a] = run[m] /\ t[1] = run[m] /\ t[b] = run[n]
        <5>1. 1 \in 1..m /\ m \in 1..m /\ 1 \in 1..(n - m + 1) /\ n - m + 1 \in 1..(n - m + 1)
              /\ m + 1 - 1 = m /\ m + (n - m + 1) - 1 = n
          BY <3>1, <4>1
        <5>2. u[1] = run[1] /\ u[m] = run[m] /\ v[1] = run[m] /\ v[n - m + 1] = run[n]
          BY <4>2, <5>1
        <5>3. QED
          BY <4>2, <4>4, <4>6, <5>2 DEF Outlines, Last
      <4>9. d[1] = run[1] /\ Last(d) = Last(run)
        <5>1. 1 \in 1..(a - 1 + b) /\ a - 1 + b \in 1..(a - 1 + b) /\ 1 <= a - 1
              /\ ~(a - 1 + b <= a - 1) /\ (a - 1 + b) - (a - 1) = b
          BY <4>6
        <5>2. d[1] = s[1] /\ d[a - 1 + b] = t[b]
          BY <4>7, <5>1
        <5>3. QED
          BY <3>2, <4>7, <4>8, <5>2 DEF Last
      <4>10. \A x, y : Follows(u, x, y) \/ Follows(v, x, y) => Follows(run, x, y)
        <5>1. 0 + Len(u) <= Len(run) /\ (m - 1) + Len(v) <= Len(run) /\ 0 \in Nat /\ m - 1 \in Nat
          BY <3>1, <4>1, <4>2
        <5>2. \A i \in 1..Len(u) : u[i] = run[0 + i]
          BY <4>2
        <5>3. \A i \in 1..Len(v) : v[i] = run[(m - 1) + i]
          <6>1. ASSUME NEW i \in 1..(n - m + 1)
                PROVE  v[i] = run[(m - 1) + i]
            <7>1. m + i - 1 = (m - 1) + i
              BY <4>1
            <7>2. QED
              BY <4>2, <7>1
          <6>2. QED
            BY <4>2, <6>1
        <5>4. ASSUME NEW x, NEW y, Follows(u, x, y)
              PROVE  Follows(run, x, y)
          BY <5>1, <5>2, <5>4, FollowsPart
        <5>5. ASSUME NEW x, NEW y, Follows(v, x, y)
              PROVE  Follows(run, x, y)
          BY <5>1, <5>3, <5>5, FollowsPart
        <5>6. QED
          BY <5>4, <5>5
      <4>11. ASSUME NEW i \in 1..(Len(d) - 1)
             PROVE  Follows(run, d[i], d[i + 1])
        <5>1. i \in 1..(a - 1 + b) /\ i + 1 \in 1..(a - 1 + b) /\ i \in Nat
          BY <4>6, <4>7
        <5>2. CASE i + 1 <= a - 1
          <6>1. d[i] = s[i] /\ d[i + 1] = s[i + 1] /\ i \in 1..(a - 1)
            BY <4>6, <4>7, <5>1, <5>2
          <6>2. Follows(u, s[i], s[i + 1])
            BY <4>4, <4>6, <6>1 DEF Outlines
          <6>3. QED
            BY <4>10, <6>1, <6>2
        <5>3. CASE i = a - 1
          <6>1. d[i] = s[i] /\ d[i + 1] = t[1] /\ i \in 1..(a - 1) /\ i + 1 = a
            <7>1. i <= a - 1 /\ ~(i + 1 <= a - 1) /\ (i + 1) - (a - 1) = 1
              BY <4>6, <5>1, <5>3
            <7>2. QED
              BY <4>6, <4>7, <5>1, <5>3, <7>1
          <6>2. Follows(u, s[i], s[i + 1])
            BY <4>4, <4>6, <6>1 DEF Outlines
          <6>3. QED
            BY <4>8, <4>10, <6>1, <6>2
        <5>4. CASE i > a - 1
          <6>1. PICK j \in Nat : j = i - (a - 1) /\ j \in 1..(b - 1) /\ (i + 1) - (a - 1) = j + 1
            <7>1. i \in Nat /\ i <= (a - 1 + b) - 1 /\ i > a - 1
              BY <4>6, <4>7, <5>1, <5>4
            <7>2. i - (a - 1) \in 1..(b - 1) /\ (i + 1) - (a - 1) = (i - (a - 1)) + 1
              BY <7>1
            <7>3. QED
              BY <7>2
          <6>2. d[i] = t[j] /\ d[i + 1] = t[j + 1]
            <7>1. ~(i <= a - 1) /\ ~(i + 1 <= a - 1)
              BY <4>6, <5>1, <5>4
            <7>2. QED
              BY <4>7, <5>1, <6>1, <7>1
          <6>3. Follows(v, t[j], t[j + 1])
            BY <4>4, <4>6, <6>1 DEF Outlines
          <6>4. QED
            BY <4>10, <6>2, <6>3
        <5>5. QED
          BY <4>6, <5>1, <5>2, <5>3, <5>4
      <4>12. Outlines(d, run)
        BY <4>9, <4>11 DEF Outlines
      <4>13. QED
        BY <4>5, <4>12
    <3>5. QED
      BY <3>3, <3>4
  <2>2. QED
    BY <2>1
<1>4. Nat \subseteq Good
  <2> HIDE DEF Good
  <2>1. QED
    BY <1>2, <1>3, Naturally
<1>5. ASSUME NEW run \in Shapes
      PROVE  Outlines(DouglasPeucker[run], run)
  <2>1. PICK n \in Nat : n = Len(run)
    BY ShapeFacts
  <2>2. n + 1 \in Good /\ n < n + 1
    BY <1>4
  <2>3. QED
    BY <2>1, <2>2
<1>6. QED
  BY <1>1, <1>5

\* A simplified run, with its ends, is what was kept of it.
LEMMA SimplifyFacts ==
  ASSUME NEW run \in Shapes
  PROVE  /\ Simplify(run) \in Seq(DOMAIN Place)
         /\ <<run[1]>> \o Simplify(run) \o <<Last(run)>> = DouglasPeucker[run]
<1>1. PICK d \in Shapes : d = DouglasPeucker[run] /\ d[1] = run[1] /\ Last(d) = Last(run)
  BY DouglasPeuckerOutlines DEF Outlines
<1>2. PICK n \in Nat : /\ n = Len(d) /\ n >= 2 /\ d \in Seq(DOMAIN Place) /\ Last(d) = d[n]
                       /\ \A i \in 1..n : d[i] \in DOMAIN Place
  BY ShapeFacts
<1>3. /\ SubSeq(d, 2, n - 1) \in Seq(DOMAIN Place)
      /\ Len(SubSeq(d, 2, n - 1)) = IF 2 <= n - 1 THEN n - 1 - 2 + 1 ELSE 0
      /\ \A i \in 1..(n - 1 - 2 + 1) : SubSeq(d, 2, n - 1)[i] = d[2 + i - 1]
  <2>1. 2 \in Int /\ n - 1 \in Int /\ \A i \in 2..(n - 1) : d[i] \in DOMAIN Place
    BY <1>2
  <2>2. QED
    BY <2>1, SubSeqProperties
<1>4. PICK via \in Seq(DOMAIN Place) :
        /\ via = Simplify(run) /\ Len(via) = n - 2
        /\ \A i \in 1..(n - 2) : via[i] = d[i + 1]
  <2>1. Simplify(run) = SubSeq(d, 2, n - 1)
    BY <1>1, <1>2 DEF Simplify
  <2>2. Len(SubSeq(d, 2, n - 1)) = n - 2
    BY <1>2, <1>3
  <2>3. ASSUME NEW i \in 1..(n - 2)
        PROVE  SubSeq(d, 2, n - 1)[i] = d[i + 1]
    <3>1. i \in 1..(n - 1 - 2 + 1) /\ 2 + i - 1 = i + 1
      BY <1>2
    <3>2. QED
      BY <1>3, <3>1
  <2>4. QED
    BY <1>3, <2>1, <2>2, <2>3
<1>5. PICK p, q \in DOMAIN Place : p = d[1] /\ q = d[n]
  <2>1. 1 \in 1..n /\ n \in 1..n
    BY <1>2
  <2>2. QED
    BY <1>2, <2>1
<1>6. <<p>> \in Seq(DOMAIN Place) /\ Len(<<p>>) = 1 /\ <<p>>[1] = p
      /\ <<q>> \in Seq(DOMAIN Place) /\ Len(<<q>>) = 1 /\ <<q>>[1] = q
  OBVIOUS
<1>7. PICK s \in Seq(DOMAIN Place) :
        /\ s = <<p>> \o via /\ Len(s) = n - 1 /\ \A i \in 1..(n - 1) : s[i] = d[i]
  <2>1. /\ <<p>> \o via \in Seq(DOMAIN Place) /\ Len(<<p>> \o via) = 1 + (n - 2)
        /\ \A i \in 1..(1 + (n - 2)) : (<<p>> \o via)[i] = IF i <= 1 THEN <<p>>[i] ELSE via[i - 1]
    BY <1>4, <1>6, ConcatProperties
  <2>2. ASSUME NEW i \in 1..(n - 1)
        PROVE  (<<p>> \o via)[i] = d[i]
    <3>1. i \in 1..(1 + (n - 2))
      BY <1>2
    <3>2. CASE i = 1
      BY <1>5, <1>6, <2>1, <3>1, <3>2
    <3>3. CASE i # 1
      <4>1. i - 1 \in 1..(n - 2) /\ (i - 1) + 1 = i /\ ~(i <= 1)
        BY <1>2, <3>3
      <4>2. QED
        BY <1>4, <2>1, <3>1, <4>1
    <3>4. QED
      BY <3>2, <3>3
  <2>3. 1 + (n - 2) = n - 1
    BY <1>2
  <2>4. QED
    BY <2>1, <2>2, <2>3
<1>8. /\ s \o <<q>> \in Seq(DOMAIN Place) /\ Len(s \o <<q>>) = n
      /\ \A i \in 1..n : (s \o <<q>>)[i] = d[i]
  <2>1. /\ s \o <<q>> \in Seq(DOMAIN Place) /\ Len(s \o <<q>>) = (n - 1) + 1
        /\ \A i \in 1..((n - 1) + 1) : (s \o <<q>>)[i] = IF i <= n - 1 THEN s[i] ELSE <<q>>[i - (n - 1)]
    BY <1>6, <1>7, ConcatProperties
  <2>2. ASSUME NEW i \in 1..n
        PROVE  (s \o <<q>>)[i] = d[i]
    <3>1. i \in 1..((n - 1) + 1)
      BY <1>2
    <3>2. CASE i = n
      <4>1. ~(i <= n - 1) /\ i - (n - 1) = 1
        BY <1>2, <3>2
      <4>2. QED
        BY <1>5, <1>6, <2>1, <3>1, <3>2, <4>1
    <3>3. CASE i # n
      <4>1. i \in 1..(n - 1) /\ i <= n - 1
        BY <1>2, <3>3
      <4>2. (s \o <<q>>)[i] = s[i] /\ s[i] = d[i]
        BY <1>7, <2>1, <3>1, <4>1
      <4>3. QED
        BY <4>2
    <3>4. QED
      BY <3>2, <3>3
  <2>3. (n - 1) + 1 = n
    BY <1>2
  <2>4. QED
    BY <2>1, <2>2, <2>3
<1>9. s \o <<q>> = d
  BY <1>2, <1>8, SeqEqual
<1>10. QED
  BY <1>1, <1>2, <1>4, <1>5, <1>7, <1>9
-----------------------------------------------------------------------------
(* The network that is built.                                              *)

\* A piece of a way from one junction to the next.
IsSegment(ways, s) ==
  \E k \in DOMAIN ways : \E i, j \in DOMAIN ways[k].nodes :
    Adjacent(ways, ways[k], i, j) /\ s = Cut(ways[k], i, j)

\* The sequences of a sequence, one for each of its elements, joined.
LEMMA FlattenOver ==
  ASSUME NEW X, NEW n \in Nat, NEW f, f = [k \in 1..n |-> f[k]], \A k \in 1..n : f[k] \in Seq(X)
  PROVE  /\ FlattenSeq(f) \in Seq(X)
         /\ \A x : x \in ToSet(FlattenSeq(f)) <=> \E k \in 1..n : x \in ToSet(f[k])
<1>1. f \in Seq(Seq(X)) /\ DOMAIN f = 1..n
  BY FunctionIsSeq
<1>2. FlattenSeq(f) \in Seq(X) /\ ToSet(FlattenSeq(f)) = UNION {ToSet(f[k]) : k \in DOMAIN f}
  BY <1>1, FlattenType, FlattenHolds
<1>3. QED
  BY <1>1, <1>2

AllSegments(ways) == FlattenSeq([k \in DOMAIN ways |-> Segments(ways, ways[k])])

LEMMA AllSegmentsFacts ==
  ASSUME NEW ways \in Seq(Stretches)
  PROVE  /\ AllSegments(ways) \in Seq(Stretches)
         /\ \A s : s \in ToSet(AllSegments(ways)) <=> IsSegment(ways, s)
<1> DEFINE f == [k \in DOMAIN ways |-> Segments(ways, ways[k])]
<1>1. PICK n \in Nat : DOMAIN ways = 1..n
  BY WayFacts
<1>2. f = [k \in 1..n |-> f[k]] /\ \A k \in 1..n : f[k] = Segments(ways, ways[k])
  BY <1>1
<1>3. AllSegments(ways) = FlattenSeq(f)
  BY DEF AllSegments
<1> HIDE DEF f
<1>4. \A k \in 1..n : f[k] \in Seq(Stretches)
  BY <1>1, <1>2, SegmentsFacts
<1>5. /\ FlattenSeq(f) \in Seq(Stretches)
      /\ \A s : s \in ToSet(FlattenSeq(f)) <=> \E k \in 1..n : s \in ToSet(f[k])
  BY <1>2, <1>4, FlattenOver
<1>6. ASSUME NEW s
      PROVE  (\E k \in 1..n : s \in ToSet(f[k])) <=> IsSegment(ways, s)
  <2>1. ASSUME NEW k \in 1..n
        PROVE  s \in ToSet(f[k]) <=>
                 \E i, j \in DOMAIN ways[k].nodes : Adjacent(ways, ways[k], i, j) /\ s = Cut(ways[k], i, j)
    <3>1. \A x : x \in ToSet(Segments(ways, ways[k])) <=>
                  \E i, j \in DOMAIN ways[k].nodes :
                    Adjacent(ways, ways[k], i, j) /\ x = Cut(ways[k], i, j)
      BY <1>1, SegmentsFacts
    <3>2. QED
      BY <1>2, <3>1
  <2>2. QED
    BY <1>1, <2>1 DEF IsSegment
<1>7. QED
  BY <1>3, <1>5, <1>6

LEMMA StretchType ==
  ASSUME NEW s \in Stretches
  PROVE  /\ s.nodes \in Shapes /\ s.oneway \in BOOLEAN
         /\ s.nodes[1] \in DOMAIN Place /\ Last(s.nodes) \in DOMAIN Place
<1>1. s.nodes \in Shapes /\ s.oneway \in BOOLEAN
  BY DEF Stretches
<1>2. 1 \in 1..Len(s.nodes)
  BY <1>1, ShapeFacts
<1>3. QED
  BY <1>1, <1>2, ShapeFacts

\* The ends of a sequence of stretches.
LEMMA EndsOfFacts ==
  ASSUME NEW segments \in Seq(Stretches)
  PROVE  LET ends == FlattenSeq([k \in DOMAIN segments |-> Ends(segments[k])])
         IN  /\ ends \in Seq(DOMAIN Place)
             /\ \A p : p \in ToSet(ends) <=>
                         \E s \in ToSet(segments) : p = s.nodes[1] \/ p = Last(s.nodes)
<1> DEFINE f == [k \in DOMAIN segments |-> Ends(segments[k])]
<1>1. PICK n \in Nat : DOMAIN segments = 1..n /\ \A k \in 1..n : segments[k] \in Stretches
  BY LenProperties, ElementOfSeq
<1>2. f = [k \in 1..n |-> f[k]] /\ \A k \in 1..n : f[k] = Ends(segments[k])
  BY <1>1
<1> HIDE DEF f
<1>3. ASSUME NEW k \in 1..n
      PROVE  /\ f[k] \in Seq(DOMAIN Place)
             /\ \A p : p \in ToSet(f[k]) <=> p = segments[k].nodes[1] \/ p = Last(segments[k].nodes)
  <2>1. PICK p, q \in DOMAIN Place : p = segments[k].nodes[1] /\ q = Last(segments[k].nodes)
    BY <1>1, StretchType
  <2>2. f[k] = <<p, q>>
    BY <1>2, <2>1 DEF Ends
  <2>3. DOMAIN <<p, q>> = {1, 2} /\ <<p, q>>[1] = p /\ <<p, q>>[2] = q /\ <<p, q>> \in Seq(DOMAIN Place)
    OBVIOUS
  <2>4. ToSet(<<p, q>>) = {p, q}
    BY <2>3 DEF ToSet
  <2>5. QED
    BY <2>1, <2>2, <2>3, <2>4
<1>4. /\ FlattenSeq(f) \in Seq(DOMAIN Place)
      /\ \A p : p \in ToSet(FlattenSeq(f)) <=> \E k \in 1..n : p \in ToSet(f[k])
  BY <1>2, <1>3, FlattenOver
<1>5. ASSUME NEW p
      PROVE  (\E k \in 1..n : p \in ToSet(f[k])) <=>
               \E s \in ToSet(segments) : p = s.nodes[1] \/ p = Last(s.nodes)
  BY <1>1, <1>3 DEF ToSet
<1>6. QED
  BY <1>4, <1>5 DEF f

\* A network is its names, its positions and its roads.
Written(n) == n = [names |-> n.names, positions |-> n.positions, roads |-> n.roads]

\* A road of a network as a segment describes it.
Describes(s, n, i) ==
  /\ n.positions[n.roads[i].a] = s.nodes[1] /\ n.positions[n.roads[i].b] = Last(s.nodes)
  /\ n.roads[i].oneway = s.oneway /\ n.roads[i].via = Simplify(s.nodes)

\* The network has a position for every end of a segment, and a road for every
\* segment that does not end where it begins.
BuiltOf(n, ways) ==
  /\ Written(n) /\ Laid(n) /\ IsInjective(n.positions)
  /\ \A p : p \in ToSet(n.positions) <=>
              \E s : IsSegment(ways, s) /\ (p = s.nodes[1] \/ p = Last(s.nodes))
  /\ \A i \in DOMAIN n.roads : \E s : IsSegment(ways, s) /\ Describes(s, n, i)
  /\ \A s : IsSegment(ways, s) /\ s.nodes[1] # Last(s.nodes) =>
              \E i \in DOMAIN n.roads : Describes(s, n, i)

LEMMA BuildFacts ==
  ASSUME NEW ways \in Seq(Stretches)
  PROVE  BuiltOf(Build(ways), ways)
<1> DEFINE segments  == AllSegments(ways)
           ends      == FlattenSeq([k \in DOMAIN segments |-> Ends(segments[k])])
           positions == FirstMet(ends)
           places    == {k \in DOMAIN segments : segments[k].nodes[1] # Last(segments[k].nodes)}
           open      == Picked(segments, places)
           named     == <<Unnamed>> \o [k \in DOMAIN open |-> open[k].name]
           names     == FirstMet(named)
           road(k)   == [a      |-> IndexIn(positions, open[k].nodes[1]),
                         b      |-> IndexIn(positions, Last(open[k].nodes)),
                         name   |-> IndexIn(names, open[k].name),
                         oneway |-> open[k].oneway,
                         via    |-> Simplify(open[k].nodes)]
           roads     == [k \in DOMAIN open |-> road(k)]
<1>1. Build(ways) = [names |-> names, positions |-> positions, roads |-> roads]
  BY DEF Build, AllSegments
<1>2. segments \in Seq(Stretches) /\ \A s : s \in ToSet(segments) <=> IsSegment(ways, s)
  BY AllSegmentsFacts
<1> HIDE DEF segments
<1>3. /\ ends \in Seq(DOMAIN Place)
      /\ \A p : p \in ToSet(ends) <=> \E s \in ToSet(segments) : p = s.nodes[1] \/ p = Last(s.nodes)
  BY <1>2, EndsOfFacts
<1> HIDE DEF ends
<1>4. positions \in Seq(DOMAIN Place) /\ ToSet(positions) = ToSet(ends) /\ IsInjective(positions)
  BY <1>3, FirstMetFacts
<1> HIDE DEF positions
<1>5. open \in Seq(Stretches) /\ ToSet(open) = {segments[k] : k \in DOMAIN segments \cap places}
  <2> HIDE DEF places
  <2>1. QED
    BY <1>2, PickedFacts
<1>6. /\ \A s : s \in ToSet(open) <=> s \in ToSet(segments) /\ s.nodes[1] # Last(s.nodes)
  <2>1. ASSUME NEW s
        PROVE  s \in {segments[k] : k \in DOMAIN segments \cap places} <=>
                 s \in ToSet(segments) /\ s.nodes[1] # Last(s.nodes)
    BY DEF ToSet
  <2> HIDE DEF open, places
  <2>2. QED
    BY <1>5, <2>1
<1> HIDE DEF open
<1>7. PICK m \in Nat : m = Len(open) /\ DOMAIN open = 1..m /\ \A k \in 1..m : open[k] \in Stretches
  BY <1>5, LenProperties, ElementOfSeq
<1>8. \A k \in 1..m : open[k] \in ToSet(open)
  BY <1>7 DEF ToSet
<1>9. \A k \in 1..m : open[k].name \in ToSet(names)
  <2> DEFINE X == {Unnamed} \cup {open[k].name : k \in 1..m}
             last == [k \in 1..m |-> open[k].name]
  <2>1. Unnamed \in X /\ \A k \in 1..m : open[k].name \in X
    OBVIOUS
  <2>2. named = <<Unnamed>> \o last
    BY <1>7
  <2> HIDE DEF X, named, names
  <2>3. last \in Seq(X) /\ Len(last) = m
    BY <2>1, FunctionIsSeq
  <2>4. <<Unnamed>> \in Seq(X)
    BY <2>1, SingletonFacts
  <2>5. named \in Seq(X) /\ ToSet(named) = ToSet(<<Unnamed>>) \cup ToSet(last)
    <3> HIDE DEF last
    <3>1. QED
      BY <2>2, <2>3, <2>4, ConcatProperties, ConcatHolds, ZenonT(30)
  <2>6. ToSet(FirstMet(named)) = ToSet(named)
    BY <2>5, FirstMetFacts
  <2>7. \A k \in 1..m : open[k].name \in ToSet(last)
    BY DEF ToSet
  <2>8. QED
    <3> HIDE DEF last
    <3>1. QED
      BY <2>5, <2>6, <2>7 DEF names
<1> HIDE DEF names
<1>10. ASSUME NEW k \in 1..m
       PROVE  /\ open[k].nodes[1] \in ToSet(positions) /\ Last(open[k].nodes) \in ToSet(positions)
              /\ open[k].nodes \in Shapes /\ open[k].oneway \in BOOLEAN
  <2>1. open[k] \in ToSet(segments) /\ open[k] \in Stretches
    BY <1>6, <1>7, <1>8
  <2>2. QED
    BY <1>3, <1>4, <2>1, StretchType
<1>11. PICK z \in Nat : DOMAIN positions = 1..z
  BY <1>4, LenProperties
<1>12. ASSUME NEW k \in 1..m
       PROVE  /\ road(k) \in Road
              /\ road(k).a \in DOMAIN positions /\ road(k).b \in DOMAIN positions
              /\ positions[road(k).a] = open[k].nodes[1]
              /\ positions[road(k).b] = Last(open[k].nodes)
              /\ road(k).oneway = open[k].oneway /\ road(k).via = Simplify(open[k].nodes)
  <2>1. PICK a, b \in DOMAIN positions :
          /\ a = IndexIn(positions, open[k].nodes[1]) /\ positions[a] = open[k].nodes[1]
          /\ b = IndexIn(positions, Last(open[k].nodes)) /\ positions[b] = Last(open[k].nodes)
    BY <1>10, IndexFacts
  <2>2. a \in Nat /\ b \in Nat
    BY <1>11
  <2>3. PICK c \in Nat : c = IndexIn(names, open[k].name)
    <3> DEFINE X == {Unnamed} \cup {open[x].name : x \in 1..m}
               last == [x \in 1..m |-> open[x].name]
    <3>1. Unnamed \in X /\ \A x \in 1..m : open[x].name \in X
      OBVIOUS
    <3>2. named = <<Unnamed>> \o last
      BY <1>7
    <3> HIDE DEF X, named
    <3>3. last \in Seq(X)
      BY <3>1, FunctionIsSeq
    <3>4. <<Unnamed>> \in Seq(X)
      BY <3>1, SingletonFacts
    <3>5. named \in Seq(X)
      <4> HIDE DEF last
      <4>1. QED
        BY <3>2, <3>3, <3>4, ConcatProperties
    <3>6. names \in Seq(X)
      BY <3>5, FirstMetFacts DEF names
    <3>7. IndexIn(names, open[k].name) \in DOMAIN names
      BY <1>9, IndexFacts
    <3>8. QED
      BY <3>6, <3>7, LenProperties
  <2>4. PICK v \in Seq(DOMAIN Place) : v = Simplify(open[k].nodes)
    BY <1>10, SimplifyFacts
  <2>5. PICK o \in BOOLEAN : o = open[k].oneway
    BY <1>10
  <2>6. PICK r : r = road(k)
    OBVIOUS
  <2>7. r = [a |-> a, b |-> b, name |-> c, oneway |-> o, via |-> v]
    BY <2>1, <2>3, <2>4, <2>5, <2>6
  <2>8. r \in Road /\ r.a = a /\ r.b = b /\ r.oneway = o /\ r.via = v
    BY <2>2, <2>7 DEF Road
  <2> HIDE DEF road
  <2>9. QED
    BY <2>1, <2>4, <2>5, <2>6, <2>8
<1> DEFINE n == Build(ways)
<1>13. n.positions = positions /\ n.roads = roads /\ Written(n)
  BY <1>1 DEF Written
<1>14. roads = [k \in 1..m |-> roads[k]] /\ \A k \in 1..m : roads[k] = road(k)
  BY <1>7
<1> HIDE DEF roads, n, road
<1>15. roads \in Seq(Road) /\ DOMAIN roads = 1..m
  BY <1>12, <1>14, FunctionIsSeq
<1>16. Laid(n)
  BY <1>4, <1>12, <1>13, <1>14, <1>15 DEF Laid, IsNetwork, Corners
<1>17. \A k \in 1..m : Describes(open[k], n, k)
  BY <1>12, <1>13, <1>14 DEF Describes
<1>18. ASSUME NEW i \in DOMAIN n.roads
       PROVE  \E s : IsSegment(ways, s) /\ Describes(s, n, i)
  BY <1>2, <1>6, <1>8, <1>13, <1>15, <1>17
<1>19. ASSUME NEW s, IsSegment(ways, s), s.nodes[1] # Last(s.nodes)
       PROVE  \E i \in DOMAIN n.roads : Describes(s, n, i)
  <2>1. s \in ToSet(open)
    BY <1>2, <1>6, <1>19
  <2>2. PICK k \in 1..m : s = open[k]
    BY <1>7, <2>1 DEF ToSet
  <2>3. QED
    BY <1>13, <1>15, <1>17, <2>2
<1>20. \A p : p \in ToSet(n.positions) <=>
                \E s : IsSegment(ways, s) /\ (p = s.nodes[1] \/ p = Last(s.nodes))
  BY <1>2, <1>3, <1>4, <1>13
<1>21. IsInjective(n.positions)
  BY <1>4, <1>13
<1>22. BuiltOf(n, ways)
  BY <1>13, <1>16, <1>18, <1>19, <1>20, <1>21 DEF BuiltOf
<1>23. QED
  BY <1>22 DEF n
-----------------------------------------------------------------------------
(* The network that is kept.                                               *)

LEMMA RoadFacts ==
  ASSUME NEW n, Laid(n), NEW i \in DOMAIN n.roads
  PROVE  /\ n.roads[i] \in Road
         /\ n.roads[i] = [a |-> n.roads[i].a, b |-> n.roads[i].b, name |-> n.roads[i].name,
                          oneway |-> n.roads[i].oneway, via |-> n.roads[i].via]
         /\ n.roads[i].a \in Corners(n) /\ n.roads[i].b \in Corners(n)
         /\ n.roads[i].a \in Nat /\ n.roads[i].b \in Nat /\ n.roads[i].name \in Nat
         /\ n.roads[i].oneway \in BOOLEAN /\ n.roads[i].via \in Seq(DOMAIN Place)
<1>1. n.roads[i] \in Road
  BY RoadsOf, ElementOfSeq DEF Laid, IsNetwork
<1>2. PICK r \in Road : r = n.roads[i]
  BY <1>1
<1>3. r = [a |-> r.a, b |-> r.b, name |-> r.name, oneway |-> r.oneway, via |-> r.via]
  BY DEF Road
<1>4. r.a \in Nat /\ r.b \in Nat /\ r.name \in Nat /\ r.oneway \in BOOLEAN /\ r.via \in Seq(DOMAIN Place)
  BY DEF Road
<1>5. n.roads[i].a \in Corners(n) /\ n.roads[i].b \in Corners(n)
  BY DEF Laid
<1>6. QED
  BY <1>2, <1>3, <1>4, <1>5

LEMMA RoadParts ==
  ASSUME NEW n, Laid(n), NEW i \in DOMAIN n.roads
  PROVE  \E a, b, d \in Nat, o \in BOOLEAN, v \in Seq(DOMAIN Place) :
           /\ n.roads[i] = [a |-> a, b |-> b, name |-> d, oneway |-> o, via |-> v]
           /\ a = n.roads[i].a /\ b = n.roads[i].b /\ o = n.roads[i].oneway
           /\ v = n.roads[i].via /\ d = n.roads[i].name
<1>1. PICK r : r = n.roads[i]
  OBVIOUS
<1>2. /\ r = [a |-> r.a, b |-> r.b, name |-> r.name, oneway |-> r.oneway, via |-> r.via]
      /\ r.a \in Nat /\ r.b \in Nat /\ r.name \in Nat
      /\ r.oneway \in BOOLEAN /\ r.via \in Seq(DOMAIN Place)
  BY <1>1, RoadFacts
<1>3. PICK a, b, d \in Nat, v \in Seq(DOMAIN Place) :
        a = r.a /\ b = r.b /\ d = r.name /\ v = r.via
  BY <1>2
<1>4. PICK o \in BOOLEAN : o = r.oneway
  BY <1>2, Zenon
<1>5. r = [a |-> a, b |-> b, name |-> d, oneway |-> o, via |-> v]
  BY <1>2, <1>3, <1>4, Zenon
<1>6. QED
  BY <1>1, <1>3, <1>4, <1>5, Zenon

\* Two roads are the same but for their names.
Alike(r, s) == r.a = s.a /\ r.b = s.b /\ r.oneway = s.oneway /\ r.via = s.via

\* Renaming the roads changes nothing else of a network, and their names are listed.
LEMMA CompactFacts ==
  ASSUME NEW n, Written(n), Laid(n)
  PROVE  LET c == Compact(n)
         IN  /\ c.positions = n.positions /\ DOMAIN c.roads = DOMAIN n.roads
             /\ c.roads \in Seq(Road)
             /\ \A i \in DOMAIN n.roads :
                  Alike(c.roads[i], n.roads[i]) /\ c.roads[i].name \in DOMAIN c.names
<1> DEFINE m == Len(n.roads)
           used == [k \in DOMAIN n.roads |-> n.names[n.roads[k].name]]
           names == FirstMet(used)
           renamed == [k \in DOMAIN n.roads |-> [n.roads[k] EXCEPT !.name = IndexIn(names, n.names[@])]]
           c == Compact(n)
           X == {n.names[n.roads[k].name] : k \in DOMAIN n.roads}
<1>1. m \in Nat /\ DOMAIN n.roads = 1..m
  BY RoadsOf
<1>2. c.names = names /\ c.positions = n.positions /\ c.roads = renamed
  <2>1. c = [n EXCEPT !.names = names, !.roads = renamed]
    BY DEF Compact
  <2>2. n = [names |-> n.names, positions |-> n.positions, roads |-> n.roads]
    BY DEF Written
  <2> HIDE DEF names, renamed, c
  <2>3. QED
    BY <2>1, <2>2
<1>3. used = [k \in 1..m |-> used[k]] /\ \A k \in 1..m : used[k] = n.names[n.roads[k].name] /\ used[k] \in X
  BY <1>1
<1>4. used \in Seq(X) /\ DOMAIN used = 1..m
  <2> HIDE DEF used, X, m
  <2>1. QED
    BY <1>1, <1>3, FunctionIsSeq
<1>5. names \in Seq(X) /\ ToSet(names) = ToSet(used)
  <2> HIDE DEF used, X
  <2>1. QED
    BY <1>4, FirstMetFacts
<1>6. PICK z \in Nat : DOMAIN names = 1..z
  <2> HIDE DEF names, X
  <2>1. QED
    BY <1>5, LenProperties
<1>7. ASSUME NEW k \in DOMAIN n.roads
      PROVE  /\ renamed[k] \in Road /\ Alike(renamed[k], n.roads[k])
             /\ renamed[k].name \in DOMAIN names
  <2>1. used[k] \in ToSet(names)
    <3>1. used[k] \in ToSet(used)
      BY <1>1, <1>4 DEF ToSet
    <3>2. QED
      BY <1>5, <3>1
  <2>2. PICK j \in 1..z : j = IndexIn(names, n.names[n.roads[k].name])
    <3>1. used[k] = n.names[n.roads[k].name]
      BY <1>1, <1>3
    <3> HIDE DEF names, used
    <3>2. QED
      BY <1>6, <2>1, <3>1, IndexFacts
  <2>3. PICK a, b, d \in Nat, o \in BOOLEAN, v \in Seq(DOMAIN Place) :
          /\ n.roads[k] = [a |-> a, b |-> b, name |-> d, oneway |-> o, via |-> v]
          /\ a = n.roads[k].a /\ b = n.roads[k].b /\ o = n.roads[k].oneway
          /\ v = n.roads[k].via /\ d = n.roads[k].name
    BY RoadParts
  <2>4. PICK r : r = renamed[k]
    OBVIOUS
  <2>5. r = [n.roads[k] EXCEPT !.name = IndexIn(names, n.names[@])]
    BY <2>4
  <2>6. r = [a |-> a, b |-> b, name |-> j, oneway |-> o, via |-> v]
    <3> HIDE DEF names
    <3>1. QED
      BY <2>2, <2>3, <2>5
  <2>7. r.a = a /\ r.b = b /\ r.name = j /\ r.oneway = o /\ r.via = v
    BY <2>6
  <2>8. r \in Road
    BY <2>6 DEF Road
  <2> HIDE DEF renamed, names
  <2>9. QED
    BY <1>6, <2>2, <2>3, <2>4, <2>7, <2>8 DEF Alike
<1>8. renamed \in Seq(Road) /\ DOMAIN renamed = 1..m
  <2>1. renamed = [k \in 1..m |-> renamed[k]]
    BY <1>1
  <2> HIDE DEF renamed, m
  <2>2. QED
    BY <1>1, <1>7, <2>1, FunctionIsSeq
<1> HIDE DEF renamed, names, c, m
<1>9. QED
  BY <1>1, <1>2, <1>7, <1>8 DEF c

\* The i-th road of what is kept is the j-th of the network it is kept of.
SameRoad(m, i, n, j, kept) ==
  /\ kept[m.roads[i].a] = n.roads[j].a /\ kept[m.roads[i].b] = n.roads[j].b
  /\ m.roads[i].oneway = n.roads[j].oneway /\ m.roads[i].via = n.roads[j].via

\* The intersections kept are the largest class, the roads those within it.
KeptOf(m, n, kept) ==
  /\ Laid(m) /\ IsInjective(m.positions)
  /\ kept \in [Corners(m) -> Corners(n)] /\ IsInjective(kept)
  /\ {kept[k] : k \in Corners(m)} = Largest(n)
  /\ \A k \in Corners(m) : m.positions[k] = n.positions[kept[k]]
  /\ \A i \in DOMAIN m.roads :
       m.roads[i].name \in DOMAIN m.names /\ \E j \in DOMAIN n.roads : SameRoad(m, i, n, j, kept)
  /\ \A j \in DOMAIN n.roads :
       n.roads[j].a \in Largest(n) /\ n.roads[j].b \in Largest(n) =>
         \E i \in DOMAIN m.roads : SameRoad(m, i, n, j, kept)

LEMMA StrongestFacts ==
  ASSUME NEW n, Written(n), Laid(n), IsInjective(n.positions)
  PROVE  \E kept : KeptOf(Strongest(n), n, kept)
<1> DEFINE best == Largest(n)
           all  == [k \in DOMAIN n.positions |-> k]
           kept == Picked(all, best)
           within == {i \in DOMAIN n.roads : {n.roads[i].a, n.roads[i].b} \subseteq best}
           roads == Picked(n.roads, within)
           positions == [k \in DOMAIN kept |-> n.positions[kept[k]]]
           renumbered == [k \in DOMAIN roads |->
                            [roads[k] EXCEPT !.a = IndexIn(kept, @), !.b = IndexIn(kept, @)]]
           p == [n EXCEPT !.positions = positions, !.roads = renumbered]
<1>1. PICK N \in Nat : N = Len(n.positions) /\ Corners(n) = 1..N /\ DOMAIN n.positions = 1..N
  BY CornersOf DEF Corners
<1>2. best \in SUBSET Corners(n)
  BY LargestIsClass
<1>3. Strongest(n) = Compact(p)
  BY DEF Strongest
<1> HIDE DEF best
<1>4. all \in Seq(1..N) /\ DOMAIN all = 1..N /\ \A k \in 1..N : all[k] = k
  <2>1. all = [k \in 1..N |-> all[k]] /\ \A k \in 1..N : all[k] = k
    BY <1>1
  <2> HIDE DEF all
  <2>2. QED
    BY <2>1, FunctionIsSeq
<1> HIDE DEF all
<1>5. kept \in Seq(1..N) /\ ToSet(kept) = best /\ IsInjective(kept)
  <2>1. /\ kept \in Seq(1..N) /\ ToSet(kept) = {all[k] : k \in DOMAIN all \cap best}
        /\ (\A i, j \in DOMAIN all \cap best : all[i] = all[j] => i = j) => IsInjective(kept)
    BY <1>4, PickedFacts
  <2>2. {all[k] : k \in DOMAIN all \cap best} = best
    BY <1>1, <1>2, <1>4
  <2>3. \A i, j \in DOMAIN all \cap best : all[i] = all[j] => i = j
    BY <1>4
  <2> HIDE DEF kept
  <2>4. QED
    BY <2>1, <2>2, <2>3
<1> HIDE DEF kept
<1>6. PICK z \in Nat : z = Len(kept) /\ DOMAIN kept = 1..z /\ \A k \in 1..z : kept[k] \in 1..N
  BY <1>5, LenProperties, ElementOfSeq
<1>7. n.roads \in Seq(Road)
  BY DEF Laid, IsNetwork
<1>8. roads \in Seq(Road) /\ ToSet(roads) = {n.roads[i] : i \in DOMAIN n.roads \cap within}
  <2> HIDE DEF within
  <2>1. QED
    BY <1>7, PickedFacts
<1> HIDE DEF roads
<1>9. PICK y \in Nat : y = Len(roads) /\ DOMAIN roads = 1..y
  BY <1>8, LenProperties
<1>10. \A k \in 1..y : \E j \in within : roads[k] = n.roads[j]
  <2>1. \A k \in 1..y : roads[k] \in ToSet(roads)
    BY <1>9 DEF ToSet
  <2> HIDE DEF within
  <2>2. QED
    BY <1>8, <2>1
<1>11. \A j \in within : \E k \in 1..y : roads[k] = n.roads[j]
  <2>1. \A j \in within : n.roads[j] \in ToSet(roads)
    BY <1>8
  <2> HIDE DEF within
  <2>2. QED
    BY <1>9, <2>1 DEF ToSet
<1>12. positions \in Seq(DOMAIN Place) /\ DOMAIN positions = 1..z
       /\ \A k \in 1..z : positions[k] = n.positions[kept[k]]
  <2>1. \A k \in 1..N : n.positions[k] \in DOMAIN Place
    BY <1>1, ElementOfSeq DEF Laid, IsNetwork
  <2>2. positions = [k \in 1..z |-> positions[k]] /\ \A k \in 1..z : positions[k] = n.positions[kept[k]]
    BY <1>6
  <2> HIDE DEF positions
  <2>3. \A k \in 1..z : positions[k] \in DOMAIN Place
    BY <1>6, <2>1, <2>2
  <2>4. QED
    BY <2>2, <2>3, FunctionIsSeq
<1> HIDE DEF positions
<1>13. ASSUME NEW k \in 1..y, NEW j \in within, roads[k] = n.roads[j]
       PROVE  /\ renumbered[k] \in Road
              /\ renumbered[k].a \in 1..z /\ kept[renumbered[k].a] = n.roads[j].a
              /\ renumbered[k].b \in 1..z /\ kept[renumbered[k].b] = n.roads[j].b
              /\ renumbered[k].oneway = n.roads[j].oneway /\ renumbered[k].via = n.roads[j].via
  <2>1. PICK a, b, d \in Nat, o \in BOOLEAN, v \in Seq(DOMAIN Place) :
          /\ n.roads[j] = [a |-> a, b |-> b, name |-> d, oneway |-> o, via |-> v]
          /\ a = n.roads[j].a /\ b = n.roads[j].b /\ o = n.roads[j].oneway
          /\ v = n.roads[j].via /\ d = n.roads[j].name
    <3>1. j \in DOMAIN n.roads
      OBVIOUS
    <3>2. QED
      BY <3>1, RoadParts
  <2>2. a \in ToSet(kept) /\ b \in ToSet(kept)
    BY <1>5, <2>1
  <2>3. PICK e, f \in 1..z : e = IndexIn(kept, a) /\ f = IndexIn(kept, b) /\ kept[e] = a /\ kept[f] = b
    BY <1>6, <2>2, IndexFacts
  <2>4. PICK r : r = renumbered[k]
    BY ZenonT(30)
  <2>5. r = [roads[k] EXCEPT !.a = IndexIn(kept, @), !.b = IndexIn(kept, @)]
    BY <1>9, <2>4
  <2>6. r = [a |-> e, b |-> f, name |-> d, oneway |-> o, via |-> v]
    <3>1. PICK q : q = [a |-> a, b |-> b, name |-> d, oneway |-> o, via |-> v]
      OBVIOUS
    <3>2. q.a = a /\ q.b = b /\ roads[k] = q
      BY <1>13, <2>1, <3>1
    <3>3. r = [q EXCEPT !.a = e, !.b = f]
      BY <2>3, <2>5, <3>2
    <3>4. QED
      BY <3>1, <3>3
  <2>7. r.a = e /\ r.b = f /\ r.oneway = o /\ r.via = v /\ r \in Road
    BY <2>6 DEF Road
  <2> HIDE DEF renumbered
  <2>8. QED
    BY <2>1, <2>3, <2>4, <2>7
<1>14. renumbered \in Seq(Road) /\ DOMAIN renumbered = 1..y
  <2>1. renumbered = [k \in 1..y |-> renumbered[k]]
    BY <1>9
  <2> HIDE DEF renumbered, within
  <2>2. QED
    BY <1>10, <1>13, <2>1, FunctionIsSeq
<1> HIDE DEF renumbered
<1>15. p.positions = positions /\ p.roads = renumbered /\ Written(p)
  <2>1. n = [names |-> n.names, positions |-> n.positions, roads |-> n.roads]
    BY DEF Written
  <2>2. p = [names |-> n.names, positions |-> positions, roads |-> renumbered]
    <3>1. PICK x, u, v : x = n.names /\ u = n.positions /\ v = n.roads
      OBVIOUS
    <3>2. n = [names |-> x, positions |-> u, roads |-> v]
      BY <2>1, <3>1
    <3>3. p = [n EXCEPT !.positions = positions, !.roads = renumbered]
      OBVIOUS
    <3> HIDE DEF p
    <3>4. p = [names |-> x, positions |-> positions, roads |-> renumbered]
      BY <3>2, <3>3
    <3>5. QED
      BY <3>1, <3>4
  <2> HIDE DEF p
  <2>3. QED
    BY <2>2 DEF Written
<1> HIDE DEF p
<1>16. Laid(p) /\ Corners(p) = 1..z
  <2>1. IsNetwork(p) /\ Corners(p) = 1..z
    BY <1>12, <1>14, <1>15 DEF IsNetwork, Corners
  <2>2. \A i \in DOMAIN p.roads : p.roads[i].a \in 1..z /\ p.roads[i].b \in 1..z
    <3> HIDE DEF within
    <3>1. QED
      BY <1>10, <1>13, <1>14, <1>15
  <2>3. QED
    BY <2>1, <2>2 DEF Laid
<1> DEFINE m == Strongest(n)
<1>17. /\ m.positions = positions /\ DOMAIN m.roads = 1..y /\ m.roads \in Seq(Road)
       /\ \A i \in 1..y : Alike(m.roads[i], renumbered[i]) /\ m.roads[i].name \in DOMAIN m.names
  BY <1>3, <1>14, <1>15, <1>16, CompactFacts
<1> HIDE DEF m
<1>18. Corners(m) = 1..z
  BY <1>12, <1>17 DEF Corners
<1>19. Laid(m)
  <2>1. IsNetwork(m)
    BY <1>12, <1>17 DEF IsNetwork
  <2>2. \A i \in 1..y : renumbered[i].a \in 1..z /\ renumbered[i].b \in 1..z
    BY <1>14, <1>15, <1>16 DEF Laid
  <2>3. QED
    BY <1>17, <1>18, <2>1, <2>2 DEF Laid, Alike
<1>20. IsInjective(m.positions)
  <2>1. ASSUME NEW i \in 1..z, NEW j \in 1..z, positions[i] = positions[j]
        PROVE  i = j
    <3>1. kept[i] = kept[j]
      BY <1>1, <1>6, <1>12, <2>1 DEF IsInjective
    <3>2. QED
      BY <1>5, <1>6, <3>1 DEF IsInjective
  <2>2. QED
    BY <1>12, <1>17, <2>1 DEF IsInjective
<1>21. kept \in [Corners(m) -> Corners(n)]
  BY <1>1, <1>5, <1>6, <1>18, LenProperties
<1>22. {kept[k] : k \in Corners(m)} = best
  BY <1>5, <1>6, <1>18 DEF ToSet
<1>23. \A k \in Corners(m) : m.positions[k] = n.positions[kept[k]]
  BY <1>12, <1>17, <1>18
<1>24. ASSUME NEW i \in 1..y, NEW j \in within, roads[i] = n.roads[j]
       PROVE  SameRoad(m, i, n, j, kept)
  <2> HIDE DEF within
  <2>1. QED
    BY <1>13, <1>17, <1>24 DEF SameRoad, Alike
<1>25. \A i \in DOMAIN m.roads :
         m.roads[i].name \in DOMAIN m.names /\ \E j \in DOMAIN n.roads : SameRoad(m, i, n, j, kept)
  <2>1. within \subseteq DOMAIN n.roads
    OBVIOUS
  <2> HIDE DEF within
  <2>2. QED
    BY <1>10, <1>17, <1>24, <2>1
<1>26. ASSUME NEW j \in DOMAIN n.roads, n.roads[j].a \in best, n.roads[j].b \in best
       PROVE  \E i \in DOMAIN m.roads : SameRoad(m, i, n, j, kept)
  <2>1. j \in within
    BY <1>26
  <2> HIDE DEF within
  <2>2. QED
    BY <1>11, <1>17, <1>24, <2>1
<1>27. KeptOf(m, n, kept)
  BY <1>5, <1>19, <1>20, <1>21, <1>22, <1>23, <1>25, <1>26 DEF KeptOf, best
<1>28. QED
  BY <1>27 DEF m
\* Within what is kept, every intersection leads to every other.
LEMMA KeptLeads ==
  ASSUME NEW n, Laid(n), NEW m, NEW kept, KeptOf(m, n, kept),
         NEW x \in Corners(m), NEW y \in Corners(m)
  PROVE  LeadsTo(m, x, y)
<1> SUFFICES ASSUME NEW S \in SUBSET Corners(m), x \in S, KeptIn(m, S)
             PROVE  y \in S
  BY DEF LeadsTo
<1> DEFINE best == Largest(n)
<1>1. /\ Laid(m) /\ kept \in [Corners(m) -> Corners(n)]
      /\ \A k, l \in Corners(m) : kept[k] = kept[l] => k = l
      /\ {kept[k] : k \in Corners(m)} = best
  BY DEF KeptOf, IsInjective
<1>2. \A k \in Corners(m) : kept[k] \in best /\ kept[k] \in Corners(n)
  BY <1>1
<1>3. PICK r \in Corners(n) : best = Class(n, r)
  BY <1>2, LargestIsClass
<1>4. \A j \in DOMAIN n.roads :
        n.roads[j].a \in best /\ n.roads[j].b \in best =>
          \E i \in DOMAIN m.roads : SameRoad(m, i, n, j, kept)
  BY DEF KeptOf
<1> HIDE DEF best
<1> DEFINE B == {kept[k] : k \in S}
           away == {w \in Corners(n) : w \notin best /\ ~LeadsTo(n, w, r)}
           T == B \cup away
<1>5. T \in SUBSET Corners(n) /\ kept[x] \in T
  BY <1>2
\* A road within what is kept is a road of it.
<1>6. ASSUME NEW u \in Corners(m), NEW v \in Corners(m), Joins(n, kept[u], kept[v])
      PROVE  Joins(m, u, v)
  <2>1. PICK j \in DOMAIN n.roads : DrivenBy(n, j, kept[u], kept[v])
    BY <1>6 DEF Joins
  <2>2. n.roads[j].a \in best /\ n.roads[j].b \in best
    BY <1>2, <2>1 DEF DrivenBy
  <2>3. PICK i \in DOMAIN m.roads : SameRoad(m, i, n, j, kept)
    BY <1>4, <2>2
  <2>4. m.roads[i].a \in Corners(m) /\ m.roads[i].b \in Corners(m)
    BY <1>1 DEF Laid
  <2>5. \/ m.roads[i].a = u /\ m.roads[i].b = v
        \/ m.roads[i].b = u /\ m.roads[i].a = v /\ ~m.roads[i].oneway
    <3>1. CASE n.roads[j].a = kept[u] /\ n.roads[j].b = kept[v]
      BY <1>1, <2>3, <2>4, <3>1 DEF SameRoad
    <3>2. CASE n.roads[j].b = kept[u] /\ n.roads[j].a = kept[v] /\ ~n.roads[j].oneway
      BY <1>1, <2>3, <2>4, <3>2 DEF SameRoad
    <3>3. QED
      BY <2>1, <3>1, <3>2 DEF DrivenBy
  <2>6. QED
    BY <2>5 DEF Joins, DrivenBy
<1>7. ASSUME NEW v \in Corners(n), NEW w \in Corners(n), v \in T, Joins(n, v, w)
      PROVE  w \in T
  <2>1. CASE v \in B /\ w \in best
    <3>1. PICK k \in S : v = kept[k]
      BY <2>1
    <3>2. PICK l \in Corners(m) : w = kept[l]
      BY <1>1, <2>1
    <3>3. Joins(m, k, l)
      BY <1>6, <1>7, <3>1, <3>2
    <3>4. l \in S
      BY <3>3 DEF KeptIn
    <3>5. QED
      BY <3>2, <3>4
  <2>2. CASE v \in B /\ w \notin best
    <3>1. v \in best
      BY <1>2, <2>2
    <3>2. LeadsTo(n, r, v)
      BY <1>3, <3>1 DEF Class
    <3>3. LeadsTo(n, r, w)
      BY <1>7, <3>2, LeadsOn
    <3>4. ~LeadsTo(n, w, r)
      BY <1>3, <2>2, <3>3 DEF Class
    <3>5. QED
      BY <2>2, <3>4
  <2>3. CASE v \in away
    <3>1. ~LeadsTo(n, w, r)
      BY <1>7, <2>3, LeadsFrom
    <3>2. w \notin best
      BY <1>3, <3>1 DEF Class
    <3>3. QED
      BY <3>1, <3>2
  <2>4. QED
    BY <1>7, <2>1, <2>2, <2>3
<1>8. KeptIn(n, T)
  BY <1>7 DEF KeptIn
<1>9. LeadsTo(n, kept[x], kept[y])
  <2>1. kept[x] \in Class(n, r) /\ kept[y] \in Class(n, r)
    BY <1>2, <1>3
  <2>2. LeadsTo(n, kept[x], r) /\ LeadsTo(n, r, kept[y])
    BY <2>1 DEF Class
  <2>3. QED
    BY <2>2, LeadsFar
<1>10. kept[y] \in T
  <2> HIDE DEF T
  <2>1. QED
    BY <1>5, <1>8, <1>9 DEF LeadsTo
<1>11. kept[y] \in B
  BY <1>2, <1>10
<1>12. QED
  BY <1>1, <1>11

\* What roadgen makes of an extract, step by step.
Made(extract, ways, n, m, kept) ==
  /\ ways = Parse(extract) /\ ways \in Seq(Stretches)
  /\ n = Build(ways) /\ BuiltOf(n, ways)
  /\ m = Generate(extract) /\ KeptOf(m, n, kept)

LEMMA GenerateFacts ==
  ASSUME NEW extract \in Seq(Elements)
  PROVE  \E ways, n, m, kept : Made(extract, ways, n, m, kept)
<1>1. PICK ways \in Seq(Stretches) : ways = Parse(extract)
  BY ParseFacts
<1>2. PICK n : n = Build(ways)
  OBVIOUS
<1>3. BuiltOf(n, ways)
  BY <1>2, BuildFacts
<1>4. PICK kept : KeptOf(Strongest(n), n, kept)
  BY <1>3, StrongestFacts DEF BuiltOf
<1>5. Generate(extract) = Strongest(n)
  BY <1>1, <1>2 DEF Generate
<1>6. Made(extract, ways, n, Generate(extract), kept)
  BY <1>1, <1>2, <1>3, <1>4, <1>5 DEF Made
<1>7. QED
  BY <1>6

=============================================================================
