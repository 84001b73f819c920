-------------------------- MODULE RecursionLemmas --------------------------
(***************************************************************************)
(* Induction over numbers, and the folds over sequences that the modules   *)
(* use for the loops of the code.  The induction theorems of the library   *)
(* take a predicate as a parameter; here the predicate is a set of         *)
(* numbers, and induction follows from the well-foundedness of the         *)
(* subsets of a finite set.                                                *)
(***************************************************************************)
EXTENDS Integers, Sequences, FiniteSets, SequencesExt, FiniteSetTheorems, TLAPS

\* A set of numbers has a least one.
LEMMA LeastNumber ==
  ASSUME NEW T, T \subseteq Nat, T # {}
  PROVE  \E x \in T : \A y \in T : x <= y
<1>1. PICK D : D = {1..n : n \in T}
  OBVIOUS
<1>2. D \subseteq FiniteSubsetsOf(Nat) /\ D # {}
  <2>1. \A n \in T : IsFiniteSet(1..n) /\ 1..n \in SUBSET Nat
    BY FS_Interval
  <2> QED BY <1>1, <2>1 DEF FiniteSubsetsOf
<1>3. PICK d \in D : \A c \in D : <<c, d>> \notin StrictSubsetOrdering(Nat)
  BY <1>2, WFMin, FS_StrictSubsetOrderingWellFounded
<1>4. PICK x \in T : d = 1..x
  BY <1>1
<1>5. ASSUME NEW y \in T, y < x PROVE FALSE
  <2>1. 1..y \in D /\ 1..y \subseteq 1..x /\ x \in 1..x /\ x \notin 1..y
    BY <1>1, <1>5
  <2>2. <<1..y, 1..x>> \in StrictSubsetOrdering(Nat)
    BY <2>1 DEF StrictSubsetOrdering
  <2> QED BY <1>3, <1>4, <2>1, <2>2
<1> QED BY <1>5

\* Induction for a set P of numbers.
LEMMA Induction ==
  ASSUME NEW P, 0 \in P, \A n \in Nat : n \in P => n + 1 \in P
  PROVE  Nat \subseteq P
<1> SUFFICES ASSUME Nat \ P # {} PROVE FALSE
  OBVIOUS
<1>1. PICK x \in Nat \ P : \A y \in Nat \ P : x <= y
  BY LeastNumber
<1>2. x # 0 /\ x - 1 \in Nat
  OBVIOUS
<1>3. x - 1 \in P
  BY <1>1, <1>2
<1> QED BY <1>2, <1>3

\* A set of numbers up to n has a greatest one.
LEMMA MaxLemma ==
  ASSUME NEW n \in Nat, NEW T, T \subseteq 1..n, T # {}
  PROVE  Max(T) \in T /\ \A y \in T : Max(T) >= y
<1>1. PICK D : D = {n - y : y \in T}
  OBVIOUS
<1>2. D \subseteq Nat /\ D # {}
  <2>1. \A y \in T : n - y \in Nat
    OBVIOUS
  <2> QED BY <1>1, <2>1
<1>3. PICK d \in D : \A c \in D : d <= c
  BY <1>2, LeastNumber
<1>4. PICK x \in T : d = n - x
  BY <1>1
<1>5. ASSUME NEW y \in T PROVE x >= y
  <2>1. n - y \in D /\ y \in Nat /\ x \in Nat
    BY <1>1
  <2>2. n - x <= n - y
    BY <1>3, <1>4, <2>1
  <2> QED BY <2>1, <2>2
<1>6. \E m \in T : \A y \in T : m >= y
  BY <1>5
<1> QED BY <1>6, Zenon DEF Max

\* The greatest number up to n, and what is left without it.
LEMMA MaxInterval ==
  ASSUME NEW n \in Nat, NEW T, T \subseteq 1..n + 1, n + 1 \in T
  PROVE  Max(T) = n + 1 /\ T \ {Max(T)} \subseteq 1..n
<1>1. n + 1 \in Nat /\ T # {}
  OBVIOUS
<1>2. Max(T) \in T /\ \A y \in T : Max(T) >= y
  BY <1>1, MaxLemma
<1>3. PICK m : m = Max(T)
  OBVIOUS
<1>4. m \in 1..n + 1 /\ m >= n + 1
  BY <1>2, <1>3
<1>5. m = n + 1
  BY <1>4
<1> QED BY <1>3, <1>5

\* g computes the fold of F over the elements of q at a set of positions.
Folds(g, F, base, q, n) ==
  \A T \in SUBSET (1..n) :
    g[T] = IF T = {} THEN base ELSE F[<<g[T \ {Max(T)}], q[Max(T)]>>]

\* There is such a g.
LEMMA FoldExists ==
  ASSUME NEW V, NEW X, NEW F \in [V \X X -> V], NEW base \in V, NEW q \in Seq(X)
  PROVE  \E g \in [SUBSET (1..Len(q)) -> V] : Folds(g, F, base, q, Len(q))
<1>1. PICK P : P = {n \in Nat : n <= Len(q) =>
                      \E g \in [SUBSET (1..n) -> V] : Folds(g, F, base, q, n)}
  OBVIOUS
<1>2. 0 \in P
  <2>1. 1..0 = {} /\ SUBSET {} = {{}}
    OBVIOUS
  <2>2. PICK g : g = [T \in SUBSET (1..0) |-> base]
    OBVIOUS
  <2>3. g \in [SUBSET (1..0) -> V] /\ Folds(g, F, base, q, 0)
    BY <2>1, <2>2 DEF Folds
  <2> QED BY <1>1, <2>3
<1>3. ASSUME NEW n \in Nat, n \in P, n + 1 <= Len(q)
      PROVE  \E g \in [SUBSET (1..n + 1) -> V] : Folds(g, F, base, q, n + 1)
  <2>1. n <= Len(q) /\ n + 1 \in 1..Len(q) /\ q[n + 1] \in X
    BY <1>3
  <2>2. PICK g \in [SUBSET (1..n) -> V] : Folds(g, F, base, q, n)
    BY <1>1, <1>3, <2>1
  <2>3. PICK h : h = [T \in SUBSET (1..n + 1) |->
                        IF n + 1 \in T THEN F[<<g[T \ {n + 1}], q[n + 1]>>] ELSE g[T]]
    OBVIOUS
  <2>4. ASSUME NEW T \in SUBSET (1..n + 1)
        PROVE  /\ h[T] \in V
               /\ h[T] = IF T = {} THEN base ELSE F[<<h[T \ {Max(T)}], q[Max(T)]>>]
    <3>1. CASE n + 1 \in T
      <4>1. Max(T) = n + 1 /\ T \ {Max(T)} \subseteq 1..n
        BY <3>1, MaxInterval
      <4>2. PICK S : S = T \ {n + 1}
        OBVIOUS
      <4>3. S \in SUBSET (1..n) /\ S \in SUBSET (1..n + 1) /\ n + 1 \notin S
        BY <4>1, <4>2
      <4>4. h[S] = g[S] /\ g[S] \in V /\ h[T] = F[<<g[S], q[n + 1]>>]
        BY <2>3, <3>1, <4>2, <4>3
      <4> QED BY <2>1, <3>1, <4>1, <4>2, <4>4
    <3>2. CASE n + 1 \notin T /\ T # {}
      <4>1. T \in SUBSET (1..n)
        BY <3>2
      <4>2. Max(T) \in T
        BY <3>2, <4>1, MaxLemma
      <4>3. PICK S : S = T \ {Max(T)}
        OBVIOUS
      <4>4. S \in SUBSET (1..n) /\ S \in SUBSET (1..n + 1) /\ n + 1 \notin S
        BY <3>2, <4>1, <4>3
      <4>5. h[S] = g[S] /\ h[T] = g[T] /\ g[T] \in V
        BY <2>3, <3>2, <4>1, <4>4
      <4>6. g[T] = F[<<g[S], q[Max(T)]>>]
        BY <2>2, <3>2, <4>1, <4>3 DEF Folds
      <4> QED BY <3>2, <4>3, <4>5, <4>6
    <3>3. CASE T = {}
      <4>1. T \in SUBSET (1..n) /\ n + 1 \notin T
        BY <3>3
      <4>2. h[T] = g[T] /\ g[T] \in V
        BY <2>3, <4>1
      <4> QED BY <2>2, <3>3, <4>1, <4>2 DEF Folds
    <3> QED BY <3>1, <3>2, <3>3
  <2>5. h \in [SUBSET (1..n + 1) -> V]
    BY <2>3, <2>4
  <2> QED BY <2>4, <2>5 DEF Folds
<1>4. ASSUME NEW n \in Nat, n \in P PROVE n + 1 \in P
  <2>1. CASE n + 1 <= Len(q)
    <3>1. \E g \in [SUBSET (1..n + 1) -> V] : Folds(g, F, base, q, n + 1)
      BY <1>3, <1>4, <2>1
    <3> QED BY <1>1, <3>1
  <2>2. CASE ~(n + 1 <= Len(q))
    BY <1>1, <2>2
  <2> QED BY <2>1, <2>2
<1>5. Nat \subseteq P
  BY <1>2, <1>4, Induction
<1>6. Len(q) \in P /\ Len(q) <= Len(q)
  BY <1>5
<1> QED BY <1>1, <1>6

\* The prefixes of the positions of a sequence, as FoldLeft goes through them.
LEMMA PrefixLemma ==
  ASSUME NEW n \in Nat, NEW k \in 1..n
  PROVE  /\ 1..k \in SUBSET (1..n) /\ 1..k # {} /\ Max(1..k) = k
         /\ (1..k) \ {k} = 1..(k - 1) /\ 1..(k - 1) \in SUBSET (1..n)
<1>1. PICK m \in Nat : k = m + 1
  <2>1. k - 1 \in Nat /\ k = (k - 1) + 1
    OBVIOUS
  <2> QED BY <2>1
<1>2. k \in 1..k /\ 1..k \subseteq 1..m + 1
  BY <1>1
<1>3. Max(1..k) = k
  BY <1>1, <1>2, MaxInterval
<1>4. (1..k) \ {k} = 1..(k - 1)
  OBVIOUS
<1> QED BY <1>2, <1>3, <1>4
\* g sums f over the subsets of D, in the order in which FoldFunction chooses elements.
Picked(T) == CHOOSE x \in T : TRUE
Sums(g, f, D) ==
  \A T \in SUBSET D : g[T] = IF T = {} THEN 0 ELSE f[Picked(T)] + g[T \ {Picked(T)}]

\* The subset without the element picked is smaller.
LEMMA PickedLemma ==
  ASSUME NEW D, IsFiniteSet(D), NEW T \in SUBSET D, T # {}
  PROVE  /\ Picked(T) \in T /\ Picked(T) \in D /\ T \ {Picked(T)} \in SUBSET D
         /\ Cardinality(T) \in Nat \ {0}
         /\ Cardinality(T \ {Picked(T)}) = Cardinality(T) - 1
<1>1. IsFiniteSet(T)
  BY FS_Subset
<1>2. Picked(T) \in T
  BY DEF Picked
<1>3. Cardinality(T) \in Nat /\ Cardinality(T) # 0
  BY <1>1, FS_CardinalityType, FS_EmptySet
<1>4. Cardinality(T \ {Picked(T)}) = Cardinality(T) - 1
  BY <1>1, <1>2, FS_RemoveElement
<1> QED BY <1>2, <1>3, <1>4

\* There is such a g.
LEMMA SumExists ==
  ASSUME NEW D, IsFiniteSet(D), NEW f \in [D -> Nat]
  PROVE  \E g \in [SUBSET D -> Nat] : Sums(g, f, D)
<1> DEFINE Small(n) == {T \in SUBSET D : Cardinality(T) <= n}
           SumsUpTo(g, n) == \A T \in Small(n) :
             g[T] = IF T = {} THEN 0 ELSE f[Picked(T)] + g[T \ {Picked(T)}]
<1>1. PICK P : P = {n \in Nat : \E g \in [Small(n) -> Nat] : SumsUpTo(g, n)}
  OBVIOUS
<1>2. \A T \in SUBSET D : Cardinality(T) \in Nat /\ (Cardinality(T) = 0 <=> T = {})
  BY FS_Subset, FS_CardinalityType, FS_EmptySet
<1>3. 0 \in P
  <2>1. Small(0) \subseteq {{}}
    BY <1>2
  <2>2. PICK g : g = [T \in Small(0) |-> 0]
    OBVIOUS
  <2>3. g \in [Small(0) -> Nat] /\ \A T \in Small(0) : T = {} /\ g[T] = 0
    BY <2>1, <2>2
  <2>4. SumsUpTo(g, 0)
    BY <2>3
  <2> QED BY <1>1, <2>3, <2>4
<1>4. ASSUME NEW n \in Nat, n \in P PROVE n + 1 \in P
  <2>1. PICK g \in [Small(n) -> Nat] : SumsUpTo(g, n)
    BY <1>1, <1>4
  <2>2. PICK h : h = [T \in Small(n + 1) |->
                        IF T = {} THEN 0 ELSE f[Picked(T)] + g[T \ {Picked(T)}]]
    OBVIOUS
  <2>3. ASSUME NEW T \in Small(n + 1), T # {}
        PROVE  /\ f[Picked(T)] \in Nat /\ T \ {Picked(T)} \in Small(n)
               /\ g[T \ {Picked(T)}] \in Nat
    <3>1. Picked(T) \in D /\ T \ {Picked(T)} \in SUBSET D
      BY <2>3, PickedLemma
    <3>2. PICK k \in Nat : k = Cardinality(T) /\ k <= n + 1
      BY <1>2
    <3>3. Cardinality(T \ {Picked(T)}) = k - 1
      BY <2>3, <3>2, PickedLemma
    <3>4. T \ {Picked(T)} \in Small(n)
      BY <3>1, <3>2, <3>3
    <3> QED BY <3>1, <3>4
  <2> HIDE DEF Small
  <2>4. h \in [Small(n + 1) -> Nat]
    <3>1. ASSUME NEW T \in Small(n + 1) PROVE h[T] \in Nat
      <4>1. CASE T = {}
        BY <2>2, <4>1
      <4>2. CASE T # {}
        <5>1. PICK a \in Nat, b \in Nat : a = f[Picked(T)] /\ b = g[T \ {Picked(T)}]
          BY <2>3, <4>2
        <5>2. h[T] = a + b
          BY <2>2, <4>2, <5>1
        <5> QED BY <5>2
      <4> QED BY <4>1, <4>2
    <3> QED BY <2>2, <3>1
  <2>5. ASSUME NEW T \in Small(n), T # {} PROVE h[T] = g[T]
    <3>1. T \in Small(n + 1)
      <4>1. PICK k \in Nat : k = Cardinality(T) /\ k <= n
        BY <1>2 DEF Small
      <4>2. k <= n + 1
        BY <4>1
      <4> QED BY <4>1, <4>2 DEF Small
    <3>2. g[T] = f[Picked(T)] + g[T \ {Picked(T)}]
      BY <2>1, <2>5
    <3> QED BY <2>2, <2>5, <3>1, <3>2
  <2>6. \A T \in Small(n) : h[T] = g[T]
    <3>1. {} \in Small(n) => h[{}] = 0 /\ g[{}] = 0
      <4>1. {} \in Small(n + 1)
        <5>1. Cardinality({}) = 0 /\ 0 <= n + 1
          BY FS_EmptySet
        <5> QED BY <5>1 DEF Small
      <4> QED BY <2>1, <2>2, <4>1
    <3> QED BY <2>5, <3>1
  <2>7. SumsUpTo(h, n + 1)
    BY <2>2, <2>3, <2>6
  <2>8. n + 1 \in Nat
    OBVIOUS
  <2> QED BY <1>1, <2>4, <2>7, <2>8
<1>5. Nat \subseteq P
  BY <1>3, <1>4, Induction
<1>6. Cardinality(D) \in P
  BY <1>5, FS_CardinalityType
<1>7. Small(Cardinality(D)) = SUBSET D
  BY FS_Subset
<1>8. PICK g \in [Small(Cardinality(D)) -> Nat] : SumsUpTo(g, Cardinality(D))
  BY <1>1, <1>6
<1> HIDE DEF Small
<1> QED BY <1>7, <1>8 DEF Sums

\* FoldFunction adds up what such a g says.
LEMMA SumLemma ==
  ASSUME NEW D, IsFiniteSet(D), NEW f \in [D -> Nat]
  PROVE  \E g \in [SUBSET D -> Nat] : Sums(g, f, D) /\ FoldFunction(+, 0, f) = g[D]
<1> DEFINE Walks(w) == w = [s \in SUBSET D |-> IF s = {} THEN 0
                                               ELSE f[Picked(s)] + w[s \ {Picked(s)}]]
<1>1. FoldFunction(+, 0, f) = (CHOOSE w : Walks(w))[D]
  <2>1. DOMAIN f = D
    OBVIOUS
  <2> QED BY <2>1 DEF FoldFunction, FoldFunctionOnSet, MapThenFoldSet, Picked
<1>2. PICK g \in [SUBSET D -> Nat] : Sums(g, f, D)
  BY SumExists
<1>3. Walks(g)
  <2>1. g = [s \in SUBSET D |-> g[s]]
    OBVIOUS
  <2> QED BY <1>2, <2>1 DEF Sums
<1>4. PICK w : w = CHOOSE v : Walks(v)
  OBVIOUS
<1>5. Walks(w)
  <2> HIDE DEF Walks
  <2> QED BY <1>3, <1>4
<1>6. Sums(w, f, D) /\ DOMAIN w = SUBSET D
  BY <1>5 DEF Sums
<1>7. PICK P : P = {n \in Nat : \A T \in SUBSET D : Cardinality(T) = n => w[T] = g[T]}
  OBVIOUS
<1>8. 0 \in P
  <2>1. \A T \in SUBSET D : Cardinality(T) = 0 => T = {}
    BY FS_Subset, FS_EmptySet
  <2>2. w[{}] = 0 /\ g[{}] = 0
    BY <1>2, <1>6 DEF Sums
  <2> QED BY <1>7, <2>1, <2>2
<1>9. ASSUME NEW n \in Nat, n \in P PROVE n + 1 \in P
  <2>1. ASSUME NEW T \in SUBSET D, Cardinality(T) = n + 1 PROVE w[T] = g[T]
    <3>1. T # {}
      <4>1. Cardinality({}) = 0 /\ n + 1 # 0
        BY FS_EmptySet
      <4> QED BY <2>1, <4>1
    <3>2. T \ {Picked(T)} \in SUBSET D /\ Cardinality(T \ {Picked(T)}) = (n + 1) - 1
      BY <2>1, <3>1, PickedLemma
    <3>3. w[T \ {Picked(T)}] = g[T \ {Picked(T)}]
      <4>1. (n + 1) - 1 = n
        OBVIOUS
      <4> QED BY <1>7, <1>9, <3>2, <4>1
    <3> QED BY <1>2, <1>6, <3>1, <3>3 DEF Sums
  <2> QED BY <1>7, <2>1
<1>10. Nat \subseteq P
  BY <1>8, <1>9, Induction
<1>11. w[D] = g[D]
  <2>1. Cardinality(D) \in P /\ D \in SUBSET D
    BY <1>10, FS_CardinalityType
  <2> QED BY <1>7, <2>1
<1> HIDE DEF Walks
<1> QED BY <1>1, <1>2, <1>4, <1>11

\* A sum grows with what is summed.
LEMMA SumGrows ==
  ASSUME NEW D, IsFiniteSet(D), NEW f \in [D -> Nat], NEW h \in [D -> Nat],
         \A x \in D : f[x] <= h[x]
  PROVE  /\ FoldFunction(+, 0, f) \in Nat /\ FoldFunction(+, 0, h) \in Nat
         /\ FoldFunction(+, 0, f) <= FoldFunction(+, 0, h)
<1>1. PICK a \in [SUBSET D -> Nat] : Sums(a, f, D) /\ FoldFunction(+, 0, f) = a[D]
  BY SumLemma
<1>2. PICK b \in [SUBSET D -> Nat] : Sums(b, h, D) /\ FoldFunction(+, 0, h) = b[D]
  BY SumLemma
<1>3. PICK P : P = {n \in Nat : \A T \in SUBSET D : Cardinality(T) = n => a[T] <= b[T]}
  OBVIOUS
<1>4. 0 \in P
  <2>1. \A T \in SUBSET D : Cardinality(T) = 0 => T = {}
    BY FS_Subset, FS_EmptySet
  <2>2. a[{}] = 0 /\ b[{}] = 0
    BY <1>1, <1>2 DEF Sums
  <2>3. ASSUME NEW T \in SUBSET D, Cardinality(T) = 0 PROVE a[T] <= b[T]
    <3>1. T = {}
      BY <2>1, <2>3
    <3>2. a[T] = 0 /\ b[T] = 0
      BY <2>2, <3>1
    <3> QED BY <3>2
  <2> QED BY <1>3, <2>3
<1>5. ASSUME NEW n \in Nat, n \in P PROVE n + 1 \in P
  <2>1. ASSUME NEW T \in SUBSET D, Cardinality(T) = n + 1 PROVE a[T] <= b[T]
    <3>1. T # {}
      <4>1. Cardinality({}) = 0 /\ n + 1 # 0
        BY FS_EmptySet
      <4> QED BY <2>1, <4>1
    <3>2. /\ Picked(T) \in D /\ T \ {Picked(T)} \in SUBSET D
          /\ Cardinality(T \ {Picked(T)}) = (n + 1) - 1
      BY <2>1, <3>1, PickedLemma
    <3>3. a[T \ {Picked(T)}] <= b[T \ {Picked(T)}]
      <4>1. (n + 1) - 1 = n
        OBVIOUS
      <4> QED BY <1>3, <1>5, <3>2, <4>1
    <3>4. PICK u \in Nat, v \in Nat, x \in Nat, y \in Nat :
            /\ u = a[T \ {Picked(T)}] /\ v = b[T \ {Picked(T)}]
            /\ x = f[Picked(T)] /\ y = h[Picked(T)]
      BY <3>2
    <3>5. a[T] = x + u /\ b[T] = y + v /\ u <= v /\ x <= y
      BY <1>1, <1>2, <3>1, <3>2, <3>3, <3>4 DEF Sums
    <3> QED BY <3>5
  <2> QED BY <1>3, <2>1
<1>6. Nat \subseteq P
  BY <1>4, <1>5, Induction
<1>7. a[D] <= b[D]
  <2>1. Cardinality(D) \in P /\ D \in SUBSET D
    BY <1>6, FS_CardinalityType
  <2> QED BY <1>3, <2>1
<1> QED BY <1>1, <1>2, <1>7
=============================================================================
