------------------------------ MODULE Filtering ------------------------------
(***************************************************************************)
(* The loops that copy, in order, the elements of a vector that pass a     *)
(* test, or those with a new key, and FlattenSeq, with what they return;   *)
(* and what sums over finite sets return. The test is a set, so that the   *)
(* lemmas speak of any test.                                               *)
(***************************************************************************)
EXTENDS Naturals, SequencesExt, FiniteSetTheorems, WellFoundedInduction

Before(at, n) == {m \in at : m < n}

\* The k-th of a set of positions.
Kth(at, k) == CHOOSE n \in at : Cardinality(Before(at, n)) = k - 1

\* What a sequence holds at some positions, in its order.
ElementsAt(s, at) == [k \in 1 .. Cardinality(at) |-> s[Kth(at, k)]]

KeepIn(s, S) == ElementsAt(s, {n \in DOMAIN s : s[n] \in S})

\* Of the elements with the same key the first: the loops over an unordered_set `seen`.
FirstOfEach(s, Key(_)) ==
    ElementsAt(s, {n \in DOMAIN s : \A m \in 1 .. n - 1 : Key(s[m]) # Key(s[n])})

\* Where a search first finds one of S, counted from 0; 0 if it finds none.
PlaceIn(s, S) == IF ToSet(s) \cap S # {} THEN SelectInSeq(s, LAMBDA x : x \in S) - 1 ELSE 0

-----------------------------------------------------------------------------
\* Induction, for a property given as a set.
LEMMA SetInduction ==
    ASSUME NEW T \in SUBSET Nat, 0 \in T, \A n \in T : n + 1 \in T
    PROVE  T = Nat
<1> DEFINE rest == Nat \ T
<1> SUFFICES ASSUME rest # {} PROVE FALSE
  OBVIOUS
<1>1. PICK m \in rest : \A n \in rest : ~ (<<n, m>> \in OpToRel(<, Nat))
  BY WFMin, NatLessThanWellFounded
<1>2. m \in Nat /\ m # 0 /\ m - 1 \in Nat /\ m - 1 < m
  OBVIOUS
<1>3. m - 1 \notin rest
  BY <1>1, <1>2 DEF OpToRel
<1>4. (m - 1) + 1 \in T
  BY <1>2, <1>3
<1> QED BY <1>2, <1>4

\* The first of some positions.
LEMMA FirstPosition ==
    ASSUME NEW n \in Nat, NEW S \in SUBSET (1 .. n), S # {}
    PROVE  \E m \in S : \A i \in S : m <= i
<1>1. S \subseteq Nat
  OBVIOUS
<1>2. PICK m \in S : \A i \in S : ~ (<<i, m>> \in OpToRel(<, Nat))
  BY <1>1, WFMin, NatLessThanWellFounded
<1>3. \A i \in S : ~ (i < m)
  BY <1>1, <1>2 DEF OpToRel
<1> QED BY <1>1, <1>3

\* What a search finds is there.
LEMMA PlaceIsThere ==
    ASSUME NEW X, NEW s \in Seq(X), NEW S
    PROVE  /\ PlaceIn(s, S) \in Nat
           /\ s # <<>> => PlaceIn(s, S) < Len(s)
           /\ ToSet(s) \cap S # {} => s[PlaceIn(s, S) + 1] \in S
<1> DEFINE I == {i \in 1 .. Len(s) : s[i] \in S}
           m == CHOOSE i \in I : \A j \in I : i <= j
<1>0. Len(s) \in Nat /\ DOMAIN s = 1 .. Len(s) /\ (s # <<>> => Len(s) > 0)
  OBVIOUS
<1>1. CASE ToSet(s) \cap S = {}
  BY <1>0, <1>1 DEF PlaceIn
<1>2. CASE ToSet(s) \cap S # {}
  <2>1. I # {} /\ I \in SUBSET (1 .. Len(s))
    BY <1>0, <1>2 DEF ToSet, Range
  <2>2. \E i \in I : \A j \in I : i <= j
    <3> HIDE DEF I
    <3> QED BY <1>0, <2>1, FirstPosition
  <2>3. m \in I
    BY <2>2
  <2>4. SelectInSeq(s, LAMBDA x : x \in S) = m
    BY <2>1 DEF SelectInSeq, Min
  <2>5. PlaceIn(s, S) = m - 1
    BY <1>2, <2>4 DEF PlaceIn
  <2>6. m \in 1 .. Len(s) /\ s[m] \in S
    BY <2>3
  <2> HIDE DEF m
  <2>7. m - 1 \in Nat /\ m - 1 < Len(s) /\ (m - 1) + 1 = m
    BY <1>0, <2>6
  <2> QED BY <2>5, <2>6, <2>7
<1> QED BY <1>1, <1>2

\* The least number that bounds a set bounds it from within.
LEMMA BoundedSetsHaveAMaximum ==
    ASSUME NEW b \in Nat, NEW S \in SUBSET (0 .. b), S # {}
    PROVE  \E m \in S : \A i \in S : i <= m
<1> DEFINE bounds == {n \in Nat : \A i \in S : i <= n}
<1>1. bounds \subseteq Nat /\ b \in bounds
  OBVIOUS
<1>2. PICK m \in bounds : \A n \in bounds : ~ (n < m)
  <2>1. PICK m \in bounds : \A n \in bounds : ~ (<<n, m>> \in OpToRel(<, Nat))
    BY <1>1, WFMin, NatLessThanWellFounded
  <2>2. \A n \in bounds : ~ (n < m)
    BY <1>1, <2>1 DEF OpToRel
  <2> QED BY <2>2
<1>3. m \in Nat /\ \A i \in S : i \in Nat /\ i <= m
  BY <1>2
<1>4. \A n \in Nat : n < m => \E i \in S : i > n
  BY <1>2
<1>5. m \in S
  <2>1. CASE m = 0
    <3>1. PICK i \in S : TRUE
      OBVIOUS
    <3> QED BY <1>3, <2>1, <3>1
  <2>2. CASE m # 0
    <3>1. PICK i \in S : i > m - 1
      BY <1>3, <1>4, <2>2
    <3>2. i = m
      BY <1>3, <3>1
    <3> QED BY <3>2
  <2> QED BY <2>1, <2>2
<1> QED BY <1>3, <1>5

\* A set of positions is finite, and a rank grows by one as its position is passed.
LEMMA PositionsAreFinite ==
    ASSUME NEW N \in Nat, NEW at \in SUBSET (1 .. N)
    PROVE  /\ IsFiniteSet(at) /\ Cardinality(at) \in Nat
           /\ \A n \in at : /\ IsFiniteSet(Before(at, n)) /\ Cardinality(Before(at, n)) \in Nat
                            /\ Cardinality(Before(at, n) \cup {n}) = Cardinality(Before(at, n)) + 1
<1>0. 1 \in Int /\ N \in Int
  OBVIOUS
<1>1. IsFiniteSet(at) /\ Cardinality(at) \in Nat
  <2>1. IsFiniteSet(1 .. N)
    BY <1>0, FS_Interval
  <2>2. IsFiniteSet(at)
    BY <2>1, FS_Subset
  <2> QED BY <2>2, FS_CardinalityType
<1>2. ASSUME NEW n \in at
      PROVE  /\ IsFiniteSet(Before(at, n)) /\ Cardinality(Before(at, n)) \in Nat
             /\ Cardinality(Before(at, n) \cup {n}) = Cardinality(Before(at, n)) + 1
  <2>1. Before(at, n) \subseteq at /\ n \notin Before(at, n)
    BY DEF Before
  <2>2. IsFiniteSet(Before(at, n)) /\ Cardinality(Before(at, n)) \in Nat
    BY <1>1, <2>1, FS_Subset, FS_CardinalityType
  <2> QED BY <2>1, <2>2, FS_AddElement
<1> QED BY <1>1, <1>2

\* Every position has its own rank.
LEMMA RanksAreStrict ==
    ASSUME NEW N \in Nat, NEW at \in SUBSET (1 .. N), NEW m \in at, NEW n \in at, m < n
    PROVE  Cardinality(Before(at, m)) < Cardinality(Before(at, n))
<1>1. Before(at, m) \cup {m} \subseteq Before(at, n)
  <2>1. m \in Nat /\ n \in Nat /\ \A x \in at : x \in Nat
    OBVIOUS
  <2>2. \A x \in at : x < m => x < n
    BY <2>1
  <2> QED BY <2>2 DEF Before
<1>2. /\ IsFiniteSet(Before(at, n)) /\ Cardinality(Before(at, n)) \in Nat
      /\ Cardinality(Before(at, m)) \in Nat
      /\ Cardinality(Before(at, m) \cup {m}) = Cardinality(Before(at, m)) + 1
  BY PositionsAreFinite
<1>3. Cardinality(Before(at, m) \cup {m}) <= Cardinality(Before(at, n))
  BY <1>1, <1>2, FS_Subset
<1> QED BY <1>2, <1>3

\* No rank is left out.
LEMMA RanksAreDense ==
    ASSUME NEW N \in Nat, NEW at \in SUBSET (1 .. N), NEW k \in 1 .. Cardinality(at)
    PROVE  \E n \in at : Cardinality(Before(at, n)) = k - 1
<1> DEFINE Dense(b) == \A S \in SUBSET (1 .. b) : \A j \in 1 .. Cardinality(S) :
                           \E n \in S : Cardinality(Before(S, n)) = j - 1
           T == {b \in Nat : Dense(b)}
<1>1. 0 \in T
  <2>1. \A S \in SUBSET (1 .. 0) : S = {}
    OBVIOUS
  <2>2. Cardinality({}) = 0 /\ 1 .. 0 = {}
    BY FS_EmptySet
  <2>3. Dense(0)
    BY <2>1, <2>2
  <2> QED BY <2>3
<1>2. ASSUME NEW b \in T PROVE b + 1 \in T
  <2>1. b \in Nat /\ b + 1 \in Nat /\ Dense(b)
    OBVIOUS
  <2>2. ASSUME NEW S \in SUBSET (1 .. b + 1), NEW j \in 1 .. Cardinality(S)
        PROVE  \E n \in S : Cardinality(Before(S, n)) = j - 1
    <3>1. CASE b + 1 \notin S
      <4>1. S \in SUBSET (1 .. b)
        BY <2>1, <3>1
      <4> QED BY <2>1, <4>1
    <3>2. CASE b + 1 \in S
      <4> DEFINE R == S \ {b + 1}
      <4>1. R \in SUBSET (1 .. b) /\ b + 1 \notin R /\ S = R \cup {b + 1}
        BY <2>1, <3>2
      <4>2. IsFiniteSet(R) /\ Cardinality(R) \in Nat
        BY <2>1, <4>1, PositionsAreFinite
      <4>3. Cardinality(S) = Cardinality(R) + 1
        BY <4>1, <4>2, FS_AddElement
      <4>4. CASE j = Cardinality(S)
        <5>1. Before(S, b + 1) = R
          <6>1. \A x \in R : x \in Nat /\ x < b + 1
            BY <2>1, <4>1
          <6>2. ~ (b + 1 < b + 1)
            BY <2>1
          <6> HIDE DEF R
          <6> QED BY <4>1, <6>1, <6>2 DEF Before
        <5> QED BY <3>2, <4>2, <4>3, <4>4, <5>1
      <4>5. CASE j # Cardinality(S)
        <5>1. j \in 1 .. Cardinality(R)
          BY <4>2, <4>3, <4>5
        <5>2. PICK n \in R : Cardinality(Before(R, n)) = j - 1
          BY <2>1, <4>1, <5>1
        <5>3. Before(S, n) = Before(R, n)
          BY <2>1, <4>1 DEF Before
        <5> QED BY <5>2, <5>3
      <4> QED BY <4>4, <4>5
    <3> QED BY <3>1, <3>2
  <2> QED BY <2>1, <2>2
<1>3. N \in T
  <2>1. T \subseteq Nat
    OBVIOUS
  <2> HIDE DEF T
  <2> QED BY <1>1, <1>2, <2>1, SetInduction
<1> QED BY <1>3

\* t holds what s holds at some positions, and from says which is whose.
Taken(t, from, s, at) ==
    /\ from \in [1 .. Len(t) -> at]
    /\ \A i \in 1 .. Len(t) : t[i] = s[from[i]]
    /\ \A i, j \in 1 .. Len(t) : i < j => from[i] < from[j]
    /\ \A k \in at : \E i \in 1 .. Len(t) : from[i] = k

\* The elements at some positions stand in the order of the positions, each once.
LEMMA TakenInOrder ==
    ASSUME NEW X, NEW s \in Seq(X), NEW at \in SUBSET (1 .. Len(s))
    PROVE  /\ ElementsAt(s, at) \in Seq(X)
           /\ \E from : Taken(ElementsAt(s, at), from, s, at)
<1> DEFINE c == Cardinality(at)
           from == [k \in 1 .. c |-> Kth(at, k)]
           t == ElementsAt(s, at)
<1>1. Len(s) \in Nat /\ DOMAIN s = 1 .. Len(s) /\ \A k \in 1 .. Len(s) : s[k] \in X
  OBVIOUS
<1>2. c \in Nat
  BY <1>1, PositionsAreFinite
<1>3. t = [k \in 1 .. c |-> s[Kth(at, k)]]
  BY DEF ElementsAt
<1>4. \A n \in at : n \in 1 .. Len(s) /\ n \in Nat
  BY <1>1
<1> HIDE DEF c, t
<1>6. \A k \in 1 .. c : Kth(at, k) \in at /\ Cardinality(Before(at, Kth(at, k))) = k - 1
  BY <1>1, RanksAreDense DEF Kth, c
<1>7. from \in [1 .. c -> at] /\ \A k \in 1 .. c : from[k] = Kth(at, k) /\ from[k] \in at
  BY <1>6, <1>4
<1> HIDE DEF from
<1>8. t \in Seq(X) /\ Len(t) = c /\ \A k \in 1 .. c : t[k] = s[from[k]]
  <2>1. \A k \in 1 .. c : s[Kth(at, k)] \in X
    BY <1>1, <1>6, <1>4
  <2>2. t \in [1 .. c -> X]
    BY <1>3, <2>1
  <2>3. t \in Seq(X) /\ Len(t) = c
    BY <1>2, <2>2
  <2> QED BY <1>3, <1>7, <1>4, <2>3
<1>9. ASSUME NEW i \in 1 .. c, NEW j \in 1 .. c, i < j PROVE from[i] < from[j]
  <2>1. from[i] \in Nat /\ from[j] \in Nat /\ i - 1 < j - 1 /\ i \in Nat /\ j \in Nat
    <3>1. from[i] \in at /\ from[j] \in at
      BY <1>7
    <3>2. from[i] \in Nat /\ from[j] \in Nat
      BY <1>4, <3>1
    <3> QED BY <1>2, <1>9, <3>2
  <2>2. Cardinality(Before(at, from[i])) = i - 1 /\ Cardinality(Before(at, from[j])) = j - 1
    BY <1>6, <1>7
  <2>3. CASE from[j] < from[i]
    <3>1. Cardinality(Before(at, from[j])) < Cardinality(Before(at, from[i]))
      BY <1>1, <1>7, <2>3, RanksAreStrict
    <3> QED BY <2>1, <2>2, <3>1
  <2>4. CASE from[i] = from[j]
    BY <2>1, <2>2, <2>4
  <2> QED BY <2>1, <2>3, <2>4
<1>10. ASSUME NEW k \in at PROVE \E i \in 1 .. c : from[i] = k
  <2> DEFINE r == Cardinality(Before(at, k)) + 1
  <2>1. k \in at /\ k \in 1 .. Len(s)
    BY <1>4
  <2>2. r \in 1 .. c
    <3>1. Before(at, k) \cup {k} \subseteq at
      BY <2>1 DEF Before
    <3>2. IsFiniteSet(at)
      BY <1>1, PositionsAreFinite
    <3>3. Cardinality(Before(at, k) \cup {k}) <= c
      BY <3>1, <3>2, FS_Subset DEF c
    <3>4. /\ Cardinality(Before(at, k)) \in Nat
          /\ Cardinality(Before(at, k) \cup {k}) = r
      BY <1>1, <2>1, PositionsAreFinite
    <3> QED BY <1>2, <3>3, <3>4
  <2>3. Cardinality(Before(at, k)) \in Nat
    BY <1>1, <2>1, PositionsAreFinite
  <2> HIDE DEF r
  <2>4. from[r] \in at /\ Cardinality(Before(at, from[r])) = Cardinality(Before(at, k))
    BY <1>6, <1>7, <2>2, <2>3 DEF r
  <2>5. from[r] = k
    <3>1. from[r] \in Nat /\ k \in Nat
      <4>1. from[r] \in 1 .. Len(s)
        BY <1>4, <2>4
      <4> QED BY <1>1, <4>1
    <3>2. ASSUME from[r] < k PROVE FALSE
      <4>1. Cardinality(Before(at, from[r])) < Cardinality(Before(at, k))
        BY <1>1, <2>1, <2>4, <3>2, RanksAreStrict
      <4> QED BY <2>3, <2>4, <4>1
    <3>3. ASSUME k < from[r] PROVE FALSE
      <4>1. Cardinality(Before(at, k)) < Cardinality(Before(at, from[r]))
        BY <1>1, <2>1, <2>4, <3>3, RanksAreStrict
      <4> QED BY <2>3, <2>4, <4>1
    <3> QED BY <3>1, <3>2, <3>3
  <2> QED BY <2>2, <2>5
<1>11. Taken(t, from, s, at)
  BY <1>7, <1>8, <1>9, <1>10 DEF Taken
<1> QED BY <1>8, <1>11 DEF t

\* t holds the elements of s in S, and from says where they stood.
Picked(t, from, s, S) ==
    /\ from \in [1 .. Len(t) -> 1 .. Len(s)]
    /\ \A i \in 1 .. Len(t) : t[i] = s[from[i]] /\ s[from[i]] \in S
    /\ \A i, j \in 1 .. Len(t) : i < j => from[i] < from[j]
    /\ \A k \in 1 .. Len(s) : s[k] \in S => \E i \in 1 .. Len(t) : from[i] = k

\* The copies stand in the order of their originals, and nothing that passes is left out.
LEMMA KeptInOrder ==
    ASSUME NEW X, NEW s \in Seq(X), NEW S
    PROVE  KeepIn(s, S) \in Seq(X) /\ \E from : Picked(KeepIn(s, S), from, s, S)
<1> DEFINE at == {n \in DOMAIN s : s[n] \in S}
<1>1. DOMAIN s = 1 .. Len(s) /\ at \in SUBSET (1 .. Len(s)) /\ KeepIn(s, S) = ElementsAt(s, at)
  BY DEF KeepIn
<1>2. \A n \in 1 .. Len(s) : n \in at <=> s[n] \in S
  BY <1>1
<1> HIDE DEF at
<1>3. ElementsAt(s, at) \in Seq(X) /\ \E from : Taken(ElementsAt(s, at), from, s, at)
  BY <1>1, TakenInOrder
<1>4. PICK from : Taken(ElementsAt(s, at), from, s, at)
  BY <1>3
<1>5. Picked(ElementsAt(s, at), from, s, S)
  BY <1>1, <1>2, <1>4 DEF Taken, Picked
<1> QED BY <1>1, <1>3, <1>5

\* In short: what is kept passes and was there.
LEMMA KeptWasThere ==
    ASSUME NEW X, NEW s \in Seq(X), NEW S
    PROVE  /\ KeepIn(s, S) \in Seq(X)
           /\ \A i \in 1 .. Len(KeepIn(s, S)) :
                 KeepIn(s, S)[i] \in S /\ \E k \in 1 .. Len(s) : KeepIn(s, S)[i] = s[k]
<1> DEFINE t == KeepIn(s, S)
<1>1. t \in Seq(X) /\ \E from : Picked(t, from, s, S)
  BY KeptInOrder
<1> HIDE DEF t
<1>2. PICK from : Picked(t, from, s, S)
  BY <1>1
<1>3. \A i \in 1 .. Len(t) : t[i] \in S /\ \E k \in 1 .. Len(s) : t[i] = s[k]
  BY <1>2 DEF Picked
<1> QED BY <1>1, <1>3 DEF t

\* What comes before the first element that is left out keeps its place.
LEMMA PrefixIsKept ==
    ASSUME NEW X, NEW s \in Seq(X), NEW S, NEW t \in Seq(X), NEW from, Picked(t, from, s, S),
           NEW m \in Nat, m <= Len(s), \A k \in 1 .. m : s[k] \in S
    PROVE  m <= Len(t) /\ \A k \in 1 .. m : from[k] = k
<1> DEFINE Stays(n) == \A k \in 1 .. n : k <= m => k <= Len(t) /\ from[k] = k
           T == {n \in Nat : Stays(n)}
<1>1. 0 \in T
  OBVIOUS
<1>2. ASSUME NEW n \in T PROVE n + 1 \in T
  <2>1. n \in Nat /\ n + 1 \in Nat /\ Stays(n) /\ Len(s) \in Nat /\ Len(t) \in Nat
    OBVIOUS
  <2>2. CASE n + 1 <= m
    <3>1. n + 1 \in 1 .. Len(s) /\ s[n + 1] \in S
      BY <2>1, <2>2
    <3>2. PICK k \in 1 .. Len(t) : from[k] = n + 1
      BY <3>1 DEF Picked
    <3>3. \A j \in 1 .. n : j \in 1 .. Len(t) /\ from[j] = j /\ j # n + 1
      BY <2>1, <2>2
    <3>4. k > n
      BY <2>1, <3>2, <3>3
    <3>5. n + 1 \in 1 .. Len(t)
      BY <2>1, <3>2, <3>4
    <3>6. from[n + 1] \in Nat /\ from[n + 1] >= 1
      BY <2>1, <3>5 DEF Picked
    <3>7. from[n + 1] \notin 1 .. n
      <4>1. SUFFICES ASSUME from[n + 1] \in 1 .. n PROVE FALSE
        OBVIOUS
      <4>2. from[from[n + 1]] = from[n + 1] /\ from[n + 1] \in 1 .. Len(t) /\ from[n + 1] < n + 1
        BY <2>1, <3>3, <4>1
      <4>3. from[from[n + 1]] < from[n + 1]
        BY <3>5, <4>2 DEF Picked
      <4> QED BY <3>6, <4>2, <4>3
    <3>8. ~ (n + 1 < k)
      <4>1. SUFFICES ASSUME n + 1 < k PROVE FALSE
        OBVIOUS
      <4>2. from[n + 1] < n + 1
        BY <3>2, <3>5, <4>1 DEF Picked
      <4> QED BY <2>1, <3>6, <3>7, <4>2
    <3>9. from[n + 1] = n + 1
      <4>1. k = n + 1
        BY <2>1, <3>2, <3>4, <3>8
      <4> QED BY <3>2, <4>1
    <3>10. Stays(n + 1)
      <4> TAKE k1 \in 1 .. n + 1
      <4>1. k1 \in 1 .. n \/ k1 = n + 1
        BY <2>1
      <4> QED BY <2>1, <3>5, <3>9, <4>1
    <3> QED BY <2>1, <3>10
  <2>3. CASE ~ (n + 1 <= m)
    <3>1. Stays(n + 1)
      <4> TAKE k1 \in 1 .. n + 1
      <4>1. k1 \in 1 .. n \/ k1 = n + 1
        BY <2>1
      <4> QED BY <2>1, <2>3, <4>1
    <3> QED BY <2>1, <3>1
  <2> QED BY <2>2, <2>3
<1>3. m \in T
  <2>1. T \subseteq Nat
    OBVIOUS
  <2> HIDE DEF T
  <2>2. T = Nat
    BY <1>1, <1>2, <2>1, SetInduction
  <2> QED BY <2>2
<1>4. \A k \in 1 .. m : k <= Len(t) /\ from[k] = k
  BY <1>3
<1>5. m <= Len(t)
  <2>1. CASE m = 0
    BY <2>1
  <2>2. CASE m # 0
    BY <1>4, <2>2
  <2> QED BY <2>1, <2>2
<1> QED BY <1>4, <1>5

\* The first element that is kept comes first.
LEMMA FirstKept ==
    ASSUME NEW X, NEW s \in Seq(X), NEW S, NEW t \in Seq(X), NEW from, Picked(t, from, s, S),
           t # <<>>
    PROVE  /\ 1 \in 1 .. Len(t) /\ from[1] \in 1 .. Len(s) /\ s[from[1]] \in S /\ t[1] = s[from[1]]
           /\ \A k \in 1 .. Len(s) : s[k] \in S => from[1] <= k
<1>1. 1 \in 1 .. Len(t) /\ Len(t) \in Nat /\ Len(s) \in Nat
  OBVIOUS
<1>2. from[1] \in 1 .. Len(s) /\ s[from[1]] \in S /\ t[1] = s[from[1]]
  BY <1>1 DEF Picked
<1>3. ASSUME NEW k \in 1 .. Len(s), s[k] \in S PROVE from[1] <= k
  <2>1. PICK i \in 1 .. Len(t) : from[i] = k
    BY <1>3 DEF Picked
  <2>2. CASE i = 1
    BY <1>2, <2>1, <2>2
  <2>3. CASE i # 1
    <3>1. 1 < i
      BY <1>1, <2>3
    <3>2. from[1] < from[i]
      BY <1>1, <3>1 DEF Picked
    <3> QED BY <1>2, <2>1, <3>2
  <2> QED BY <2>2, <2>3
<1> QED BY <1>1, <1>2, <1>3

\* A filter makes nothing longer, and only returns nothing if nothing passes.
LEMMA KeptIsShorter ==
    ASSUME NEW X, NEW s \in Seq(X), NEW S
    PROVE  /\ Len(KeepIn(s, S)) <= Len(s)
           /\ KeepIn(s, S) = <<>> => \A k \in 1 .. Len(s) : s[k] \notin S
<1> DEFINE t == KeepIn(s, S)
           at == {n \in DOMAIN s : s[n] \in S}
<1>1. t \in Seq(X) /\ \E from : Picked(t, from, s, S)
  BY KeptInOrder
<1>2. Len(t) <= Len(s)
  <2>1. Len(s) \in Nat /\ at \in SUBSET (1 .. Len(s))
    OBVIOUS
  <2>2. t = [k \in 1 .. Cardinality(at) |-> s[Kth(at, k)]]
    BY DEF KeepIn, ElementsAt
  <2> HIDE DEF at
  <2>3. Cardinality(at) \in Nat
    BY <2>1, PositionsAreFinite
  <2>4. IsFiniteSet(1 .. Len(s)) /\ Cardinality(1 .. Len(s)) = Len(s)
    <3> DEFINE n == Len(s)
    <3>1. n \in Nat
      BY <2>1
    <3> HIDE DEF n
    <3>2. /\ IsFiniteSet(1 .. n)
          /\ Cardinality(1 .. n) = IF 1 > n THEN 0 ELSE n - 1 + 1
      BY <3>1, FS_Interval
    <3>3. IsFiniteSet(1 .. n) /\ Cardinality(1 .. n) = n
      BY <3>1, <3>2
    <3> QED BY <3>3 DEF n
  <2>5. Cardinality(at) <= Len(s)
    BY <2>1, <2>4, FS_Subset
  <2> HIDE DEF t
  <2>6. Len(t) = Cardinality(at)
    BY <2>2, <2>3, <1>1
  <2> QED BY <2>5, <2>6
<1> HIDE DEF t
<1>3. ASSUME t = <<>>, NEW k \in 1 .. Len(s), s[k] \in S PROVE FALSE
  <2>1. PICK from : Picked(t, from, s, S)
    BY <1>1
  <2>2. Len(t) = 0
    BY <1>3
  <2> QED BY <1>3, <2>1, <2>2 DEF Picked
<1> QED BY <1>2, <1>3 DEF t

\* FirstOfEach, for keys in a table beside the list.
Firsts(s, K) == ElementsAt(s, {n \in DOMAIN s : \A m \in 1 .. n - 1 : K[m] # K[n]})

\* Of the first elements of each key no two have the same key, and all were there.
LEMMA FirstsDiffer ==
    ASSUME NEW X, NEW s \in Seq(X), NEW K
    PROVE  /\ Firsts(s, K) \in Seq(X)
           /\ \A i \in DOMAIN Firsts(s, K) : \E m \in DOMAIN s : Firsts(s, K)[i] = s[m]
           /\ \A i, j \in DOMAIN Firsts(s, K) :
                i # j => \E m, n \in DOMAIN s :
                           Firsts(s, K)[i] = s[m] /\ Firsts(s, K)[j] = s[n] /\ K[m] # K[n]
<1> DEFINE at == {n \in DOMAIN s : \A m \in 1 .. n - 1 : K[m] # K[n]}
           t == ElementsAt(s, at)
<1>1. /\ DOMAIN s = 1 .. Len(s) /\ Len(s) \in Nat /\ at \in SUBSET (1 .. Len(s))
      /\ \A n \in at : n \in Nat /\ n > 0
  OBVIOUS
<1>2. \A n \in at : \A m \in 1 .. n - 1 : K[m] # K[n]
  OBVIOUS
<1> HIDE DEF at
<1>3. t \in Seq(X) /\ \E from : Taken(t, from, s, at)
  BY <1>1, TakenInOrder
<1> HIDE DEF t
<1>4. PICK from : Taken(t, from, s, at)
  BY <1>3
<1>5. /\ from \in [1 .. Len(t) -> at] /\ \A i \in 1 .. Len(t) : t[i] = s[from[i]]
      /\ \A i, j \in 1 .. Len(t) : i < j => from[i] < from[j]
  BY <1>4 DEF Taken
<1>6. from \in [1 .. Len(t) -> 1 .. Len(s)]
  BY <1>1, <1>5
<1>7. Len(t) \in Nat
  BY <1>3
<1>8. ASSUME NEW i \in 1 .. Len(t), NEW j \in 1 .. Len(t), i < j PROVE K[from[i]] # K[from[j]]
  <2>1. from[i] \in at /\ from[j] \in at /\ from[i] < from[j]
    BY <1>5, <1>8
  <2> DEFINE a == from[i]  b == from[j]
  <2>2. a \in Nat /\ a > 0 /\ b \in Nat /\ a < b
    BY <1>1, <2>1
  <2> HIDE DEF a, b
  <2>3. a \in 1 .. b - 1
    BY <2>2
  <2> USE DEF a, b
  <2> QED BY <1>2, <2>1, <2>3
<1>9. \A i, j \in 1 .. Len(t) : i # j => K[from[i]] # K[from[j]]
  <2> SUFFICES ASSUME NEW i \in 1 .. Len(t), NEW j \in 1 .. Len(t), i # j
               PROVE  K[from[i]] # K[from[j]]
    OBVIOUS
  <2>1. i < j \/ j < i
    BY <1>7
  <2> QED BY <1>8, <2>1
<1>10. DOMAIN t = 1 .. Len(t)
  BY <1>3
<1>11. /\ \A i \in DOMAIN t : \E m \in DOMAIN s : t[i] = s[m]
       /\ \A i, j \in DOMAIN t :
            i # j => \E m, n \in DOMAIN s : t[i] = s[m] /\ t[j] = s[n] /\ K[m] # K[n]
  <2>1. \A i \in DOMAIN t : t[i] = s[from[i]] /\ from[i] \in DOMAIN s
    BY <1>1, <1>5, <1>6, <1>10
  <2>2. \A i, j \in DOMAIN t : i # j => K[from[i]] # K[from[j]]
    BY <1>9, <1>10
  <2> QED BY <2>1, <2>2
<1>12. t = Firsts(s, K)
  BY DEF t, at, Firsts
<1> QED BY <1>3, <1>11, <1>12

-----------------------------------------------------------------------------
\* FlattenSeq, as the table it is computed from.
LEMMA FlattenUnfolds ==
    ASSUME NEW X, NEW ss \in Seq(Seq(X)), ss # <<>>
    PROVE  \E f : /\ FlattenSeq(ss) = f[Len(ss)]
                  /\ f = [i \in 1 .. Len(ss) |-> IF i = 1 THEN ss[i] ELSE f[i - 1] \o ss[i]]
<1> DEFINE Table(g, b) == g = [i \in 1 .. b |-> IF i = 1 THEN ss[i] ELSE g[i - 1] \o ss[i]]
           T == {b \in Nat : \E g : Table(g, b)}
<1>1. 0 \in T
  <2>1. Table([i \in 1 .. 0 |-> <<>>], 0)
    OBVIOUS
  <2> QED BY <2>1
<1>2. ASSUME NEW b \in T PROVE b + 1 \in T
  <2>1. PICK g : Table(g, b)
    OBVIOUS
  <2> DEFINE h == [i \in 1 .. b + 1 |->
                     IF i = b + 1 THEN IF i = 1 THEN ss[i] ELSE g[i - 1] \o ss[i] ELSE g[i]]
  <2>2. Table(h, b + 1)
    <3>1. b \in Nat /\ b + 1 \in 1 .. b + 1 /\ (b + 1) - 1 = b
      OBVIOUS
    <3>2. \A i \in 1 .. b : i \in 1 .. b + 1 /\ i # b + 1
      BY <3>1
    <3>3. \A i \in 1 .. b : h[i] = g[i]
      BY <3>2
    <3>4. h[b + 1] = IF b + 1 = 1 THEN ss[b + 1] ELSE g[b] \o ss[b + 1]
      BY <3>1
    <3>5. h = [i \in 1 .. b + 1 |-> h[i]]
      OBVIOUS
    <3> HIDE DEF h
    <3>6. ASSUME NEW i \in 1 .. b + 1
          PROVE  h[i] = IF i = 1 THEN ss[i] ELSE h[i - 1] \o ss[i]
      <4>1. CASE i = b + 1
        <5>1. b # 0 => b \in 1 .. b
          BY <3>1
        <5> QED BY <3>1, <3>3, <3>4, <4>1, <5>1
      <4>2. CASE i # b + 1
        <5>1. i \in 1 .. b /\ (i # 1 => i - 1 \in 1 .. b)
          BY <3>1, <4>2
        <5>2. g[i] = IF i = 1 THEN ss[i] ELSE g[i - 1] \o ss[i]
          BY <2>1, <5>1
        <5> QED BY <3>3, <5>1, <5>2
      <4> QED BY <4>1, <4>2
    <3> QED BY <3>5, <3>6
  <2> HIDE DEF Table, h
  <2>3. b + 1 \in Nat
    BY DEF T
  <2> QED BY <2>2, <2>3 DEF T
<1>3. Len(ss) \in T
  <2> HIDE DEF T
  <2>1. T \subseteq Nat
    BY DEF T
  <2>2. T = Nat
    BY <1>1, <1>2, <2>1, SetInduction
  <2> QED BY <2>2
<1>4. PICK g : Table(g, Len(ss))
  BY <1>3
<1> DEFINE f == CHOOSE c : Table(c, Len(ss))
<1>5. FlattenSeq(ss) = f[Len(ss)]
  BY DEF FlattenSeq
<1>6. Table(f, Len(ss))
  BY <1>4
<1> HIDE DEF f
<1> QED BY <1>5, <1>6

\* t holds the elements of the first n blocks of ss; block and pos say where they stood.
Flattened(t, block, pos, ss, n) ==
    /\ block \in [1 .. Len(t) -> 1 .. n] /\ pos \in [1 .. Len(t) -> Nat]
    /\ \A k \in 1 .. Len(t) : pos[k] \in 1 .. Len(ss[block[k]]) /\ t[k] = ss[block[k]][pos[k]]
    /\ \A k, l \in 1 .. Len(t) : block[k] = block[l] /\ pos[k] = pos[l] => k = l
    /\ \A i \in 1 .. n : \A j \in 1 .. Len(ss[i]) :
          \E k \in 1 .. Len(t) : block[k] = i /\ pos[k] = j

\* Each element of each block stands in one place, and nothing else does.
LEMMA FlattenedOnce ==
    ASSUME NEW X, NEW ss \in Seq(Seq(X))
    PROVE  /\ FlattenSeq(ss) \in Seq(X)
           /\ \E block, pos : Flattened(FlattenSeq(ss), block, pos, ss, Len(ss))
<1> DEFINE Placed(t, n) == t \in Seq(X) /\ \E block, pos : Flattened(t, block, pos, ss, n)
<1>1. Len(ss) \in Nat /\ \A i \in 1 .. Len(ss) : ss[i] \in Seq(X)
  OBVIOUS
<1>2. Placed(<<>>, 0)
  <2> DEFINE none == [k \in {} |-> 0]
  <2>1. <<>> \in Seq(X) /\ 1 .. Len(<<>>) = {} /\ 1 .. 0 = {}
    OBVIOUS
  <2>2. none \in [1 .. Len(<<>>) -> 1 .. 0] /\ none \in [1 .. Len(<<>>) -> Nat]
    BY <2>1
  <2> HIDE DEF none
  <2>3. Flattened(<<>>, none, none, ss, 0)
    BY <2>1, <2>2 DEF Flattened
  <2> QED BY <2>1, <2>3
<1>3. ASSUME NEW n \in Nat, n + 1 \in 1 .. Len(ss), NEW t, Placed(t, n)
      PROVE  Placed(t \o ss[n + 1], n + 1)
  <2> DEFINE m == Len(t)
             u == ss[n + 1]
             v == t \o u
  <2>1. PICK block, pos : Flattened(t, block, pos, ss, n)
    BY <1>3
  <2>2. t \in Seq(X) /\ u \in Seq(X) /\ m \in Nat /\ Len(u) \in Nat
    BY <1>1, <1>3
  <2>3. /\ v \in Seq(X) /\ Len(v) = m + Len(u)
        /\ \A k \in 1 .. m : v[k] = t[k]
        /\ \A k \in 1 .. Len(u) : v[m + k] = u[k]
    BY <2>2
  <2> HIDE DEF v, m
  <2>4. /\ block \in [1 .. m -> 1 .. n] /\ pos \in [1 .. m -> Nat]
        /\ \A k \in 1 .. m : pos[k] \in 1 .. Len(ss[block[k]]) /\ t[k] = ss[block[k]][pos[k]]
        /\ \A k, l \in 1 .. m : block[k] = block[l] /\ pos[k] = pos[l] => k = l
        /\ \A i \in 1 .. n : \A j \in 1 .. Len(ss[i]) :
              \E k \in 1 .. m : block[k] = i /\ pos[k] = j
    BY <2>1 DEF Flattened, m
  <2> DEFINE block2 == [k \in 1 .. Len(v) |-> IF k <= m THEN block[k] ELSE n + 1]
             pos2   == [k \in 1 .. Len(v) |-> IF k <= m THEN pos[k] ELSE k - m]
  <2>5. \A k \in 1 .. Len(v) : \/ k \in 1 .. m /\ k <= m
                               \/ k - m \in 1 .. Len(u) /\ ~ (k <= m) /\ m + (k - m) = k
    BY <2>2, <2>3
  <2>6. \A k \in 1 .. m : k \in 1 .. Len(v) /\ block2[k] = block[k] /\ pos2[k] = pos[k]
    <3>1. \A k \in 1 .. m : k \in 1 .. Len(v) /\ k <= m
      BY <2>2, <2>3
    <3> QED BY <3>1
  <2>7. \A k \in 1 .. Len(u) : m + k \in 1 .. Len(v) /\ block2[m + k] = n + 1 /\ pos2[m + k] = k
    <3>1. \A k \in 1 .. Len(u) : m + k \in 1 .. Len(v) /\ ~ (m + k <= m) /\ (m + k) - m = k
      BY <2>2, <2>3
    <3> QED BY <3>1
  <2>8. block2 \in [1 .. Len(v) -> 1 .. n + 1] /\ pos2 \in [1 .. Len(v) -> Nat]
    <3>1. \A k \in 1 .. Len(v) : block2[k] \in 1 .. n + 1 /\ pos2[k] \in Nat
      BY <2>5, <2>4
    <3> QED BY <3>1
  <2> HIDE DEF block2, pos2, u
  <2>9. ASSUME NEW k \in 1 .. Len(v)
        PROVE  pos2[k] \in 1 .. Len(ss[block2[k]]) /\ v[k] = ss[block2[k]][pos2[k]]
    <3>1. CASE k \in 1 .. m
      BY <2>4, <2>3, <2>6, <3>1
    <3>2. CASE k - m \in 1 .. Len(u) /\ m + (k - m) = k
      <4>1. block2[k] = n + 1 /\ pos2[k] = k - m /\ v[k] = u[k - m]
        BY <2>3, <2>7, <3>2
      <4> QED BY <3>2, <4>1 DEF u
    <3> QED BY <2>5, <3>1, <3>2
  <2>10. ASSUME NEW k \in 1 .. Len(v), NEW l \in 1 .. Len(v),
               block2[k] = block2[l], pos2[k] = pos2[l]
        PROVE  k = l
    <3>1. \A i \in 1 .. m : block[i] \in 1 .. n /\ block[i] # n + 1
      BY <2>4
    <3>2. CASE k \in 1 .. m /\ l \in 1 .. m
      BY <2>4, <2>6, <2>10, <3>2
    <3>3. CASE k - m \in 1 .. Len(u) /\ m + (k - m) = k /\ l - m \in 1 .. Len(u) /\ m + (l - m) = l
      <4>1. pos2[k] = k - m /\ pos2[l] = l - m
        BY <2>7, <3>3
      <4> QED BY <2>10, <3>3, <4>1
    <3>4. CASE k \in 1 .. m /\ l - m \in 1 .. Len(u) /\ m + (l - m) = l
      BY <2>6, <2>7, <2>10, <3>1, <3>4
    <3>5. CASE l \in 1 .. m /\ k - m \in 1 .. Len(u) /\ m + (k - m) = k
      BY <2>6, <2>7, <2>10, <3>1, <3>5
    <3> QED BY <2>5, <3>2, <3>3, <3>4, <3>5
  <2>11. ASSUME NEW i \in 1 .. n + 1, NEW j \in 1 .. Len(ss[i])
         PROVE  \E k \in 1 .. Len(v) : block2[k] = i /\ pos2[k] = j
    <3>1. CASE i \in 1 .. n
      <4>1. PICK k \in 1 .. m : block[k] = i /\ pos[k] = j
        BY <2>4, <3>1
      <4> QED BY <2>6, <4>1
    <3>2. CASE i = n + 1
      BY <2>7, <3>2 DEF u
    <3> QED BY <3>1, <3>2
  <2>12. Placed(v, n + 1)
    <3>1. Flattened(v, block2, pos2, ss, n + 1)
      BY <2>8, <2>9, <2>10, <2>11 DEF Flattened
    <3> QED BY <2>3, <3>1
  <2> QED BY <2>12 DEF v, u
<1>4. CASE ss = <<>>
  <2>1. FlattenSeq(ss) = <<>> /\ Len(ss) = 0
    BY <1>4 DEF FlattenSeq
  <2> HIDE DEF Placed
  <2>2. Placed(FlattenSeq(ss), Len(ss))
    BY <1>2, <2>1
  <2> QED BY <2>2 DEF Placed
<1>5. CASE ss # <<>>
  <2>1. PICK f : /\ FlattenSeq(ss) = f[Len(ss)]
                 /\ f = [i \in 1 .. Len(ss) |-> IF i = 1 THEN ss[i] ELSE f[i - 1] \o ss[i]]
    BY <1>5, FlattenUnfolds
  <2> DEFINE T == {n \in Nat : n + 1 <= Len(ss) => Placed(f[n + 1], n + 1)}
  <2> HIDE DEF Placed
  <2>2. 0 \in T
    <3>1. 1 \in 1 .. Len(ss) /\ 0 + 1 = 1
      BY <1>1, <1>5
    <3>2. f[1] = <<>> \o ss[1]
      BY <1>1, <2>1, <3>1
    <3>3. Placed(<<>> \o ss[0 + 1], 0 + 1)
      BY <1>2, <1>3, <3>1
    <3> QED BY <3>1, <3>2, <3>3
  <2>3. ASSUME NEW n \in T PROVE n + 1 \in T
    <3>1. n \in Nat /\ n + 1 \in Nat /\ (n + 1) + 1 \in Nat /\ ((n + 1) + 1) - 1 = n + 1
          /\ (n + 1) + 1 # 1
      OBVIOUS
    <3> SUFFICES ASSUME (n + 1) + 1 <= Len(ss) PROVE Placed(f[(n + 1) + 1], (n + 1) + 1)
      BY <3>1
    <3>2. (n + 1) + 1 \in 1 .. Len(ss) /\ n + 1 <= Len(ss)
      BY <1>1, <3>1
    <3>3. f[(n + 1) + 1] = f[n + 1] \o ss[(n + 1) + 1]
      BY <2>1, <3>1, <3>2
    <3>4. Placed(f[n + 1], n + 1)
      BY <3>2
    <3> QED BY <1>3, <3>1, <3>2, <3>3, <3>4
  <2>4. Len(ss) - 1 \in T /\ (Len(ss) - 1) + 1 = Len(ss)
    <3>1. T \subseteq Nat
      OBVIOUS
    <3>2. Len(ss) - 1 \in Nat /\ (Len(ss) - 1) + 1 = Len(ss)
      BY <1>1, <1>5
    <3> HIDE DEF T
    <3>3. T = Nat
      BY <2>2, <2>3, <3>1, SetInduction
    <3> QED BY <3>2, <3>3
  <2>5. Placed(f[Len(ss)], Len(ss))
    BY <1>1, <2>4
  <2>6. Placed(FlattenSeq(ss), Len(ss))
    BY <2>1, <2>5
  <2> QED BY <2>6 DEF Placed
<1> QED BY <1>4, <1>5

-----------------------------------------------------------------------------
(***************************************************************************)
(* Sums over finite sets.                                                  *)
(***************************************************************************)

\* Induction over the subsets of a finite set, for a property given as a set.
LEMMA SubsetInduction ==
    ASSUME NEW S, IsFiniteSet(S), NEW P \in SUBSET (SUBSET S), {} \in P,
           \A s \in SUBSET S : s # {} /\ (\A x \in s : s \ {x} \in P) => s \in P
    PROVE  P = SUBSET S
<1>1. \A s \in SUBSET S : IsFiniteSet(s) /\ Cardinality(s) \in Nat
  BY FS_Subset, FS_CardinalityType
<1> DEFINE T == {n \in Nat : \A s \in SUBSET S : Cardinality(s) = n => s \in P}
<1>2. 0 \in T
  <2>1. \A s \in SUBSET S : Cardinality(s) = 0 => s = {}
    BY <1>1, FS_EmptySet
  <2> QED BY <2>1
<1>3. ASSUME NEW n \in T PROVE n + 1 \in T
  <2>1. n \in Nat /\ n + 1 \in Nat /\ n + 1 # 0
    OBVIOUS
  <2>2. ASSUME NEW s \in SUBSET S, Cardinality(s) = n + 1 PROVE s \in P
    <3>1. s # {}
      BY <2>1, <2>2, FS_EmptySet
    <3>2. ASSUME NEW x \in s PROVE s \ {x} \in P
      <4>1. Cardinality(s \ {x}) = (n + 1) - 1 /\ s \ {x} \in SUBSET S
        BY <1>1, <2>2, FS_RemoveElement
      <4>2. Cardinality(s \ {x}) = n
        BY <2>1, <4>1
      <4> QED BY <4>1, <4>2
    <3> QED BY <3>1, <3>2
  <2> QED BY <2>1, <2>2
<1>4. T = Nat
  <2>1. T \in SUBSET Nat
    OBVIOUS
  <2> HIDE DEF T
  <2> QED BY <1>2, <1>3, <2>1, SetInduction
<1>5. \A s \in SUBSET S : s \in P
  BY <1>1, <1>4
<1> QED BY <1>5

\* g has the sums of f over the subsets of S.
SumTable(g, f, S) ==
    g = [s \in SUBSET S |-> IF s = {} THEN 0
                            ELSE f[CHOOSE x \in s : TRUE] + g[s \ {CHOOSE x \in s : TRUE}]]

\* The library's sum over a set is the value of a table of the sums over its subsets.
LEMMA SumUnfolds ==
    ASSUME NEW f, NEW S, IsFiniteSet(S)
    PROVE  \E g : SumFunctionOnSet(f, S) = g[S] /\ SumTable(g, f, S)
<1> DEFINE Upto(n) == {s \in SUBSET S : Cardinality(s) <= n}
           c(s) == CHOOSE x \in s : TRUE
           Table(g, n) == g = [s \in Upto(n) |-> IF s = {} THEN 0 ELSE f[c(s)] + g[s \ {c(s)}]]
           T == {n \in Nat : \E g : Table(g, n)}
<1>1. \A s \in SUBSET S : IsFiniteSet(s) /\ Cardinality(s) \in Nat
  BY FS_Subset, FS_CardinalityType
<1>2. 0 \in T
  <2>1. \A s \in Upto(0) : s = {}
    BY <1>1, FS_EmptySet
  <2>2. Table([s \in Upto(0) |-> 0], 0)
    BY <2>1
  <2> QED BY <2>2
<1>3. ASSUME NEW n \in T PROVE n + 1 \in T
  <2>1. n \in Nat /\ n + 1 \in Nat
    OBVIOUS
  <2>2. PICK g : Table(g, n)
    OBVIOUS
  <2> DEFINE h == [s \in Upto(n + 1) |->
                     IF s \in Upto(n) THEN g[s] ELSE f[c(s)] + g[s \ {c(s)}]]
  <2>3. \A s \in Upto(n) : s \in Upto(n + 1)
    BY <1>1, <2>1
  <2>4. ASSUME NEW s \in Upto(n + 1), s # {}
        PROVE  s \ {c(s)} \in Upto(n)
    <3>1. c(s) \in s
      BY <2>4
    <3> DEFINE x == c(s)
    <3> HIDE DEF x
    <3>2. Cardinality(s \ {x}) = Cardinality(s) - 1
      BY <1>1, <3>1, FS_RemoveElement DEF x
    <3>3. Cardinality(s) <= n + 1 /\ Cardinality(s) \in Nat
      BY <1>1
    <3>4. Cardinality(s \ {x}) <= n /\ s \ {x} \in SUBSET S
      BY <2>1, <3>2, <3>3
    <3> QED BY <3>4 DEF x
  <2>5. {} \in Upto(n)
    BY <2>1, FS_EmptySet
  <2>6. ASSUME NEW s \in Upto(n + 1)
        PROVE  h[s] = IF s = {} THEN 0 ELSE f[c(s)] + h[s \ {c(s)}]
    <3>1. CASE s = {}
      <4>1. g[s] = 0
        BY <2>2, <2>5, <3>1
      <4> QED BY <2>5, <3>1, <4>1
    <3>2. CASE s # {}
      <4>1. h[s \ {c(s)}] = g[s \ {c(s)}]
        BY <2>3, <2>4, <3>2
      <4>2. CASE s \in Upto(n)
        <5>1. g[s] = f[c(s)] + g[s \ {c(s)}]
          BY <2>2, <3>2, <4>2
        <5>2. h[s] = g[s]
          BY <4>2
        <5> HIDE DEF h, c, Upto
        <5> QED BY <3>2, <4>1, <5>1, <5>2
      <4>3. CASE s \notin Upto(n)
        <5>1. h[s] = f[c(s)] + g[s \ {c(s)}]
          BY <4>3
        <5> HIDE DEF h, c, Upto
        <5> QED BY <3>2, <4>1, <5>1
      <4> QED BY <4>2, <4>3
    <3> QED BY <3>1, <3>2
  <2>7. h = [s \in Upto(n + 1) |-> h[s]]
    OBVIOUS
  <2> HIDE DEF h, c, Upto
  <2>8. Table(h, n + 1)
    BY <2>6, <2>7
  <2> HIDE DEF Table
  <2> QED BY <2>1, <2>8
<1>4. T = Nat
  <2>1. T \in SUBSET Nat
    OBVIOUS
  <2> HIDE DEF T
  <2> QED BY <1>2, <1>3, <2>1, SetInduction
<1>5. Upto(Cardinality(S)) = SUBSET S
  BY <1>1, FS_Subset
<1>6. \E g : SumTable(g, f, S)
  <2>1. Cardinality(S) \in T
    BY <1>1, <1>4
  <2>2. PICK g : Table(g, Cardinality(S))
    BY <2>1
  <2>3. SumTable(g, f, S)
    <3> HIDE DEF Upto
    <3> QED BY <1>5, <2>2 DEF SumTable
  <2> QED BY <2>3
<1> DEFINE g == CHOOSE t : SumTable(t, f, S)
<1>7. SumFunctionOnSet(f, S) = g[S]
  BY DEF SumFunctionOnSet, FoldFunctionOnSet, MapThenFoldSet, SumTable
<1>8. SumTable(g, f, S)
  BY <1>6
<1> HIDE DEF g
<1> QED BY <1>7, <1>8

\* Sums of natural numbers are natural numbers.
LEMMA SumIsANumber ==
    ASSUME NEW S, IsFiniteSet(S), NEW f \in [S -> Nat], NEW g, SumTable(g, f, S)
    PROVE  \A s \in SUBSET S : g[s] \in Nat
<1> DEFINE P == {s \in SUBSET S : g[s] \in Nat}
<1>1. {} \in P
  BY DEF SumTable
<1>2. ASSUME NEW s \in SUBSET S, s # {}, \A x \in s : s \ {x} \in P PROVE s \in P
  <2> DEFINE x == CHOOSE y \in s : TRUE
  <2>1. x \in s
    BY <1>2
  <2>2. g[s] = f[x] + g[s \ {x}]
    BY <1>2 DEF SumTable
  <2> HIDE DEF x
  <2>3. g[s \ {x}] \in Nat /\ f[x] \in Nat
    BY <1>2, <2>1
  <2> QED BY <2>2, <2>3
<1>3. P \in SUBSET (SUBSET S)
  OBVIOUS
<1>4. P = SUBSET S
  <2> HIDE DEF P
  <2> QED BY <1>1, <1>2, <1>3, SubsetInduction
<1> QED BY <1>4

\* Any element may be added last.
LEMMA SumInAnyOrder ==
    ASSUME NEW S, IsFiniteSet(S), NEW f \in [S -> Nat], NEW g, SumTable(g, f, S)
    PROVE  \A s \in SUBSET S : \A x \in s : g[s] = f[x] + g[s \ {x}]
<1> DEFINE P == {s \in SUBSET S : \A x \in s : g[s] = f[x] + g[s \ {x}]}
<1>1. {} \in P
  OBVIOUS
<1>2. ASSUME NEW s \in SUBSET S, s # {}, \A x \in s : s \ {x} \in P PROVE s \in P
  <2> DEFINE c == CHOOSE y \in s : TRUE
  <2>1. c \in s
    BY <1>2
  <2>2. g[s] = f[c] + g[s \ {c}]
    BY <1>2 DEF SumTable
  <2> HIDE DEF c
  <2>3. ASSUME NEW x \in s, x # c PROVE g[s] = f[x] + g[s \ {x}]
    <3>1. x \in s \ {c} /\ c \in s \ {x}
      BY <2>1, <2>3
    <3>2. s \ {c} \in P /\ s \ {x} \in P
      BY <1>2, <2>1
    <3>3. g[s \ {c}] = f[x] + g[(s \ {c}) \ {x}]
      BY <3>1, <3>2
    <3>4. g[s \ {x}] = f[c] + g[(s \ {x}) \ {c}]
      BY <3>1, <3>2
    <3>5. (s \ {x}) \ {c} = (s \ {c}) \ {x}
      OBVIOUS
    <3> DEFINE r == (s \ {c}) \ {x}
    <3>6. r \in SUBSET S
      OBVIOUS
    <3>7. g[s \ {c}] = f[x] + g[r] /\ g[s \ {x}] = f[c] + g[r]
      BY <3>3, <3>4, <3>5
    <3> HIDE DEF r
    <3>8. g[r] \in Nat /\ f[x] \in Nat /\ f[c] \in Nat
      BY <2>1, <3>6, SumIsANumber
    <3> DEFINE a == g[s \ {c}]
               b == g[s \ {x}]
    <3>9. g[s] = f[c] + a /\ a = f[x] + g[r] /\ b = f[c] + g[r]
      BY <2>2, <3>7
    <3>10. g[s] = f[x] + b
      <4> HIDE DEF a, b
      <4> QED BY <3>8, <3>9
    <3> QED BY <3>10
  <2> QED BY <2>2, <2>3
<1>3. P \in SUBSET (SUBSET S)
  OBVIOUS
<1>4. P = SUBSET S
  <2> HIDE DEF P
  <2> QED BY <1>1, <1>2, <1>3, SubsetInduction
<1> QED BY <1>4

\* Functions that agree on a set have the same sum there.
LEMMA SumOfTheSame ==
    ASSUME NEW S, IsFiniteSet(S), NEW f \in [S -> Nat], NEW g, SumTable(g, f, S),
           NEW S2, IsFiniteSet(S2), NEW f2 \in [S2 -> Nat], NEW g2, SumTable(g2, f2, S2),
           NEW R \in (SUBSET S) \cap SUBSET S2, \A x \in R : f[x] = f2[x]
    PROVE  g[R] = g2[R]
<1> DEFINE P == {s \in SUBSET R : g[s] = g2[s]}
<1>1. {} \in P
  BY DEF SumTable
<1>2. ASSUME NEW s \in SUBSET R, s # {}, \A x \in s : s \ {x} \in P PROVE s \in P
  <2>1. PICK x \in s : TRUE
    BY <1>2
  <2>2. s \in SUBSET S /\ s \in SUBSET S2
    OBVIOUS
  <2>3. g[s] = f[x] + g[s \ {x}] /\ g2[s] = f2[x] + g2[s \ {x}]
    <3>1. g[s] = f[x] + g[s \ {x}]
      BY <2>2, SumInAnyOrder
    <3>2. g2[s] = f2[x] + g2[s \ {x}]
      BY <2>2, SumInAnyOrder
    <3> QED BY <3>1, <3>2
  <2>4. g[s \ {x}] = g2[s \ {x}] /\ f[x] = f2[x]
    BY <1>2
  <2> QED BY <2>3, <2>4
<1>3. P \in SUBSET (SUBSET R) /\ IsFiniteSet(R)
  BY FS_Subset
<1>4. P = SUBSET R
  <2> HIDE DEF P
  <2> QED BY <1>1, <1>2, <1>3, SubsetInduction
<1> QED BY <1>4
=============================================================================
