------------------------ MODULE CardListPanel_proofs ------------------------
(***************************************************************************)
(* Theorems about CardListPanel, for any cards, ids, columns' texts and    *)
(* numbers of troubles.                                                    *)
(***************************************************************************)
EXTENDS CardListPanel, TLAPS

-----------------------------------------------------------------------------
(***************************************************************************)
(* What the rows are made of.  No two rows have the same id, through       *)
(* filters, sorts and reloads.                                             *)
(***************************************************************************)
Distinct(s) == \A i, j \in DOMAIN s : s[i].id = s[j].id => i = j

\* A record has an id and a text, and is none of the sentinels.
LEMMA CardsHaveFields ==
    ASSUME NEW c \in Cards
    PROVE  /\ c.id \in Ids /\ c.name \in Texts /\ c.set \in Texts /\ c # NoCard
           /\ \A col \in Columns : c[col] \in Texts
<1>1. PICK i \in Ids, print \in Prints : c = Record(i, print)
  BY DEF Cards
<1>2. print[1] \in Texts /\ print[2] \in Texts
  BY ListAssumption DEF Texts
<1>3. c = [id |-> i, name |-> print[1], set |-> print[2]]
  BY <1>1 DEF Record
<1>4. c \in [id : 0 .. MaxId, name : 1 .. MaxText, set : 1 .. MaxText]
  BY <1>2, <1>3 DEF Ids, Texts
<1>5. c # NoCard
  BY <1>4, ListAssumption
<1> QED BY <1>2, <1>3, <1>5 DEF Columns

\* t holds the elements of s that are in S.
Copied(t, s, S) ==
    /\ \A i \in 1 .. Len(t) : t[i] \in S /\ \E k \in 1 .. Len(s) : t[i] = s[k]
    /\ \A k \in 1 .. Len(s) : s[k] \in S => \E i \in 1 .. Len(t) : t[i] = s[k]

\* A filtered list of distinct cards.
LEMMA KeepInDistinct ==
    ASSUME NEW s \in Seq(Cards), Distinct(s), NEW S
    PROVE  KeepIn(s, S) \in Seq(Cards) /\ Distinct(KeepIn(s, S)) /\ Copied(KeepIn(s, S), s, S)
<1> DEFINE t == KeepIn(s, S)
<1>1. t \in Seq(Cards)
  BY KeptInOrder
<1>2. PICK from : Picked(t, from, s, S)
  BY KeptInOrder
<1> HIDE DEF t
<1>3. DOMAIN s = 1 .. Len(s) /\ DOMAIN t = 1 .. Len(t) /\ Len(t) \in Nat /\ Len(s) \in Nat
  BY <1>1
<1>4. Distinct(t)
  <2> SUFFICES ASSUME NEW i \in 1 .. Len(t), NEW j \in 1 .. Len(t), t[i].id = t[j].id
               PROVE  i = j
    BY <1>3 DEF Distinct
  <2>1. from[i] = from[j]
    BY <1>2, <1>3 DEF Distinct, Picked
  <2>2. ~ (i < j)
    <3>1. from[i] \in Nat /\ ~ (from[i] < from[j])
      BY <1>2, <1>3, <2>1 DEF Picked
    <3> QED BY <1>2, <3>1 DEF Picked
  <2>3. ~ (j < i)
    <3>1. from[i] \in Nat /\ ~ (from[j] < from[i])
      BY <1>2, <1>3, <2>1 DEF Picked
    <3> QED BY <1>2, <3>1 DEF Picked
  <2> QED BY <1>3, <2>2, <2>3
<1>5. Copied(t, s, S)
  BY <1>2 DEF Copied, Picked
<1> QED BY <1>1, <1>4, <1>5 DEF t

\* The elements of a list, by their positions.
LEMMA SetOfSeq ==
    ASSUME NEW s \in Seq(Cards)
    PROVE  /\ DOMAIN s = 1 .. Len(s) /\ Len(s) \in Nat
           /\ ToSet(s) = {s[i] : i \in 1 .. Len(s)} /\ ToSet(s) \subseteq Cards
           /\ IdsOf(s) = {s[i].id : i \in 1 .. Len(s)}
           /\ IdsOf(s) = {c.id : c \in ToSet(s)} /\ IdsOf(s) \subseteq Ids
           /\ \A i \in 1 .. Len(s) : s[i] \in Cards /\ s[i].id \in Ids
           /\ (s = <<>> <=> Len(s) = 0)
<1>1. DOMAIN s = 1 .. Len(s) /\ Len(s) \in Nat /\ \A i \in 1 .. Len(s) : s[i] \in Cards
  OBVIOUS
<1>2. \A i \in 1 .. Len(s) : s[i].id \in Ids
  BY <1>1, CardsHaveFields
<1>3. s = <<>> <=> Len(s) = 0
  OBVIOUS
<1> QED BY <1>1, <1>2, <1>3 DEF ToSet, IdsOf

\* filteredIndices_: the cards that match.
LEMMA RowsAreTheMatches ==
    ASSUME NEW s \in Seq(Cards), Distinct(s), NEW f
    PROVE  /\ Rows(s, f) \in Seq(Cards) /\ Distinct(Rows(s, f))
           /\ ToSet(Rows(s, f)) = {c \in ToSet(s) : Matches(c, f)}
           /\ IdsOf(Rows(s, f)) \subseteq IdsOf(s)
<1> DEFINE S == {c \in Cards : Matches(c, f)}
           t == KeepIn(s, S)
<1>1. t \in Seq(Cards) /\ Distinct(t) /\ Copied(t, s, S)
  BY KeepInDistinct
<1>2. Rows(s, f) = t
  BY DEF Rows
<1> HIDE DEF t
<1>3. ToSet(t) = {c \in ToSet(s) : Matches(c, f)}
  <2>1. \A c \in ToSet(t) : c \in ToSet(s) /\ Matches(c, f)
    BY <1>1, SetOfSeq DEF Copied
  <2>2. ASSUME NEW c \in ToSet(s), Matches(c, f) PROVE c \in ToSet(t)
    <3>1. PICK k \in 1 .. Len(s) : s[k] = c /\ c \in S
      BY <2>2, SetOfSeq
    <3>2. PICK i \in 1 .. Len(t) : t[i] = c
      BY <1>1, <3>1 DEF Copied
    <3> QED BY <1>1, <3>2, SetOfSeq
  <2> QED BY <2>1, <2>2
<1>4. IdsOf(t) \subseteq IdsOf(s)
  BY <1>1, <1>3, SetOfSeq
<1> QED BY <1>1, <1>2, <1>3, <1>4

\* sortBy loses no card and repeats none.
LEMMA SortedIsTheSame ==
    ASSUME NEW s \in Seq(Cards), Distinct(s),
           NEW sort \in [column : Columns, ascending : BOOLEAN] \cup {Unsorted}
    PROVE  SortBy(s, sort) \in Seq(Cards) /\ Distinct(SortBy(s, sort))
           /\ ToSet(SortBy(s, sort)) = ToSet(s)
<1>1. CASE sort = Unsorted
  BY <1>1 DEF SortBy
<1>2. CASE sort # Unsorted
  <2> DEFINE Kept(n) == KeepIn(s, Bucket(sort, n))
             ss == [n \in Texts |-> Kept(n)]
             t == FlattenSeq(ss)
  <2>1. MaxText \in Nat /\ sort.column \in Columns /\ sort.ascending \in BOOLEAN
    BY <1>2, ListAssumption
  <2>2. \A n \in Texts :
          Kept(n) \in Seq(Cards) /\ Distinct(Kept(n)) /\ Copied(Kept(n), s, Bucket(sort, n))
    BY KeepInDistinct
  <2> HIDE DEF Kept
  <2>3. ss \in Seq(Seq(Cards)) /\ Len(ss) = MaxText /\ \A n \in Texts : ss[n] = Kept(n)
    <3>1. ss \in [1 .. MaxText -> Seq(Cards)]
      BY <2>2 DEF Texts
    <3> QED BY <2>1, <3>1
  <2>4. SortBy(s, sort) = t
    BY <1>2 DEF SortBy, Kept
  <2> HIDE DEF ss
  <2>5. t \in Seq(Cards)
    BY <2>3, FlattenedOnce
  <2>6. PICK block, pos : Flattened(t, block, pos, ss, Len(ss))
    BY <2>3, FlattenedOnce
  <2> HIDE DEF t
  <2>7. \A k \in 1 .. Len(t) :
           /\ block[k] \in Texts /\ pos[k] \in 1 .. Len(Kept(block[k]))
           /\ t[k] = Kept(block[k])[pos[k]]
    BY <2>3, <2>6 DEF Flattened, Texts
  <2>8. \A c \in Cards : c.name \in Texts /\ c.set \in Texts /\ c[sort.column] \in Texts
    BY <2>1, CardsHaveFields
  <2>9. \A m, n \in Texts : \A c \in Bucket(sort, m) \cap Bucket(sort, n) : m = n
    BY <2>1, <2>8 DEF Bucket, Texts
  <2>10. \A c \in Cards : \E n \in Texts : c \in Bucket(sort, n)
    <3> TAKE c \in Cards
    <3> DEFINE n == IF sort.ascending THEN c[sort.column] ELSE MaxText + 1 - c[sort.column]
    <3>1. n \in Texts /\ c[sort.column] = IF sort.ascending THEN n ELSE MaxText + 1 - n
      BY <2>1, <2>8 DEF Texts
    <3> HIDE DEF n
    <3> QED BY <3>1 DEF Bucket
  <2>11. DOMAIN t = 1 .. Len(t) /\ DOMAIN s = 1 .. Len(s)
    BY <2>5
  <2>15. \A k \in 1 .. Len(t) : t[k] \in Bucket(sort, block[k])
                               /\ \E a \in 1 .. Len(s) : t[k] = s[a]
    <3> TAKE k \in 1 .. Len(t)
    <3>1. Copied(Kept(block[k]), s, Bucket(sort, block[k]))
      BY <2>2, <2>7
    <3>2. pos[k] \in 1 .. Len(Kept(block[k])) /\ t[k] = Kept(block[k])[pos[k]]
      BY <2>7
    <3> QED BY <3>1, <3>2 DEF Copied
  <2>12. Distinct(t)
    <3> SUFFICES ASSUME NEW k \in 1 .. Len(t), NEW l \in 1 .. Len(t), t[k].id = t[l].id
                 PROVE  k = l
      BY <2>11 DEF Distinct
    <3>1. PICK a \in 1 .. Len(s) : t[k] = s[a]
      BY <2>15
    <3>2. PICK b \in 1 .. Len(s) : t[l] = s[b]
      BY <2>15
    <3>3. a = b /\ t[k] = t[l]
      <4>1. s[a].id = s[b].id
        BY <3>1, <3>2
      <4> QED BY <2>11, <3>1, <3>2, <4>1 DEF Distinct
    <3>4. t[k] \in Bucket(sort, block[k]) /\ t[l] \in Bucket(sort, block[l])
      BY <2>15
    <3>5. block[k] = block[l]
      BY <2>7, <2>9, <3>3, <3>4
    <3>6. Kept(block[k]) \in Seq(Cards) /\ Distinct(Kept(block[k]))
      BY <2>2, <2>7
    <3>7. pos[k] = pos[l]
      <4> DEFINE q == Kept(block[k])
      <4>1. pos[k] \in 1 .. Len(q) /\ pos[l] \in 1 .. Len(q) /\ q[pos[k]].id = q[pos[l]].id
        BY <2>7, <3>3, <3>5
      <4>2. DOMAIN q = 1 .. Len(q) /\ Distinct(q)
        BY <3>6
      <4> HIDE DEF q
      <4> QED BY <4>1, <4>2 DEF Distinct
    <3> QED BY <2>6, <3>5, <3>7 DEF Flattened
  <2>13. ToSet(t) \subseteq ToSet(s)
    BY <2>5, <2>15, SetOfSeq
  <2>14. ASSUME NEW c \in ToSet(s) PROVE c \in ToSet(t)
    <3>1. PICK k \in 1 .. Len(s) : c = s[k] /\ c \in Cards
      BY SetOfSeq
    <3>2. PICK n \in Texts : c \in Bucket(sort, n)
      BY <2>10, <3>1
    <3>3. PICK i \in 1 .. Len(Kept(n)) : Kept(n)[i] = c
      BY <2>2, <3>1, <3>2 DEF Copied
    <3>4. n \in 1 .. Len(ss) /\ i \in 1 .. Len(ss[n])
      BY <2>3, <3>3 DEF Texts
    <3>5. PICK l \in 1 .. Len(t) : block[l] = n /\ pos[l] = i
      BY <2>6, <3>4 DEF Flattened
    <3> QED BY <2>5, <2>7, <3>3, <3>5, SetOfSeq
  <2> QED BY <2>4, <2>5, <2>12, <2>13, <2>14
<1> QED BY <1>1, <1>2

\* CollectionService::list: each record once.
LEMMA ListIsTheCollection ==
    ASSUME NEW c \in Collections
    PROVE  List(c) \in Seq(Cards) /\ Distinct(List(c))
           /\ ToSet(List(c)) = {c[i] : i \in {j \in Ids : c[j] # NoCard}}
           /\ IdsOf(List(c)) = {i \in Ids : c[i] # NoCard}
<1> DEFINE s == [n \in 1 .. MaxId + 1 |-> c[n - 1]]
           X == Cards \cup {NoCard}
           t == KeepIn(s, Cards)
<1>1. /\ MaxId \in Nat /\ c \in [Ids -> X] /\ \A i \in Ids : c[i] # NoCard => c[i].id = i
      /\ NoCard \notin Cards
  BY ListAssumption, CardsHaveFields DEF Collections
<1>2. \A n \in 1 .. MaxId + 1 : n - 1 \in Ids /\ n \in Nat
  BY <1>1 DEF Ids
<1>3. \A i \in Ids : i + 1 \in 1 .. MaxId + 1 /\ (i + 1) - 1 = i
  BY <1>1 DEF Ids
<1>4. s \in Seq(X) /\ Len(s) = MaxId + 1
  <2>1. s \in [1 .. MaxId + 1 -> X]
    BY <1>1, <1>2
  <2> QED BY <1>1, <2>1
<1>5. (\A n \in 1 .. MaxId + 1 : s[n] = c[n - 1]) /\ \A i \in Ids : s[i + 1] = c[i]
  BY <1>3
<1> HIDE DEF s, X
<1>6. t \in Seq(X)
  BY <1>4, KeptInOrder
<1>7. PICK from : Picked(t, from, s, Cards)
  BY <1>4, KeptInOrder
<1>8. List(c) = t
  BY DEF List, s
<1> HIDE DEF t
<1>9. t \in Seq(Cards) /\ DOMAIN t = 1 .. Len(t) /\ Len(t) \in Nat
  <2>1. \A i \in 1 .. Len(t) : t[i] \in Cards
    BY <1>7 DEF Picked
  <2> QED BY <1>6, <2>1
<1>10. \A i \in 1 .. Len(t) : /\ from[i] \in Nat /\ from[i] - 1 \in Ids
                              /\ t[i] = c[from[i] - 1] /\ t[i].id = from[i] - 1 /\ t[i] \in Cards
  <2> TAKE i \in 1 .. Len(t)
  <2>1. from[i] \in 1 .. MaxId + 1
    BY <1>4, <1>7 DEF Picked
  <2>2. from[i] \in Nat /\ from[i] - 1 \in Ids /\ t[i] = c[from[i] - 1] /\ t[i] \in Cards
    BY <1>2, <1>5, <1>7, <2>1 DEF Picked
  <2> QED BY <1>1, <2>2
<1>11. Distinct(t)
  <2> SUFFICES ASSUME NEW i \in 1 .. Len(t), NEW j \in 1 .. Len(t), t[i].id = t[j].id
               PROVE  i = j
    BY <1>9 DEF Distinct
  <2>1. from[i] \in Nat /\ from[j] \in Nat /\ from[i] - 1 = from[j] - 1
    BY <1>10
  <2>2. from[i] = from[j] /\ ~ (from[i] < from[j]) /\ ~ (from[j] < from[i])
    BY <2>1
  <2>3. ~ (i < j) /\ ~ (j < i)
    BY <1>7, <2>2 DEF Picked
  <2> QED BY <1>9, <2>3
<1>12. ASSUME NEW i \in Ids, c[i] # NoCard PROVE c[i] \in ToSet(t)
  <2>1. c[i] \in Cards /\ s[i + 1] = c[i] /\ i + 1 \in 1 .. Len(s)
    BY <1>1, <1>3, <1>4, <1>5, <1>12 DEF X
  <2>2. PICK k \in 1 .. Len(t) : from[k] = i + 1
    BY <1>7, <2>1 DEF Picked
  <2> QED BY <1>7, <1>9, <2>1, <2>2, SetOfSeq DEF Picked
<1>13. ToSet(t) = {c[i] : i \in {j \in Ids : c[j] # NoCard}}
  <2>1. \A x \in ToSet(t) : x \in {c[i] : i \in {j \in Ids : c[j] # NoCard}}
    BY <1>1, <1>9, <1>10, SetOfSeq
  <2> QED BY <1>12, <2>1
<1>14. IdsOf(t) = {i \in Ids : c[i] # NoCard}
  <2>1. IdsOf(t) = {x.id : x \in ToSet(t)}
    BY <1>9, SetOfSeq
  <2> QED BY <1>1, <1>13, <2>1
<1> QED BY <1>8, <1>9, <1>11, <1>13, <1>14

-----------------------------------------------------------------------------
(***************************************************************************)
(* The first selected row.                                                 *)
(***************************************************************************)
FirstAt(rows, sel, i) ==
    /\ i \in 1 .. Len(rows) /\ rows[i].id \in sel
    /\ \A j \in 1 .. i - 1 : rows[j].id \notin sel

\* There is one, when a row is selected.
LEMMA FirstRow ==
    ASSUME NEW rows \in Seq(Cards), NEW sel, sel \cap IdsOf(rows) # {}
    PROVE  \E i \in 1 .. Len(rows) : FirstAt(rows, sel, i)
<1> DEFINE S == {i \in 1 .. Len(rows) : rows[i].id \in sel}
<1>1. S # {} /\ Len(rows) \in Nat
  BY SetOfSeq
<1>2. S \in SUBSET (1 .. Len(rows))
  OBVIOUS
<1> HIDE DEF S
<1>3. PICK m \in S : \A i \in S : m <= i
  BY <1>1, <1>2, FirstPosition
<1>4. m \in 1 .. Len(rows) /\ rows[m].id \in sel
  BY <1>3 DEF S
<1>5. ASSUME NEW j \in 1 .. m - 1 PROVE rows[j].id \notin sel
  <2>1. j \in 1 .. Len(rows) /\ ~ (m <= j)
    BY <1>1, <1>4
  <2> QED BY <1>3, <2>1 DEF S
<1> QED BY <1>4, <1>5 DEF FirstAt

\* And only one.
LEMMA OneFirstRow ==
    ASSUME NEW rows \in Seq(Cards), NEW sel, NEW i, NEW j,
           FirstAt(rows, sel, i), FirstAt(rows, sel, j)
    PROVE  i = j
<1>1. Len(rows) \in Nat /\ i \in Nat /\ j \in Nat /\ i >= 1 /\ j >= 1
  BY DEF FirstAt
<1>2. ~ (i < j) /\ ~ (j < i)
  BY <1>1 DEF FirstAt
<1> QED BY <1>1, <1>2

\* FirstSelected is that row's card.
LEMMA FirstSelectedIsFirst ==
    ASSUME NEW rows \in Seq(Cards), NEW sel
    PROVE  /\ sel \cap IdsOf(rows) = {} => FirstSelected(rows, sel) = NoCard
           /\ \A i : FirstAt(rows, sel, i) => FirstSelected(rows, sel) = rows[i]
           /\ FirstSelected(rows, sel) \in Cards \cup {NoCard}
<1>1. DOMAIN rows = 1 .. Len(rows)
  BY SetOfSeq
<1>2. ASSUME sel \cap IdsOf(rows) = {} PROVE FirstSelected(rows, sel) = NoCard
  BY <1>1, <1>2 DEF FirstSelected, IdsOf
<1>3. ASSUME NEW i, FirstAt(rows, sel, i) PROVE FirstSelected(rows, sel) = rows[i]
  <2> DEFINE First(k) == rows[k].id \in sel /\ \A j \in 1 .. k - 1 : rows[j].id \notin sel
             first == CHOOSE k \in DOMAIN rows : First(k)
  <2>1. i \in DOMAIN rows /\ First(i)
    BY <1>1, <1>3 DEF FirstAt
  <2>2. first \in DOMAIN rows /\ First(first)
    <3> HIDE DEF First
    <3> QED BY <2>1
  <2>3. FirstAt(rows, sel, first)
    BY <1>1, <2>2 DEF FirstAt
  <2>4. FirstSelected(rows, sel) = rows[first]
    BY <2>1 DEF FirstSelected
  <2> HIDE DEF first
  <2> QED BY <1>3, <2>3, <2>4, OneFirstRow
<1>4. CASE sel \cap IdsOf(rows) = {}
  BY <1>2, <1>3, <1>4
<1>5. CASE sel \cap IdsOf(rows) # {}
  <2>1. PICK i \in 1 .. Len(rows) : FirstAt(rows, sel, i)
    BY <1>5, FirstRow
  <2>2. FirstSelected(rows, sel) \in Cards
    BY <1>3, <2>1, SetOfSeq
  <2> QED BY <1>2, <1>3, <2>2
<1> QED BY <1>4, <1>5

\* With one row selected it is that row's card.
LEMMA OnlySelected ==
    ASSUME NEW rows \in Seq(Cards), Distinct(rows), NEW k \in 1 .. Len(rows)
    PROVE  FirstSelected(rows, {rows[k].id}) = rows[k]
<1>1. DOMAIN rows = 1 .. Len(rows) /\ Len(rows) \in Nat
  OBVIOUS
<1>2. ASSUME NEW j \in 1 .. k - 1 PROVE rows[j].id # rows[k].id
  <2>1. j \in 1 .. Len(rows) /\ j # k
    BY <1>1
  <2> QED BY <1>1, <2>1 DEF Distinct
<1>3. FirstAt(rows, {rows[k].id}, k)
  BY <1>2 DEF FirstAt
<1> QED BY <1>3, FirstSelectedIsFirst

-----------------------------------------------------------------------------
(***************************************************************************)
(* The inductive invariant.  The detail panel can only follow the list if  *)
(* every selected id is that of a visible row: an id that lingers in the   *)
(* selection is one a later rebuild would bring back without telling.      *)
(***************************************************************************)
IInv ==
    /\ TypeOK
    /\ Distinct(cards)
    /\ selected \subseteq IdsOf(Rows(cards, filter))
    /\ DetailFollowsTheList
    /\ TableShowsTheCollection

\* What any rebuild of the rows has to leave behind.
Rebuilt ==
    /\ cards' \in Seq(Cards) /\ Distinct(cards')
    /\ selected' \subseteq IdsOf(Rows(cards', filter')) /\ selected' \subseteq Ids
    /\ detail' \in Cards \cup {NoCard}
    /\ detail' = FirstSelected(Rows(cards', filter'), selected')

\* The ids that are kept over a rebuild, if there are any.
LEMMA NothingSelected ==
    ASSUME IInv
    PROVE  /\ KeepSelected = Unknown <=> selected = {}
           /\ selected = {} => detail = NoCard
           /\ Rows(cards, filter) \in Seq(Cards) /\ Distinct(Rows(cards, filter))
<1>1. selected # Unknown
  <2>1. selected \in SUBSET (0 .. MaxId)
    BY DEF IInv, TypeOK, Ids
  <2> QED BY <2>1, ListAssumption
<1>2. Rows(cards, filter) \in Seq(Cards) /\ Distinct(Rows(cards, filter))
  BY RowsAreTheMatches DEF IInv, TypeOK
<1>3. selected = {} => detail = NoCard
  BY <1>2, FirstSelectedIsFirst DEF IInv, DetailFollowsTheList
<1>4. KeepSelected = Unknown <=> selected = {}
  BY <1>1 DEF KeepSelected
<1> QED BY <1>2, <1>3, <1>4

\* rebuildRows with the selected ids: when there are none, nothing is told, and
\* nothing was displayed.
LEMMA RebuildKeeps ==
    ASSUME IInv, cards' \in Seq(Cards), Distinct(cards'), RebuildRows(KeepSelected)
    PROVE  Rebuilt /\ deferred' \in BOOLEAN
<1> DEFINE rows == Rows(cards', filter')
<1>1. rows \in Seq(Cards) /\ Distinct(rows)
  BY RowsAreTheMatches
<1>2. IdsOf(rows) \subseteq Ids
  BY <1>1, SetOfSeq
<1>3. selected' = (IF KeepSelected = Unknown THEN {} ELSE KeepSelected \cap IdsOf(rows))
  BY DEF RebuildRows
<1>4. IF KeepSelected = Unknown /\ rows # <<>>
      THEN deferred' = TRUE /\ UNCHANGED detail
      ELSE detail' = FirstSelected(rows, selected') /\ UNCHANGED deferred
  BY DEF RebuildRows
<1>5. deferred \in BOOLEAN
  BY DEF IInv, TypeOK
<1> HIDE DEF rows
<1>6. deferred' \in BOOLEAN
  BY <1>4, <1>5
<1>7. selected' \subseteq IdsOf(rows) /\ selected' \subseteq Ids
  BY <1>2, <1>3
<1>8. detail' = FirstSelected(rows, selected')
  <2>1. CASE KeepSelected = Unknown /\ rows # <<>>
    <3>1. detail' = NoCard
      BY <1>4, <2>1, NothingSelected
    <3>2. selected' \cap IdsOf(rows) = {}
      BY <1>3, <2>1
    <3> QED BY <1>1, <3>1, <3>2, FirstSelectedIsFirst
  <2>2. CASE ~ (KeepSelected = Unknown /\ rows # <<>>)
    BY <1>4, <2>2
  <2> QED BY <2>1, <2>2
<1>9. detail' \in Cards \cup {NoCard}
  BY <1>1, <1>8, FirstSelectedIsFirst
<1> QED BY <1>6, <1>7, <1>8, <1>9 DEF rows, Rebuilt

\* setCards and activateSelection, whatever the ids to keep.
LEMMA SetCardsKeeps ==
    ASSUME TypeOK, NEW incoming \in Seq(Cards), Distinct(incoming), NEW prefer,
           SetCards(incoming, prefer, filter')
    PROVE  Rebuilt /\ ToSet(cards') = ToSet(incoming)
<1> DEFINE keep == IF prefer # Unknown THEN prefer ELSE KeepAfterReload(IdsOf(incoming), filter')
           sorted == SortBy(incoming, activeSort)
           rows == Rows(sorted, filter')
           kept == IF keep = Unknown THEN {} ELSE keep \cap IdsOf(rows)
<1>1. /\ cards' = sorted
      /\ selected' = IF kept = {} /\ rows # <<>> THEN {rows[1].id} ELSE kept
      /\ detail' = FirstSelected(rows, selected')
  BY DEF SetCards
<1>2. sorted \in Seq(Cards) /\ Distinct(sorted) /\ ToSet(sorted) = ToSet(incoming)
  BY SortedIsTheSame DEF TypeOK
<1>3. rows = Rows(cards', filter')
  BY <1>1
<1> HIDE DEF sorted
<1>4. rows \in Seq(Cards) /\ Distinct(rows)
  BY <1>2, RowsAreTheMatches
<1> HIDE DEF keep, rows
<1>5. kept \subseteq IdsOf(rows) /\ (rows # <<>> => {rows[1].id} \subseteq IdsOf(rows))
      /\ IdsOf(rows) \subseteq Ids
  <2>1. rows # <<>> => 1 \in 1 .. Len(rows)
    BY <1>4
  <2> QED BY <1>4, <2>1, SetOfSeq
<1>6. selected' \subseteq IdsOf(rows)
  BY <1>1, <1>5
<1>7. detail' \in Cards \cup {NoCard}
  BY <1>1, <1>4, FirstSelectedIsFirst
<1> QED BY <1>1, <1>2, <1>3, <1>5, <1>6, <1>7 DEF Rebuilt

\* A collection with one record changed.
LEMMA RecordsMayChange ==
    ASSUME NEW c \in Collections, NEW i \in Ids, NEW print \in Prints
    PROVE  [c EXCEPT ![i] = Record(i, print)] \in Collections
<1>1. Record(i, print) \in Cards /\ Record(i, print).id = i
  BY DEF Cards, Record
<1> QED BY <1>1 DEF Collections

\* The table's sets, for a list of distinct cards.
LEMMA DistinctIsInjective ==
    ASSUME NEW s \in Seq(Cards), Distinct(s)
    PROVE  IsInjective(s)
BY DEF IsInjective, Distinct

\* A list that holds the stored records shows the collection.
LEMMA Reloaded ==
    ASSUME NEW c \in Collections, cards' \in Seq(Cards), Distinct(cards'),
           collection' = c, ToSet(cards') = ToSet(List(c))
    PROVE  TableShowsTheCollection'
<1>1. ToSet(cards') = {c[i] : i \in {j \in Ids : c[j] # NoCard}}
  BY ListIsTheCollection
<1>2. Stored' = {j \in Ids : c[j] # NoCard}
  BY DEF Stored
<1>3. IsInjective(cards')
  BY DistinctIsInjective
<1> QED BY <1>1, <1>2, <1>3 DEF TableShowsTheCollection

\* The bound on lists that are out of order.
LEMMA TroublesCounted ==
    ASSUME TypeOK, NEW n \in {0, 1, 2}, Troubles(n)
    PROVE  troubles' \in 0 .. MaxTroubles
BY ListAssumption DEF TypeOK, Troubles

\* Nothing of the table or of the detail panel has changed.
LEMMA StayedAsItWas ==
    ASSUME IInv, UNCHANGED <<cards, filter, selected, detail>>
    PROVE  Rebuilt
BY RowsAreTheMatches, SetOfSeq DEF IInv, TypeOK, Rebuilt, DetailFollowsTheList

\* refreshCollection, in a collection that an operation has changed.
LEMMA RefreshKeeps ==
    ASSUME IInv, collection' \in Collections, UNCHANGED <<filter, activeSort, nextDir>>,
           NEW prefer, NEW n \in {0, 1}, RefreshCollection(prefer, n)
    PROVE  IInv'
<1>1. n + 1 \in {0, 1, 2} /\ n \in {0, 1, 2}
  OBVIOUS
<1>2. CASE /\ Troubles(n)
           /\ SetCards(List(collection'), prefer, filter)
           /\ deferred' = (deferred \/ (prefer = Unknown /\ selected = {} /\ selected' # {}))
           /\ stale' = FALSE
  <2>1. List(collection') \in Seq(Cards) /\ Distinct(List(collection'))
    BY ListIsTheCollection
  <2>2. SetCards(List(collection'), prefer, filter')
    BY <1>2
  <2>3. Rebuilt /\ ToSet(cards') = ToSet(List(collection'))
    BY <2>1, <2>2, SetCardsKeeps DEF IInv
  <2>4. TableShowsTheCollection'
    BY <2>3, Reloaded DEF Rebuilt
  <2>5. troubles' \in 0 .. MaxTroubles
    BY <1>1, <1>2, TroublesCounted DEF IInv
  <2>6. deferred' \in BOOLEAN /\ stale' \in BOOLEAN
    BY <1>2
  <2>7. TypeOK'
    BY <2>3, <2>5, <2>6 DEF IInv, TypeOK, Rebuilt
  <2> QED BY <2>3, <2>4, <2>7 DEF IInv, Rebuilt, DetailFollowsTheList
<1>3. CASE /\ Troubles(n + 1)
           /\ stale' = TRUE
           /\ UNCHANGED <<cards, selected, detail, deferred>>
  <2>1. Rebuilt
    BY <1>3, StayedAsItWas
  <2>2. troubles' \in 0 .. MaxTroubles
    BY <1>1, <1>3, TroublesCounted DEF IInv
  <2>3. TypeOK'
    BY <1>3, <2>1, <2>2 DEF IInv, TypeOK, Rebuilt
  <2> QED BY <1>3, <2>1, <2>3 DEF IInv, Rebuilt, DetailFollowsTheList, TableShowsTheCollection
<1> QED BY <1>2, <1>3 DEF RefreshCollection

\* A handler that gives up.
LEMMA NothingDoneKeeps ==
    ASSUME IInv, UNCHANGED <<filter, activeSort, nextDir>>, NEW n \in {0, 1}, NothingDone(n)
    PROVE  IInv'
<1>1. Rebuilt
  BY StayedAsItWas DEF NothingDone
<1>2. troubles' \in 0 .. MaxTroubles
  BY TroublesCounted DEF NothingDone, IInv
<1>3. TypeOK'
  BY <1>1, <1>2 DEF IInv, TypeOK, Rebuilt, NothingDone
<1>4. TableShowsTheCollection'
  BY DEF IInv, NothingDone, TableShowsTheCollection, Stored
<1> QED BY <1>1, <1>3, <1>4 DEF IInv, Rebuilt, DetailFollowsTheList

\* A rebuild that reads nothing from the disk.
LEMMA RearrangedKeeps ==
    ASSUME IInv, Rebuilt, deferred' \in BOOLEAN, ToSet(cards') = ToSet(cards),
           filter' \in {0} \cup Texts,
           activeSort' \in [column : Columns, ascending : BOOLEAN] \cup {Unsorted},
           nextDir' \in [Columns -> BOOLEAN],
           UNCHANGED <<collection, stale, troubles>>
    PROVE  IInv'
<1>1. TypeOK'
  BY DEF IInv, TypeOK, Rebuilt
<1>2. TableShowsTheCollection'
  <2>1. IsInjective(cards')
    BY DistinctIsInjective DEF Rebuilt
  <2> QED BY <2>1 DEF IInv, TableShowsTheCollection, Stored
<1> QED BY <1>1, <1>2 DEF IInv, Rebuilt, DetailFollowsTheList

\* A selection made in the rows as they are.
LEMMA SelectedKeeps ==
    ASSUME IInv, deferred' \in BOOLEAN,
           selected' \subseteq IdsOf(Rows(cards, filter)),
           detail' = FirstSelected(Rows(cards, filter), selected'),
           UNCHANGED <<collection, cards, filter, activeSort, nextDir, stale, troubles>>
    PROVE  IInv'
<1>1. Rows(cards, filter) \in Seq(Cards) /\ Rows(cards', filter') = Rows(cards, filter)
  BY NothingSelected
<1>2. Rebuilt
  BY <1>1, SetOfSeq, FirstSelectedIsFirst DEF IInv, TypeOK, Rebuilt
<1> QED BY <1>2, RearrangedKeeps DEF IInv, TypeOK

-----------------------------------------------------------------------------
\* The invariant, at first.
LEMMA Initially == Init => IInv
<1> SUFFICES ASSUME Init PROVE IInv
  OBVIOUS
<1>1. cards \in Seq(Cards) /\ Distinct(cards)
  BY DEF Init, Distinct
<1>2. TypeOK
  <2>1. collection \in Collections /\ filter \in {0} \cup Texts /\ selected \subseteq Ids
        /\ detail \in Cards \cup {NoCard} /\ activeSort = Unsorted
    BY DEF Init
  <2>2. nextDir \in [Columns -> BOOLEAN] /\ deferred \in BOOLEAN /\ stale \in BOOLEAN
    BY DEF Init
  <2>3. troubles \in 0 .. MaxTroubles
    BY ListAssumption DEF Init
  <2> QED BY <1>1, <2>1, <2>2, <2>3 DEF TypeOK
<1>3. Rows(cards, filter) \in Seq(Cards)
  BY <1>1, RowsAreTheMatches
<1>4. DetailFollowsTheList
  BY <1>3, FirstSelectedIsFirst DEF Init, DetailFollowsTheList
<1> QED BY <1>1, <1>2, <1>4 DEF Init, IInv, TableShowsTheCollection

\* The invariant, for every step.
LEMMA Inductive == IInv /\ [Next]_vars => IInv'
<1> SUFFICES ASSUME IInv, [Next]_vars PROVE IInv'
  OBVIOUS
<1> DEFINE rows == Rows(cards, filter)
<1>1. /\ rows \in Seq(Cards) /\ Distinct(rows) /\ DOMAIN rows = 1 .. Len(rows) /\ Len(rows) \in Nat
      /\ cards \in Seq(Cards) /\ Distinct(cards) /\ deferred \in BOOLEAN
      /\ collection \in Collections
  BY NothingSelected, SetOfSeq DEF IInv, TypeOK
<1>2. ASSUME SelectFirstRow PROVE IInv'
  <2>1. CASE rows = <<>> \/ selected # {}
    BY <1>2, <2>1, SelectedKeeps DEF SelectFirstRow, IInv, DetailFollowsTheList
  <2>2. CASE ~ (rows = <<>> \/ selected # {})
    <3>1. 1 \in 1 .. Len(rows) /\ selected' = {rows[1].id} /\ detail' = rows[1]
      BY <1>1, <1>2, <2>2 DEF SelectFirstRow
    <3>2. detail' = FirstSelected(rows, selected') /\ selected' \subseteq IdsOf(rows)
      BY <1>1, <3>1, OnlySelected, SetOfSeq
    <3> QED BY <1>2, <3>2, SelectedKeeps DEF SelectFirstRow
  <2> QED BY <2>1, <2>2
<1>3. ASSUME NEW ids \in SUBSET Ids, Select(ids) PROVE IInv'
  BY <1>1, <1>3, SelectedKeeps DEF Select
<1>4. ASSUME NEW down \in BOOLEAN, NudgeSelection(down) PROVE IInv'
  <2> DEFINE At(i) == IF selected = {} THEN i = 1 ELSE rows[i] = FirstSelected(rows, selected)
             row  == CHOOSE i \in DOMAIN rows : At(i)
             next == IF down THEN (IF row = Len(rows) THEN row ELSE row + 1)
                     ELSE (IF row = 1 THEN row ELSE row - 1)
  <2>1. rows # <<>> /\ selected' = {rows[next].id} /\ detail' = rows[next]
        /\ UNCHANGED <<collection, cards, filter, activeSort, nextDir, deferred, stale, troubles>>
    BY <1>4 DEF NudgeSelection
  <2>2. \E i \in 1 .. Len(rows) : At(i)
    <3>1. CASE selected = {}
      BY <1>1, <2>1, <3>1
    <3>2. CASE selected # {}
      <4>1. selected \cap IdsOf(rows) # {}
        BY <3>2 DEF IInv
      <4>2. PICK i \in 1 .. Len(rows) : FirstAt(rows, selected, i)
        BY <1>1, <4>1, FirstRow
      <4> QED BY <1>1, <3>2, <4>2, FirstSelectedIsFirst
    <3> QED BY <3>1, <3>2
  <2> HIDE DEF At
  <2>3. row \in 1 .. Len(rows)
    BY <1>1, <2>2
  <2> HIDE DEF row
  <2>4. next \in 1 .. Len(rows)
    <3>1. row \in Nat /\ row >= 1 /\ row <= Len(rows) /\ Len(rows) \in Nat
      BY <1>1, <2>3
    <3>2. CASE down
      BY <3>1, <3>2
    <3>3. CASE ~ down
      BY <3>1, <3>3
    <3> QED BY <3>2, <3>3
  <2> HIDE DEF next
  <2>5. detail' = FirstSelected(rows, selected') /\ selected' \subseteq IdsOf(rows)
    BY <1>1, <2>1, <2>4, OnlySelected, SetOfSeq
  <2> QED BY <1>1, <2>1, <2>5, SelectedKeeps
<1>5. ASSUME NEW f \in {0} \cup Texts, SetFilter(f) PROVE IInv'
  <2>1. cards' = cards /\ filter' = f /\ RebuildRows(KeepSelected)
        /\ UNCHANGED <<collection, activeSort, nextDir, stale, troubles>>
    BY <1>5 DEF SetFilter
  <2>2. Rebuilt /\ deferred' \in BOOLEAN
    BY <1>1, <2>1, RebuildKeeps
  <2> QED BY <2>1, <2>2, RearrangedKeeps DEF IInv, TypeOK
<1>6. ASSUME NEW col \in Columns, OnHeaderClick(col) PROVE IInv'
  <2>1. activeSort' = [column |-> col, ascending |-> nextDir[col]]
        /\ nextDir' = [nextDir EXCEPT ![col] = ~ @]
        /\ cards' = SortBy(cards, activeSort') /\ UNCHANGED filter /\ RebuildRows(KeepSelected)
        /\ UNCHANGED <<collection, stale, troubles>>
    BY <1>6 DEF OnHeaderClick
  <2>2. activeSort' \in [column : Columns, ascending : BOOLEAN]
        /\ nextDir' \in [Columns -> BOOLEAN]
    BY <1>6, <2>1 DEF IInv, TypeOK
  <2>3. cards' \in Seq(Cards) /\ Distinct(cards') /\ ToSet(cards') = ToSet(cards)
    BY <1>1, <2>1, <2>2, SortedIsTheSame
  <2>4. Rebuilt /\ deferred' \in BOOLEAN
    BY <2>1, <2>3, RebuildKeeps
  <2> QED BY <2>1, <2>2, <2>3, <2>4, RearrangedKeeps DEF IInv, TypeOK
<1>7. ASSUME ApplyTheme PROVE IInv'
  <2>1. cards' = cards /\ RebuildRows(KeepSelected)
        /\ UNCHANGED <<collection, filter, activeSort, nextDir, stale, troubles>>
    BY <1>7 DEF ApplyTheme
  <2>2. Rebuilt /\ deferred' \in BOOLEAN
    BY <1>1, <2>1, RebuildKeeps
  <2> QED BY <2>1, <2>2, RearrangedKeeps DEF IInv, TypeOK
<1>8. ASSUME NEW print \in Prints, OnAddCard(print) PROVE IInv'
  <2>1. UNCHANGED <<filter, activeSort, nextDir>> /\ NewId \in Ids
    BY <1>8 DEF OnAddCard
  <2>2. CASE /\ collection' = [collection EXCEPT ![NewId] = Record(NewId, print)]
             /\ RefreshCollection({NewId}, 0)
    <3>1. collection' \in Collections
      BY <1>1, <2>1, <2>2, RecordsMayChange
    <3> QED BY <2>1, <2>2, <3>1, RefreshKeeps
  <2>3. CASE NothingDone(1)
    BY <2>1, <2>3, NothingDoneKeeps
  <2> QED BY <1>8, <2>2, <2>3 DEF OnAddCard
<1>9. ASSUME NEW print \in Prints, OnEditCard(print) PROVE IInv'
  <2> DEFINE card == FirstSelected(rows, selected)
             n == IF collection[card.id] = NoCard THEN 0 ELSE 1
  <2>1. UNCHANGED <<filter, activeSort, nextDir>> /\ Cardinality(selected) = 1
    BY <1>9 DEF OnEditCard
  <2>2. CASE /\ collection[card.id] # NoCard
             /\ collection' = [collection EXCEPT ![card.id] = Record(card.id, print)]
             /\ RefreshCollection(Unknown, 0)
    <3>1. card.id \in Ids
      <4>1. selected # {}
        BY <2>1, FS_EmptySet
      <4>2. PICK i \in 1 .. Len(rows) : FirstAt(rows, selected, i)
        BY <1>1, <4>1, FirstRow DEF IInv
      <4> QED BY <1>1, <4>2, FirstSelectedIsFirst, SetOfSeq
    <3> HIDE DEF card
    <3>2. collection' \in Collections
      BY <1>1, <2>2, <3>1, RecordsMayChange
    <3> QED BY <2>1, <2>2, <3>2, RefreshKeeps
  <2>3. CASE NothingDone(n)
    <3>1. n \in {0, 1}
      OBVIOUS
    <3> HIDE DEF n
    <3> QED BY <2>1, <2>3, <3>1, NothingDoneKeeps
  <2> QED BY <1>9, <2>2, <2>3 DEF OnEditCard
<1>10. ASSUME OnDeleteCard PROVE IInv'
  <2>1. UNCHANGED <<filter, activeSort, nextDir>>
    BY <1>10 DEF OnDeleteCard
  <2>2. PICK n \in 0 .. Len(Chosen) : DeleteChosen(n) /\ RefreshCollection(Unknown, Failures(n))
    BY <1>10 DEF OnDeleteCard
  <2>3. Failures(n) \in {0, 1}
    BY DEF Failures
  <2>4. collection' \in Collections
    <3> DEFINE gone == IdsOf(SubSeq(Chosen, 1, n))
    <3>1. collection' = [i \in Ids |-> IF i \in gone THEN NoCard ELSE collection[i]]
      BY <2>2 DEF DeleteChosen
    <3> HIDE DEF gone
    <3> QED BY <1>1, <3>1 DEF Collections
  <2> QED BY <2>1, <2>2, <2>3, <2>4, RefreshKeeps
<1>11. ASSUME NEW print \in Prints, NEW new \in Prints, OnUpdateSets(print, new) PROVE IInv'
  <2> DEFINE affected == {i \in Stored : collection[i] = Record(i, print)}
  <2>1. UNCHANGED <<filter, activeSort, nextDir>>
    BY <1>11 DEF OnUpdateSets
  <2>2. CASE /\ collection' = [i \in Ids |-> IF i \in affected THEN Record(i, new)
                                             ELSE collection[i]]
             /\ RefreshCollection(Unknown, 0)
    <3>1. \A i \in Ids : Record(i, new) \in Cards /\ Record(i, new).id = i
      BY DEF Cards, Record
    <3> HIDE DEF affected
    <3>2. collection' \in Collections
      BY <1>1, <2>2, <3>1 DEF Collections
    <3> QED BY <2>1, <2>2, <3>2, RefreshKeeps
  <2>3. CASE NothingDone(1)
    BY <2>1, <2>3, NothingDoneKeeps
  <2> QED BY <1>11, <2>2, <2>3 DEF OnUpdateSets
<1>12. ASSUME MountActiveView PROVE IInv'
  <2>1. filter' = 0 /\ UNCHANGED <<collection, activeSort, nextDir>>
    BY <1>12 DEF MountActiveView
  <2>2. CASE /\ Troubles(0)
             /\ SetCards(List(collection), Unknown, 0)
             /\ deferred' = (deferred \/ (selected = {} /\ cards \o cards' # <<>>))
             /\ stale' = FALSE
    <3>1. List(collection) \in Seq(Cards) /\ Distinct(List(collection))
      BY <1>1, ListIsTheCollection
    <3>2. SetCards(List(collection), Unknown, filter')
      BY <2>1, <2>2
    <3>3. Rebuilt /\ ToSet(cards') = ToSet(List(collection))
      BY <3>1, <3>2, SetCardsKeeps DEF IInv
    <3>4. TableShowsTheCollection'
      BY <1>1, <2>1, <3>3, Reloaded DEF Rebuilt
    <3>5. troubles' \in 0 .. MaxTroubles
      BY <2>2, TroublesCounted DEF IInv
    <3>6. deferred' \in BOOLEAN /\ stale' \in BOOLEAN
      BY <2>2
    <3>7. TypeOK'
      BY <2>1, <3>3, <3>5, <3>6 DEF IInv, TypeOK, Rebuilt
    <3> QED BY <3>3, <3>4, <3>7 DEF IInv, Rebuilt, DetailFollowsTheList
  <2>3. CASE /\ Troubles(1)
             /\ UNCHANGED cards
             /\ RebuildRows(KeepSelected)
             /\ stale' = TRUE
    <3>1. Rebuilt /\ deferred' \in BOOLEAN
      BY <1>1, <2>3, RebuildKeeps
    <3>2. troubles' \in 0 .. MaxTroubles
      BY <2>3, TroublesCounted DEF IInv
    <3>3. TypeOK'
      BY <2>1, <2>3, <3>1, <3>2 DEF IInv, TypeOK, Rebuilt
    <3> QED BY <2>3, <3>1, <3>3 DEF IInv, Rebuilt, DetailFollowsTheList, TableShowsTheCollection
  <2> QED BY <1>12, <2>2, <2>3 DEF MountActiveView
<1>13. ASSUME ChangeDataStorage PROVE IInv'
  BY <1>13, RefreshKeeps DEF ChangeDataStorage
<1>14. CASE UNCHANGED vars
  <2>1. UNCHANGED <<cards, filter, selected, detail>> /\ UNCHANGED <<collection, stale>>
    BY <1>14 DEF vars
  <2>2. Rebuilt
    BY <2>1, StayedAsItWas
  <2>3. TypeOK'
    BY <1>14 DEF IInv, TypeOK, vars
  <2>4. TableShowsTheCollection'
    BY <2>1 DEF IInv, TableShowsTheCollection, Stored
  <2> QED BY <2>2, <2>3, <2>4 DEF IInv, Rebuilt, DetailFollowsTheList
<1> QED BY <1>2, <1>3, <1>4, <1>5, <1>6, <1>7, <1>8, <1>9, <1>10, <1>11, <1>12, <1>13, <1>14
       DEF Next

\* The invariant, always.
LEMMA Invariant == Spec => []IInv
<1>1. Init => IInv
  BY Initially
<1>2. IInv /\ [Next]_vars => IInv'
  BY Inductive
<1> QED BY <1>1, <1>2, PTL DEF Spec

\* Every variable stays in its type: in particular the table is a list of cards,
\* with as many rows as there are records.
THEOREM TypeCorrect == Spec => []TypeOK
<1>1. IInv => TypeOK
  BY DEF IInv
<1> QED BY <1>1, Invariant, PTL

\* The detail panel and the list never disagree.
THEOREM DetailFollows == Spec => []DetailFollowsTheList
<1>1. IInv => DetailFollowsTheList
  BY DEF IInv
<1> QED BY <1>1, Invariant, PTL

\* The table never shows a record that is not there, and never shows one twice.
THEOREM TableIsTheCollection == Spec => []TableShowsTheCollection
<1>1. IInv => TableShowsTheCollection
  BY DEF IInv
<1> QED BY <1>1, Invariant, PTL

-----------------------------------------------------------------------------
(***************************************************************************)
(* What happens to the selection.  A reload keeps the ids that the new     *)
(* records still have, so all of it rests on what is stored before and     *)
(* after the step.                                                         *)
(***************************************************************************)
LEMMA NewIdIsFree ==
    ASSUME TypeOK
    PROVE  NewId \notin Stored
<1>1. CASE Stored = {}
  BY <1>1
<1>2. CASE Stored # {}
  <2> DEFINE Top(i) == \A j \in Stored : j <= i
             top == CHOOSE i \in Stored : Top(i)
  <2>1. MaxId \in Nat /\ Stored \in SUBSET (0 .. MaxId)
    BY ListAssumption DEF Stored, Ids
  <2>2. \E m \in Stored : Top(m)
    BY <1>2, <2>1, BoundedSetsHaveAMaximum
  <2>3. top \in Stored /\ Top(top)
    <3> HIDE DEF Top
    <3> QED BY <2>2
  <2>4. NewId = 1 + top
    BY <1>2 DEF NewId
  <2> HIDE DEF top
  <2> QED BY <2>1, <2>3, <2>4
<1> QED BY <1>1, <1>2

\* A card keeps its id, so a table that shows the collection has its ids.
LEMMA TableIds ==
    ASSUME TypeOK, ~ stale, TableShowsTheCollection
    PROVE  /\ IdsOf(cards) = Stored
           /\ \A i \in 1 .. Len(cards) : cards[i].id \in Stored /\ cards[i] = collection[cards[i].id]
<1>1. cards \in Seq(Cards) /\ collection \in Collections
  BY DEF TypeOK
<1>2. ToSet(cards) = {collection[i] : i \in Stored}
  BY DEF TableShowsTheCollection
<1>3. \A i \in Stored : collection[i].id = i
  BY <1>1 DEF Collections, Stored
<1>4. IdsOf(cards) = {c.id : c \in ToSet(cards)}
  BY <1>1, SetOfSeq
<1>5. IdsOf(cards) = Stored
  BY <1>2, <1>3, <1>4
<1>6. \A i \in 1 .. Len(cards) : cards[i] \in {collection[j] : j \in Stored}
  BY <1>1, <1>2, SetOfSeq
<1> QED BY <1>3, <1>5, <1>6

\* The rows that a reload shows are cards that it has read.
LEMMA ReloadedRows ==
    ASSUME TypeOK, NEW incoming \in Seq(Cards), Distinct(incoming), NEW f
    PROVE  LET rows == Rows(SortBy(incoming, activeSort), f) IN
           /\ ToSet(rows) = {c \in ToSet(incoming) : Matches(c, f)}
           /\ IdsOf(rows) = {c.id : c \in ToSet(rows)}
           /\ IdsOf(rows) \subseteq IdsOf(incoming)
           /\ rows \in Seq(Cards)
           /\ (rows = <<>> => IdsOf(rows) = {})
<1> DEFINE sorted == SortBy(incoming, activeSort)
           rows == Rows(sorted, f)
<1>1. sorted \in Seq(Cards) /\ Distinct(sorted) /\ ToSet(sorted) = ToSet(incoming)
  BY SortedIsTheSame DEF TypeOK
<1> HIDE DEF sorted
<1>2. rows \in Seq(Cards) /\ ToSet(rows) = {c \in ToSet(sorted) : Matches(c, f)}
  BY <1>1, RowsAreTheMatches
<1> HIDE DEF rows
<1>3. IdsOf(rows) = {c.id : c \in ToSet(rows)} /\ IdsOf(incoming) = {c.id : c \in ToSet(incoming)}
  BY <1>2, SetOfSeq
<1>4. IdsOf(rows) \subseteq IdsOf(incoming)
  BY <1>1, <1>2, <1>3
<1>5. rows = <<>> => IdsOf(rows) = {}
  BY DEF IdsOf
<1> QED BY <1>1, <1>2, <1>3, <1>4, <1>5 DEF rows, sorted

\* What a reload that prefers no id selects.
LEMMA SelectedByReload ==
    ASSUME IInv, NEW incoming \in Seq(Cards), Distinct(incoming), NEW keep \in SUBSET Ids,
           SetCards(incoming, Unknown, filter'),
           KeepAfterReload(IdsOf(incoming), filter') = keep
    PROVE  LET rows == Rows(cards', filter') IN
           /\ cards' = SortBy(incoming, activeSort)
           /\ keep \cap IdsOf(rows) # {} => selected' = keep \cap IdsOf(rows)
<1>1. keep # Unknown
  BY ListAssumption DEF Ids
<1> QED BY <1>1 DEF SetCards

\* A list that is set keeps the selected rows that are still there.
LEMMA ReloadSurvived ==
    ASSUME IInv, NEW incoming \in Seq(Cards), Distinct(incoming),
           SetCards(incoming, Unknown, filter')
    PROVE  selected \cap IdsOf(Rows(cards', filter')) \subseteq selected'
<1> DEFINE rows == Rows(cards', filter')
           keep == selected \cap IdsOf(incoming)
<1>1. cards' = SortBy(incoming, activeSort)
  BY DEF SetCards
<1>2. IdsOf(rows) \subseteq IdsOf(incoming)
  BY <1>1, ReloadedRows DEF IInv
<1>3. CASE keep = {}
  BY <1>2, <1>3
<1>4. CASE keep # {}
  <2>1. KeepAfterReload(IdsOf(incoming), filter') = keep
    BY <1>4 DEF KeepAfterReload
  <2>2. keep \in SUBSET Ids
    BY DEF IInv, TypeOK
  <2>3. keep \cap IdsOf(rows) # {} => selected' = keep \cap IdsOf(rows)
    BY <2>1, <2>2, SelectedByReload
  <2>4. selected \cap IdsOf(rows) = keep \cap IdsOf(rows)
    BY <1>2
  <2> HIDE DEF rows, keep
  <2>5. selected \cap IdsOf(rows) \subseteq selected'
    BY <2>3, <2>4
  <2> QED BY <2>5 DEF rows
<1> QED BY <1>3, <1>4

\* So does a table that is built again.
LEMMA RebuildSurvived ==
    ASSUME IInv, RebuildRows(KeepSelected)
    PROVE  selected \cap IdsOf(Rows(cards', filter')) \subseteq selected'
<1>1. CASE selected = {}
  BY <1>1
<1>2. CASE selected # {}
  <2>1. KeepSelected = selected
    BY <1>2 DEF KeepSelected
  <2>2. KeepSelected # Unknown
    BY <1>2, NothingSelected
  <2> QED BY <2>1, <2>2 DEF RebuildRows
<1> QED BY <1>1, <1>2

\* So does a refresh that names no record.
LEMMA RefreshSurvived ==
    ASSUME IInv, collection' \in Collections, UNCHANGED filter, NEW n,
           RefreshCollection(Unknown, n)
    PROVE  selected \cap IdsOf(Rows(cards', filter')) \subseteq selected'
<1>1. CASE SetCards(List(collection'), Unknown, filter)
  <2>1. List(collection') \in Seq(Cards) /\ Distinct(List(collection'))
    BY ListIsTheCollection
  <2>2. SetCards(List(collection'), Unknown, filter')
    BY <1>1
  <2> QED BY <2>1, <2>2, ReloadSurvived
<1>2. CASE UNCHANGED <<cards, selected, detail, deferred>>
  BY <1>2
<1> QED BY <1>1, <1>2 DEF RefreshCollection

\* Adding a card is the one step that stores an id that was not stored.
LEMMA AddingStores ==
    ASSUME IInv, NEW print \in Prints, OnAddCard(print),
           <<cards, filter>>' # <<cards, filter>> \/ collection' # collection
    PROVE  ~ (Stored' \subseteq Stored)
<1>1. NewId \in Ids /\ collection' = [collection EXCEPT ![NewId] = Record(NewId, print)]
  BY DEF OnAddCard, NothingDone
<1>2. Record(NewId, print) # NoCard
  BY <1>1, CardsHaveFields DEF Cards
<1>3. collection'[NewId] # NoCard
  BY <1>1, <1>2 DEF IInv, TypeOK, Collections
<1>4. NewId \in Stored'
  BY <1>1, <1>3 DEF Stored
<1> QED BY <1>4, NewIdIsFree DEF IInv

Survives ==
    (<<cards, filter>>' # <<cards, filter>> /\ Stored' \subseteq Stored)
      => selected \cap IdsOf(Rows(cards', filter')) \subseteq selected'

\* So does every step that takes no record away.
LEMMA StepsSurvived == IInv /\ [Next]_vars => [Survives]_vars
<1> SUFFICES ASSUME IInv, Next, <<cards, filter>>' # <<cards, filter>>, Stored' \subseteq Stored
             PROVE  selected \cap IdsOf(Rows(cards', filter')) \subseteq selected'
  BY DEF Survives
<1>1. collection' \in Collections
  BY Inductive DEF IInv, TypeOK
<1>2. ~ SelectFirstRow /\ \A ids \in SUBSET Ids : ~ Select(ids)
  BY DEF SelectFirstRow, Select
<1>3. \A down \in BOOLEAN : ~ NudgeSelection(down)
  BY DEF NudgeSelection
<1>4. ASSUME NEW f \in {0} \cup Texts, SetFilter(f) PROVE RebuildRows(KeepSelected)
  BY <1>4 DEF SetFilter
<1>5. ASSUME NEW col \in Columns, OnHeaderClick(col) PROVE RebuildRows(KeepSelected)
  BY <1>5 DEF OnHeaderClick
<1>6. ASSUME ApplyTheme PROVE RebuildRows(KeepSelected)
  BY <1>6 DEF ApplyTheme
<1>7. ASSUME NEW print \in Prints, OnAddCard(print) PROVE FALSE
  BY <1>7, AddingStores
<1>8. ASSUME NEW print \in Prints, OnEditCard(print)
      PROVE  UNCHANGED filter /\ RefreshCollection(Unknown, 0)
  BY <1>8 DEF OnEditCard, NothingDone
<1>9. ASSUME OnDeleteCard
      PROVE  UNCHANGED filter /\ \E n : RefreshCollection(Unknown, n)
  BY <1>9 DEF OnDeleteCard
<1>10. ASSUME NEW print \in Prints, NEW new \in Prints, OnUpdateSets(print, new)
       PROVE  UNCHANGED filter /\ RefreshCollection(Unknown, 0)
  BY <1>10 DEF OnUpdateSets, NothingDone
<1>11. ASSUME MountActiveView
       PROVE  selected \cap IdsOf(Rows(cards', filter')) \subseteq selected'
  <2>1. CASE SetCards(List(collection), Unknown, 0)
    <3>1. List(collection) \in Seq(Cards) /\ Distinct(List(collection))
      BY ListIsTheCollection DEF IInv, TypeOK
    <3>2. SetCards(List(collection), Unknown, filter')
      BY <1>11, <2>1 DEF MountActiveView
    <3> QED BY <3>1, <3>2, ReloadSurvived
  <2>2. CASE RebuildRows(KeepSelected)
    BY <2>2, RebuildSurvived
  <2> QED BY <1>11, <2>1, <2>2 DEF MountActiveView
<1>12. ASSUME ChangeDataStorage
       PROVE  UNCHANGED filter /\ RefreshCollection(Unknown, 1)
  BY <1>12 DEF ChangeDataStorage
<1>13. CASE RebuildRows(KeepSelected)
  BY <1>13, RebuildSurvived
<1>14. CASE UNCHANGED filter /\ \E n : RefreshCollection(Unknown, n)
  BY <1>1, <1>14, RefreshSurvived
<1> QED BY <1>2, <1>3, <1>4, <1>5, <1>6, <1>7, <1>8, <1>9, <1>10, <1>11, <1>12, <1>13, <1>14
       DEF Next

\* Through filters, sorts, reloads, edits, deletions and set updates, every
\* selected card that is still visible stays selected.
THEOREM SelectionSurvives == Spec => SelectionSurvivesRebuilds
<1>1. [][Survives]_vars => SelectionSurvivesRebuilds
  BY DEF Survives, SelectionSurvivesRebuilds
<1>2. IInv /\ [Next]_vars => [Survives]_vars
  BY StepsSurvived
<1> QED BY <1>1, <1>2, Invariant, PTL DEF Spec

-----------------------------------------------------------------------------
(***************************************************************************)
(* Deletion.  The row above the first selected one is not selected, so its *)
(* record is still there and it still matches; what is left of the rows    *)
(* has it in the same place.                                               *)
(***************************************************************************)
LeftOver == KeepIn(Rows(cards, filter), {c \in Cards : c.id \notin selected})

SelectedGone ==
    /\ ~ stale /\ ~ stale' /\ LeftOver # <<>> /\ selected # {}
    /\ Stored' = Stored \ selected
    /\ \A i \in Stored' : collection'[i] = collection[i]

RowAboveSelected ==
    LET rows == Rows(cards, filter) IN
    \E i \in DOMAIN LeftOver :
       /\ selected' = {LeftOver[i].id}
       /\ \/ rows[i] = LeftOver[i] /\ rows[i + 1].id \in selected
          \/ i = 1 /\ rows[1].id \in selected

\* A row that is not selected is there after the reload.
LEMMA LeftOverIsShown ==
    ASSUME IInv, IInv', SelectedGone, UNCHANGED filter,
           NEW k \in 1 .. Len(Rows(cards, filter)), Rows(cards, filter)[k].id \notin selected
    PROVE  /\ Rows(cards, filter)[k].id \in Stored'
           /\ Rows(cards, filter)[k].id \in IdsOf(Rows(cards', filter'))
<1> DEFINE c == Rows(cards, filter)[k]
<1>1. cards \in Seq(Cards) /\ Distinct(cards) /\ cards' \in Seq(Cards) /\ Distinct(cards')
  BY DEF IInv, TypeOK
<1>2. c \in ToSet(cards) /\ Matches(c, filter)
  <2>1. c \in ToSet(Rows(cards, filter))
    BY <1>1, RowsAreTheMatches, SetOfSeq
  <2> QED BY <1>1, <2>1, RowsAreTheMatches
<1> HIDE DEF c
<1>3. c.id \in Stored /\ c = collection[c.id]
  <2>1. \E i \in 1 .. Len(cards) : c = cards[i]
    BY <1>1, <1>2, SetOfSeq
  <2> QED BY <2>1, TableIds DEF IInv, SelectedGone
<1>4. c.id \in Stored' /\ c = collection'[c.id]
  BY <1>3 DEF SelectedGone, c
<1>5. c \in ToSet(cards')
  BY <1>4 DEF IInv, TableShowsTheCollection, SelectedGone
<1>6. c \in ToSet(Rows(cards', filter'))
  BY <1>1, <1>2, <1>5, RowsAreTheMatches
<1>7. c.id \in IdsOf(Rows(cards', filter'))
  <2>1. Rows(cards', filter') \in Seq(Cards)
    BY <1>1, RowsAreTheMatches
  <2> QED BY <1>6, <2>1, SetOfSeq
<1> QED BY <1>4, <1>7 DEF c

\* The row above a deleted one is the row that is selected.
LEMMA DeletionKeepsThePlace ==
    ASSUME IInv, IInv', SelectedGone, UNCHANGED filter,
           SetCards(List(collection'), Unknown, filter)
    PROVE  RowAboveSelected
<1> DEFINE rows == Rows(cards, filter)
           S == {c \in Cards : c.id \notin selected}
           incoming == List(collection')
<1>1. rows \in Seq(Cards) /\ Distinct(rows) /\ DOMAIN rows = 1 .. Len(rows) /\ Len(rows) \in Nat
  BY NothingSelected, SetOfSeq
<1>2. incoming \in Seq(Cards) /\ Distinct(incoming) /\ IdsOf(incoming) = Stored'
  BY ListIsTheCollection DEF IInv, TypeOK, Stored
<1>3. \A k \in 1 .. Len(rows) : rows[k].id \notin selected =>
         rows[k].id \in Stored' /\ rows[k].id \in IdsOf(Rows(cards', filter'))
  BY LeftOverIsShown
<1>4. selected # {} /\ selected \subseteq IdsOf(rows) /\ selected \cap Stored' = {}
      /\ SetCards(incoming, Unknown, filter')
  BY DEF IInv, SelectedGone
<1>5. LeftOver = KeepIn(rows, S)
  BY DEF LeftOver
<1>6. LeftOver \in Seq(Cards) /\ LeftOver # <<>>
  BY <1>1, <1>5, KeptInOrder DEF SelectedGone
<1>7. PICK from : Picked(LeftOver, from, rows, S)
  BY <1>1, <1>5, KeptInOrder
<1>8. PICK top \in 1 .. Len(rows) : FirstAt(rows, selected, top)
  BY <1>1, <1>4, FirstRow
<1> DEFINE rest == {i \in DOMAIN rows : rows[i].id \in Stored' \ selected}
           Least(i) == \A j \in rest : i <= j
<1>9. rest = {i \in 1 .. Len(rows) : rows[i].id \notin selected}
  BY <1>1, <1>3
<1>10. KeepAfterReload(IdsOf(incoming), filter') =
         IF top - 1 \in rest THEN {rows[top - 1].id}
         ELSE IF rest = {} THEN {}
         ELSE {rows[CHOOSE i \in rest : Least(i)].id}
  <2> DEFINE First(i) == rows[i].id \in selected /\ \A j \in 1 .. i - 1 : rows[j].id \notin selected
             first == CHOOSE i \in DOMAIN rows : First(i)
  <2>1. first = top
    <3>1. top \in DOMAIN rows /\ First(top)
      BY <1>1, <1>8 DEF FirstAt
    <3>2. first \in DOMAIN rows /\ First(first)
      <4> HIDE DEF First
      <4> QED BY <3>1
    <3>3. FirstAt(rows, selected, first)
      BY <1>1, <3>2 DEF FirstAt
    <3> HIDE DEF first
    <3> QED BY <1>1, <1>8, <3>3, OneFirstRow
  <2>2. KeepAfterReload(IdsOf(incoming), filter') = Neighbor(Stored', filter)
    BY <1>2, <1>4 DEF KeepAfterReload
  <2>3. Neighbor(Stored', filter) =
          IF first - 1 \in rest THEN {rows[first - 1].id}
          ELSE IF rest = {} THEN {}
          ELSE {rows[CHOOSE i \in rest : Least(i)].id}
    BY DEF Neighbor
  <2> HIDE DEF first
  <2> QED BY <2>1, <2>2, <2>3
<1>11. ASSUME NEW k \in 1 .. Len(rows), rows[k].id \notin selected,
              KeepAfterReload(IdsOf(incoming), filter') = {rows[k].id}
       PROVE  selected' = {rows[k].id}
  <2>1. {rows[k].id} \in SUBSET Ids
    BY <1>1, SetOfSeq
  <2>2. {rows[k].id} \cap IdsOf(Rows(cards', filter')) = {rows[k].id}
    BY <1>3, <1>11
  <2>3. {rows[k].id} \cap IdsOf(Rows(cards', filter')) # {} =>
          selected' = {rows[k].id} \cap IdsOf(Rows(cards', filter'))
    BY <1>2, <1>4, <1>11, <2>1, SelectedByReload
  <2> QED BY <2>2, <2>3
<1>12. CASE top # 1
  <2>1. /\ top - 1 \in 1 .. Len(rows) /\ top - 1 \in 1 .. top - 1 /\ top - 1 \in Nat
        /\ rows[top - 1].id \notin selected
    BY <1>1, <1>8, <1>12 DEF FirstAt
  <2>2. \A k \in 1 .. top - 1 : rows[k] \in S
    BY <1>1, <1>8 DEF FirstAt
  <2>3. top - 1 <= Len(LeftOver) /\ \A k \in 1 .. top - 1 : from[k] = k
    <3>1. top - 1 \in Nat /\ top - 1 <= Len(rows)
      BY <1>1, <2>1
    <3>2. rows \in Seq(Cards) /\ LeftOver \in Seq(Cards)
      BY <1>1, <1>6
    <3> DEFINE m == top - 1
    <3>3. m \in Nat /\ m <= Len(rows) /\ \A k \in 1 .. m : rows[k] \in S
      BY <2>2, <3>1
    <3> HIDE DEF rows, S, m
    <3>4. m <= Len(LeftOver) /\ \A k \in 1 .. m : from[k] = k
      BY <1>7, <3>2, <3>3, PrefixIsKept
    <3> QED BY <3>4 DEF m
  <2>4. top - 1 \in 1 .. Len(LeftOver) /\ LeftOver[top - 1] = rows[top - 1]
    <3>1. top - 1 \in 1 .. Len(LeftOver)
      BY <1>1, <1>6, <2>1, <2>3
    <3> QED BY <1>7, <2>1, <2>3, <3>1 DEF Picked
  <2>5. selected' = {rows[top - 1].id}
    <3>1. top - 1 \in rest
      BY <1>9, <2>1
    <3>2. KeepAfterReload(IdsOf(incoming), filter') = {rows[top - 1].id}
      BY <1>10, <3>1
    <3> HIDE DEF incoming
    <3> QED BY <1>11, <2>1, <3>2
  <2>6. rows[(top - 1) + 1].id \in selected
    <3>1. (top - 1) + 1 = top
      BY <1>1
    <3> QED BY <1>8, <3>1 DEF FirstAt
  <2> QED BY <1>6, <2>4, <2>5, <2>6 DEF RowAboveSelected
<1>13. CASE top = 1
  <2>1. /\ 1 \in 1 .. Len(LeftOver) /\ from[1] \in 1 .. Len(rows) /\ rows[from[1]] \in S
        /\ LeftOver[1] = rows[from[1]]
        /\ \A k \in 1 .. Len(rows) : rows[k] \in S => from[1] <= k
    <3>1. rows \in Seq(Cards) /\ LeftOver \in Seq(Cards) /\ LeftOver # <<>>
      BY <1>1, <1>6
    <3> HIDE DEF rows, S
    <3> QED BY <1>7, <3>1, FirstKept
  <2>2. from[1] \in rest /\ Least(from[1])
    <3>1. \A k \in rest : k \in 1 .. Len(rows) /\ rows[k] \in S
      BY <1>1, <1>9
    <3> QED BY <1>9, <2>1, <3>1
  <2> DEFINE least == CHOOSE i \in rest : Least(i)
  <2>3. least = from[1]
    <3> HIDE DEF rest
    <3>1. least \in rest /\ Least(least)
      <4> HIDE DEF Least
      <4> QED BY <2>2
    <3>2. least \in Nat /\ from[1] \in Nat
      BY <1>9, <2>2, <3>1
    <3> QED BY <2>2, <3>1, <3>2
  <2>4. top - 1 \notin rest /\ rest # {}
    <3>1. top - 1 = 0 /\ 0 \notin rest
      BY <1>9, <1>13
    <3> QED BY <2>2, <3>1
  <2>5. KeepAfterReload(IdsOf(incoming), filter') = {rows[from[1]].id}
    <3> HIDE DEF least, rest
    <3>1. KeepAfterReload(IdsOf(incoming), filter') = {rows[least].id}
      BY <1>10, <2>4 DEF least
    <3> QED BY <2>3, <3>1
  <2>6. selected' = {LeftOver[1].id}
    <3>1. rows[from[1]].id \notin selected
      BY <2>1
    <3> HIDE DEF incoming
    <3> QED BY <1>11, <2>1, <2>5, <3>1
  <2>7. rows[1].id \in selected
    BY <1>8, <1>13 DEF FirstAt
  <2> QED BY <1>6, <2>1, <2>6, <2>7 DEF RowAboveSelected
<1> QED BY <1>12, <1>13

\* No other step removes a selected record.
LEMMA StepsMoveUp == IInv /\ [Next]_vars => [SelectedGone => RowAboveSelected]_vars
<1> SUFFICES ASSUME IInv, Next, SelectedGone PROVE RowAboveSelected
  OBVIOUS
<1>1. IInv'
  BY Inductive
<1>2. collection' # collection
  <2>1. selected \subseteq Stored
    <3>1. IdsOf(Rows(cards, filter)) \subseteq IdsOf(cards)
      BY RowsAreTheMatches DEF IInv, TypeOK
    <3>2. IdsOf(cards) = Stored
      BY TableIds DEF IInv, SelectedGone
    <3> QED BY <3>1, <3>2 DEF IInv
  <2>2. Stored' # Stored
    BY <2>1 DEF SelectedGone
  <2> QED BY <2>2 DEF Stored
<1>3. ASSUME UNCHANGED filter, NEW n, RefreshCollection(Unknown, n) PROVE RowAboveSelected
  <2>1. SetCards(List(collection'), Unknown, filter)
    BY <1>3 DEF RefreshCollection, SelectedGone
  <2> QED BY <1>1, <1>3, <2>1, DeletionKeepsThePlace
<1>4. ~ SelectFirstRow /\ \A ids \in SUBSET Ids : ~ Select(ids)
  BY <1>2 DEF SelectFirstRow, Select
<1>5. \A down \in BOOLEAN : ~ NudgeSelection(down)
  BY <1>2 DEF NudgeSelection
<1>6. \A f \in {0} \cup Texts : ~ SetFilter(f)
  BY <1>2 DEF SetFilter
<1>7. ~ ApplyTheme /\ ~ MountActiveView /\ \A col \in Columns : ~ OnHeaderClick(col)
  BY <1>2 DEF OnHeaderClick, ApplyTheme, MountActiveView
<1>8. \A print \in Prints : ~ OnAddCard(print)
  <2>1. Stored' \subseteq Stored
    BY DEF SelectedGone
  <2> QED BY <1>2, <2>1, AddingStores
<1>9. ASSUME NEW print \in Prints, OnEditCard(print) PROVE RowAboveSelected
  BY <1>2, <1>3, <1>9 DEF OnEditCard, NothingDone
<1>10. ASSUME OnDeleteCard PROVE RowAboveSelected
  BY <1>3, <1>10 DEF OnDeleteCard
<1>11. ASSUME NEW print \in Prints, NEW new \in Prints, OnUpdateSets(print, new)
       PROVE  RowAboveSelected
  BY <1>2, <1>3, <1>11 DEF OnUpdateSets, NothingDone
<1>12. ASSUME ChangeDataStorage PROVE RowAboveSelected
  BY <1>3, <1>12 DEF ChangeDataStorage
<1> QED BY <1>4, <1>5, <1>6, <1>7, <1>8, <1>9, <1>10, <1>11, <1>12 DEF Next

\* Deleting what is selected selects the row above it, or the first one left.
THEOREM DeletionSelectsAbove == Spec => DeletionSelectsTheRowAbove
<1>1. [][SelectedGone => RowAboveSelected]_vars => DeletionSelectsTheRowAbove
  BY DEF SelectedGone, RowAboveSelected, LeftOver, DeletionSelectsTheRowAbove
<1>2. IInv /\ [Next]_vars => [SelectedGone => RowAboveSelected]_vars
  BY StepsMoveUp
<1> QED BY <1>1, <1>2, Invariant, PTL DEF Spec
=============================================================================
