---------------------------- MODULE CardListPanel ----------------------------
(***************************************************************************)
(* BaseCardListPanel, the table of a game's cards, with the handlers of    *)
(* the game view and of the main frame that drive it: cards are added,     *)
(* edited and deleted, the table is reloaded, filtered, sorted by header   *)
(* clicks and re-themed, and the selection must come through all of it and *)
(* agree with what the detail panel displays.                              *)
(*                                                                         *)
(* Every one of those rebuilds the rows from scratch.  While it does, the  *)
(* list control's own events are ignored; a notification follows, except   *)
(* when the first row is to be selected by a deferred callback, which      *)
(* itself depends on what is selected by the time it runs.                 *)
(*                                                                         *)
(* A card is its id and two texts, name and set, which stand for the       *)
(* columns one can sort by and the fields a filter looks at.  A handler    *)
(* with a dialog is one step, from the button to the refresh.              *)
(***************************************************************************)
EXTENDS Naturals, SequencesExt, Filtering

CONSTANTS
    MaxId,       \* bound on card ids
    MaxText,     \* the texts are 1 .. MaxText, in sorting order
    Prints,      \* the <<name, set>> there are
    NoCard,      \* std::nullopt for a card
    Unknown,     \* std::nullopt for the ids to keep selected
    MaxTroubles  \* bound on failing operations and moves to another data folder

ASSUME ListAssumption ==
    /\ MaxId \in Nat /\ MaxText \in Nat /\ MaxTroubles \in Nat
    /\ Prints \subseteq (1 .. MaxText) \X (1 .. MaxText)
    /\ NoCard \notin [id : 0 .. MaxId, name : 1 .. MaxText, set : 1 .. MaxText]
    /\ \A ids \in SUBSET (0 .. MaxId) : ids # Unknown

VARIABLES
    collection, \* the records on disk, by id
    cards,      \* cards_, in the order of the table
    filter,     \* filter_, 0 for the empty string
    activeSort, \* activeSort_
    nextDir,    \* nextDirByCol_: whether the next click on a column sorts ascending
    selected,   \* ids of the selected rows
    deferred,   \* whether first-row callbacks of rebuildRows are pending
    detail,     \* the card the detail panel displays
    stale,      \* history: whether the last reload failed or never happened
    troubles

vars == <<collection, cards, filter, activeSort, nextDir, selected, deferred, detail,
          stale, troubles>>

Ids     == 0 .. MaxId
Texts   == 1 .. MaxText
Columns == {"name", "set"}
Record(id, print) == [id |-> id, name |-> print[1], set |-> print[2]]
Cards   == {Record(id, print) : id \in Ids, print \in Prints}
Collections == {c \in [Ids -> Cards \cup {NoCard}] : \A i \in Ids : c[i] # NoCard => c[i].id = i}
Unsorted == [column |-> "none", ascending |-> TRUE]

TypeOK ==
    /\ collection \in Collections
    /\ cards \in Seq(Cards)
    /\ filter \in {0} \cup Texts
    /\ activeSort \in [column : Columns, ascending : BOOLEAN] \cup {Unsorted}
    /\ nextDir \in [Columns -> BOOLEAN]
    /\ selected \subseteq Ids
    /\ deferred \in BOOLEAN
    /\ detail \in Cards \cup {NoCard}
    /\ stale \in BOOLEAN
    /\ troubles \in 0 .. MaxTroubles

Init ==
    /\ collection \in Collections
    /\ cards = <<>>
    /\ filter = 0
    /\ activeSort = Unsorted
    /\ nextDir = [c \in Columns |-> TRUE]
    /\ selected = {}
    /\ deferred = FALSE
    /\ detail = NoCard
    /\ stale = TRUE
    /\ troubles = 0

\* The step takes n of the troubles that may happen.
Troubles(n) == troubles + n <= MaxTroubles /\ troubles' = troubles + n

-----------------------------------------------------------------------------
\* The rows

IdsOf(s) == {s[i].id : i \in DOMAIN s}

\* matchesFilter: some field contains the text
Matches(c, f) == f \in {0, c.name, c.set}

\* filteredIndices_
Rows(s, f) == KeepIn(s, {c \in Cards : Matches(c, f)})

\* sortBy: a stable sort by one column
Bucket(sort, n) ==
    {c \in Cards : c[sort.column] = IF sort.ascending THEN n ELSE MaxText + 1 - n}

SortBy(s, sort) ==
    IF sort = Unsorted THEN s ELSE FlattenSeq([n \in Texts |-> KeepIn(s, Bucket(sort, n))])

\* selected(): the card of the first selected row
FirstSelected(rows, sel) ==
    IF \E i \in DOMAIN rows : rows[i].id \in sel
    THEN rows[CHOOSE i \in DOMAIN rows :
                 rows[i].id \in sel /\ \A j \in 1 .. i - 1 : rows[j].id \notin sel]
    ELSE NoCard

\* Mutant: only the first of several selected rows is remembered.
KeepFirst == IF selected = {} THEN Unknown ELSE {FirstSelected(Rows(cards, filter), selected).id}

\* No ids to keep is not the same as keeping none.
KeepSelected == IF selected = {} THEN Unknown ELSE selected

\* Mutant: nobody is told when no row could be selected again.
RebuildRowsSilently(keep) ==
    LET rows == Rows(cards', filter') IN
    /\ selected' = IF keep = Unknown THEN {} ELSE keep \cap IdsOf(rows)
    /\ IF keep = Unknown /\ rows # <<>>
       THEN deferred' = TRUE /\ UNCHANGED detail
       ELSE /\ detail' = IF selected' = {} THEN detail ELSE FirstSelected(rows, selected')
            /\ UNCHANGED deferred

\* rebuildRows(keep), with the handler of EVT_CARD_SELECTED
RebuildRows(keep) ==
    LET rows == Rows(cards', filter') IN
    /\ selected' = IF keep = Unknown THEN {} ELSE keep \cap IdsOf(rows)
    /\ IF keep = Unknown /\ rows # <<>>
       THEN deferred' = TRUE /\ UNCHANGED detail
       ELSE detail' = FirstSelected(rows, selected') /\ UNCHANGED deferred

\* A deferred callback, which may be the last one that is pending
SelectFirstRow ==
    /\ deferred
    /\ deferred' \in BOOLEAN
    /\ LET rows == Rows(cards, filter) IN
       IF rows = <<>> \/ selected # {}
       THEN UNCHANGED <<selected, detail>>
       ELSE selected' = {rows[1].id} /\ detail' = rows[1]
    /\ UNCHANGED <<collection, cards, filter, activeSort, nextDir, stale, troubles>>

-----------------------------------------------------------------------------
\* The user works the table

\* Clicks, Ctrl- and Shift-clicks and arrow keys on the rows
Select(ids) ==
    /\ ids \subseteq IdsOf(Rows(cards, filter))
    /\ selected' = ids
    /\ detail' = FirstSelected(Rows(cards, filter), ids)
    /\ UNCHANGED <<collection, cards, filter, activeSort, nextDir, deferred, stale, troubles>>

\* Up and Down in the filter box: exactly one row is selected afterwards.
NudgeSelection(down) ==
    LET rows == Rows(cards, filter)
        row  == CHOOSE i \in DOMAIN rows :
                   IF selected = {} THEN i = 1 ELSE rows[i] = FirstSelected(rows, selected)
        next == IF down THEN (IF row = Len(rows) THEN row ELSE row + 1)
                ELSE (IF row = 1 THEN row ELSE row - 1)
    IN  /\ rows # <<>>
        /\ selected' = {rows[next].id}
        /\ detail' = rows[next]
        /\ UNCHANGED <<collection, cards, filter, activeSort, nextDir, deferred, stale, troubles>>

SetFilter(f) ==
    /\ filter # f
    /\ filter' = f
    /\ UNCHANGED cards
    /\ RebuildRows(KeepSelected)
    /\ UNCHANGED <<collection, activeSort, nextDir, stale, troubles>>

OnHeaderClick(col) ==
    /\ activeSort' = [column |-> col, ascending |-> nextDir[col]]
    /\ nextDir' = [nextDir EXCEPT ![col] = ~ @]
    /\ cards' = SortBy(cards, activeSort')
    /\ UNCHANGED filter
    /\ RebuildRows(KeepSelected)
    /\ UNCHANGED <<collection, stale, troubles>>

ApplyTheme ==
    /\ UNCHANGED <<cards, filter>>
    /\ RebuildRows(KeepSelected)
    /\ UNCHANGED <<collection, activeSort, nextDir, stale, troubles>>

-----------------------------------------------------------------------------
\* Reloading

\* CollectionService::list: the records by ascending id
List(c) == KeepIn([n \in 1 .. MaxId + 1 |-> c[n - 1]], Cards)

\* Mutant: the row that takes the place of the removed one.
NeighborBelow(incoming, f) ==
    LET rows  == Rows(cards, f)
        top   == CHOOSE i \in DOMAIN rows :
                    rows[i].id \in selected /\ \A j \in 1 .. i - 1 : rows[j].id \notin selected
        below == {i \in top .. Len(rows) : rows[i].id \in incoming \ selected}
    IN  IF below = {} THEN {}
        ELSE {rows[CHOOSE i \in below : \A j \in below : i <= j].id}

\* neighborIdForVanished, when no selected card is among the incoming ids
Neighbor(incoming, f) ==
    LET rows == Rows(cards, f)
        top  == CHOOSE i \in DOMAIN rows :
                   rows[i].id \in selected /\ \A j \in 1 .. i - 1 : rows[j].id \notin selected
        rest == {i \in DOMAIN rows : rows[i].id \in incoming \ selected}
    IN  IF top - 1 \in rest THEN {rows[top - 1].id}
        ELSE IF rest = {} THEN {}
        ELSE {rows[CHOOSE i \in rest : \A j \in rest : i <= j].id}

\* keepIdsAfterReload
KeepAfterReload(incoming, f) ==
    IF selected = {} THEN Unknown
    ELSE IF selected \cap incoming # {} THEN selected \cap incoming
    ELSE Neighbor(incoming, f)

\* setCards and activateSelection: the rows are rebuilt and, if none of them is
\* selected, the first one is.
SetCards(incoming, prefer, f) ==
    LET keep == IF prefer # Unknown THEN prefer ELSE KeepAfterReload(IdsOf(incoming), f)
        rows == Rows(SortBy(incoming, activeSort), f)
        kept == IF keep = Unknown THEN {} ELSE keep \cap IdsOf(rows)
    IN  /\ cards' = SortBy(incoming, activeSort)
        /\ selected' = IF kept = {} /\ rows # <<>> THEN {rows[1].id} ELSE kept
        /\ detail' = FirstSelected(rows, selected')

\* refreshCollection, after n troubles.  Where nothing was selected rebuildRows
\* has deferred a selection that activateSelection made.  When the collection
\* cannot be read the table stays as it is.
RefreshCollection(prefer, n) ==
    \/ /\ Troubles(n)
       /\ SetCards(List(collection'), prefer, filter)
       /\ deferred' = (deferred \/ (prefer = Unknown /\ selected = {} /\ selected' # {}))
       /\ stale' = FALSE
    \/ /\ Troubles(n + 1)
       /\ stale' = TRUE
       /\ UNCHANGED <<cards, selected, detail, deferred>>

\* An operation failed, and its handler returns without a refresh.
NothingDone(n) ==
    /\ Troubles(n)
    /\ UNCHANGED <<collection, cards, selected, detail, deferred, stale>>

-----------------------------------------------------------------------------
\* The game view

Stored == {i \in Ids : collection[i] # NoCard}

NewId == IF Stored = {} THEN 0 ELSE 1 + CHOOSE i \in Stored : \A j \in Stored : j <= i

OnAddCard(print) ==
    /\ UNCHANGED <<filter, activeSort, nextDir>>
    /\ NewId \in Ids
    /\ \/ /\ collection' = [collection EXCEPT ![NewId] = Record(NewId, print)]
          /\ RefreshCollection({NewId}, 0)
       \/ NothingDone(1)

\* The record may be gone from a collection that was not reloaded.
OnEditCard(print) ==
    LET card == FirstSelected(Rows(cards, filter), selected) IN
    /\ UNCHANGED <<filter, activeSort, nextDir>>
    /\ Cardinality(selected) = 1
    /\ \/ /\ collection[card.id] # NoCard
          /\ collection' = [collection EXCEPT ![card.id] = Record(card.id, print)]
          /\ RefreshCollection(Unknown, 0)
       \/ NothingDone(IF collection[card.id] = NoCard THEN 0 ELSE 1)

Chosen == KeepIn(Rows(cards, filter), {c \in Cards : c.id \in selected})

\* CollectionService::remove of the first n chosen cards, in the order of the
\* rows.  It fails on a card that is not there, and may fail on any other.
DeleteChosen(n) ==
    /\ IdsOf(SubSeq(Chosen, 1, n)) \subseteq Stored
    /\ collection' = [i \in Ids |-> IF i \in IdsOf(SubSeq(Chosen, 1, n)) THEN NoCard
                                    ELSE collection[i]]
Failures(n) == IF n = Len(Chosen) \/ collection[Chosen[n + 1].id] = NoCard THEN 0 ELSE 1

\* Mutant: a deletion that fails midway leaves the table alone.
DeleteWithoutRefresh ==
    /\ UNCHANGED <<filter, activeSort, nextDir>>
    /\ Chosen # <<>>
    /\ \E n \in 0 .. Len(Chosen) :
          /\ DeleteChosen(n)
          /\ IF n = Len(Chosen) THEN RefreshCollection(Unknown, 0)
             ELSE Troubles(Failures(n)) /\ UNCHANGED <<cards, selected, detail, deferred, stale>>

\* The first failure ends the deletion; the table is refreshed either way.
OnDeleteCard ==
    /\ UNCHANGED <<filter, activeSort, nextDir>>
    /\ Chosen # <<>>
    /\ \E n \in 0 .. Len(Chosen) :
          /\ DeleteChosen(n)
          /\ RefreshCollection(Unknown, Failures(n))

\* onUpdateSets: the records of a set are brought up to date.
OnUpdateSets(print, new) ==
    LET affected == {i \in Stored : collection[i] = Record(i, print)} IN
    /\ UNCHANGED <<filter, activeSort, nextDir>>
    /\ print[1] = new[1] /\ print # new /\ affected # {}
    /\ \/ /\ collection' = [i \in Ids |-> IF i \in affected THEN Record(i, new)
                                          ELSE collection[i]]
          /\ RefreshCollection(Unknown, 0)
       \/ NothingDone(1)

-----------------------------------------------------------------------------
\* The main frame

\* The game is mounted, at startup or again by switchGame: it is themed, the
\* filter is emptied and the collection reloaded.
MountActiveView ==
    /\ filter' = 0
    /\ \/ /\ Troubles(0)
          /\ SetCards(List(collection), Unknown, 0)
          /\ deferred' = (deferred \/ (selected = {} /\ cards \o cards' # <<>>))
          /\ stale' = FALSE
       \/ /\ Troubles(1)
          /\ UNCHANGED cards
          /\ RebuildRows(KeepSelected)
          /\ stale' = TRUE
    /\ UNCHANGED <<collection, activeSort, nextDir>>

\* onSettings moved to another data folder: all views are refreshed from there.
ChangeDataStorage ==
    /\ troubles < MaxTroubles
    /\ collection' \in Collections
    /\ UNCHANGED <<filter, activeSort, nextDir>>
    /\ RefreshCollection(Unknown, 1)

Next ==
    \/ SelectFirstRow
    \/ \E ids \in SUBSET Ids : Select(ids)
    \/ \E down \in BOOLEAN : NudgeSelection(down)
    \/ \E f \in {0} \cup Texts : SetFilter(f)
    \/ \E col \in Columns : OnHeaderClick(col)
    \/ ApplyTheme
    \/ \E print \in Prints : OnAddCard(print) \/ OnEditCard(print)
    \/ OnDeleteCard
    \/ \E print, new \in Prints : OnUpdateSets(print, new)
    \/ MountActiveView
    \/ ChangeDataStorage

Spec == Init /\ [][Next]_vars

-----------------------------------------------------------------------------
\* Properties

\* The detail panel displays the first selected row of the table, with its
\* present content, or nothing if no row is selected: no rebuild, deferred
\* selection or failed reload leaves the two apart.
DetailFollowsTheList == detail = FirstSelected(Rows(cards, filter), selected)

\* Unless the last reload failed, the table holds each record of the collection
\* once and as it is on disk.
TableShowsTheCollection ==
    ~ stale => /\ ToSet(cards) = {collection[i] : i \in Stored}
               /\ IsInjective(cards)

\* Only visible rows are selected, and a rebuild (a reload, a filter, a sort)
\* keeps selected every selected card that is still visible; only adding a card
\* moves the selection.
SelectionSurvivesRebuilds ==
    [][(<<cards, filter>>' # <<cards, filter>> /\ Stored' \subseteq Stored)
         => selected \cap IdsOf(Rows(cards', filter')) \subseteq selected']_vars

\* When all selected cards are deleted the row above them is selected, or the
\* first one left: never nothing, as long as a row is left.
DeletionSelectsTheRowAbove ==
    [][LET rows == Rows(cards, filter)
           rest == KeepIn(rows, {c \in Cards : c.id \notin selected})
       IN  (/\ ~ stale /\ ~ stale' /\ rest # <<>> /\ selected # {}
            /\ Stored' = Stored \ selected
            /\ \A i \in Stored' : collection'[i] = collection[i])
             => \E i \in DOMAIN rest :
                   /\ selected' = {rest[i].id}
                   /\ \/ rows[i] = rest[i] /\ rows[i + 1].id \in selected
                      \/ i = 1 /\ rows[1].id \in selected]_vars
=============================================================================
