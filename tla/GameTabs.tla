----------------------------------- MODULE GameTabs -----------------------------------
(* A game view and the files it works on: the sets its dialogs offer, the records,  *)
(* the update of sets and catalogues, the second tab (set completion, or Magic's    *)
(* deck check), the data folder moved in the settings, and restarts. All of it      *)
(* runs on the UI thread, a handler at a time, and every handler writes its files    *)
(* one after the other; each write may fail or be cut short.                        *)
(*                                                                                 *)
(* The records are a set of [region, set, name, date, no, lang], and for Magic of    *)
(* [region, set, name, amount]; their ids and images are CardCollection's matter,    *)
(* rows and selection CardListPanel's. Reading fails on torn files only.            *)
EXTENDS SetCompletionPanels, PokemonCollectionSetSync, MagicDeckCheck, CardTables

CONSTANTS Contents,      \* game -> what the data folders may hold at first
          Replies,       \* part -> what its upstream may answer
          Drafts,        \* part -> what a user may enter besides the set
          Texts,         \* deck lists that are pasted
          MaxCards,      \* game -> bound on the records of a folder
          MaxFaults,     \* game -> bound on the writes that go wrong
          MaxMoves       \* game -> bound on the moves of the data folder

VARIABLES game,      \* the game whose view it is
          disk,      \* data folder -> its files
          folder,    \* the data folder in use
          saved,     \* the one config.json names
          view,      \* attemptedInitialSetLoad_ and the set lists cached, by part
          tab,       \* the second tab
          faults, moves,
          behind,    \* history: the folder in use is not the one the records came from
          catalogOf  \* history: the folder the catalogues were loaded from

vars == <<game, disk, folder, saved, view, tab, faults, moves, behind, catalogOf>>

Folders == {"Home", "Other"}
PartsOf(g) ==
  CASE g = "Magic" -> <<"Magic">> [] g = "Pokemon" -> <<"West", "Asia">> [] g = "YuGiOh" -> <<"YuGiOh">>
    [] g = "Bandai" -> <<"Bandai">> [] g = "Digi" -> <<"Digi">>
Parts == ToSet(PartsOf(game))

\* A data folder has one collection, and a set list and a catalogue per part.
IsFolder(d, parts) ==
  d = [cards |-> d.cards, sets |-> [p \in parts |-> d.sets[p]],
       packs |-> [p \in parts |-> d.packs[p]], legacy |-> [p \in parts |-> d.legacy[p]]]

Here == disk[folder]

\* What fetchAll and fetchAllWithCatalog make of each reply.
Upstream == [p \in DOMAIN Replies |->
               {[list |-> FetchAll(p, r), all |-> FetchAllWithCatalog(p, r)] : r \in Replies[p]}]
IsSet(s) == s = [id |-> s.id, name |-> s.name, date |-> s.date]
IsRecord(c, parts) ==
  /\ c = [region |-> c.region, set |-> c.set, name |-> c.name, date |-> c.date, no |-> c.no, lang |-> c.lang]
  /\ c.region \in parts

\* What a card of a part counts by.
KeysOf(p, no) ==
  CASE p \in {"West", "Asia"} -> WestKeys(no) [] p = "YuGiOh" -> YgoSlotKeys(no)
    [] p = "Bandai" -> BandaiKeys(no) [] p = "Digi" -> DigiKeys(no) [] OTHER -> {}

\* A catalogue has each set once, and no two cards of a set count as the same.
IsCatalogue(p, packs) ==
  /\ \A x, y \in packs : x.id = y.id => x = y
  /\ \A x \in packs :
       /\ IsFiniteSet(x.cards)
       /\ \A d, e \in x.cards : d.no = e.no \/ KeysOf(p, d.no) \cap KeysOf(p, e.no) # {} => d = e

IsList(rows) == rows \in Seq(ToSet(rows))
HasNumbers(rows) == \A i \in DOMAIN rows : rows[i].no \in Numbers
EachSetOnce(sets) == \A s, t \in sets : s.id = t.id => s = t
HasRows(detail) == Answered(detail) => IsList(detail.rows)

\* An upstream that answers has each set once, and lists of cards.
ASSUME RepliesAssumption ==
  \A p \in DOMAIN Replies : \A r \in Replies[p] :
    CASE p = "West" -> Answered(r.list) =>
           LET sets == ParseListResponse(r.list)
           IN  EachSetOnce(sets) /\ \A s \in sets : HasRows(r.details[s.id])
      [] p = "Asia" -> Answered(r.list) =>
           /\ EachSetOnce(ParseListResponse(r.list))
           /\ \A s \in ParseAsiaList(r.list) : HasRows(r.details[s.id])
      [] p = "YuGiOh" -> Answered(r.dump) => IsList(r.dump)
      [] p = "Bandai" -> \A e \in SetManifest : Answered(r.pages[e.page]) =>
           IsList(r.pages[e.page]) /\ HasNumbers(r.pages[e.page])
      [] p = "Digi" -> Answered(r.list) =>
           IsList(r.list) /\ HasNumbers(r.list) /\ PackNames(r.list) \subseteq DOMAIN Slugs
      [] OTHER -> TRUE

\* The parts of a game have an upstream, whose lists can be saved, and its records belong to
\* them; the products that TCGdex lacks are named and dated as in the bundled catalogue
\* (classic_missing_sets.json).
ASSUME TabsAssumption ==
  /\ \A max \in {MaxCards, MaxFaults, MaxMoves} : max \in [DOMAIN Contents -> Nat]
  /\ DOMAIN Contents \subseteq {"Magic", "Pokemon", "YuGiOh", "Bandai", "Digi"}
  /\ \A g \in DOMAIN Contents :
       /\ \A d \in Contents[g] : IsFolder(d, ToSet(PartsOf(g)))
       /\ \A d \in Contents[g], p \in ToSet(PartsOf(g)) : Readable(d.packs[p]) => IsCatalogue(p, d.packs[p])
       /\ \A d \in Contents[g] : g # "Magic" /\ Readable(d.cards) =>
            IsFiniteSet(d.cards) /\ \A c \in d.cards : IsRecord(c, ToSet(PartsOf(g)))
       /\ ToSet(PartsOf(g)) \subseteq DOMAIN Replies
  /\ \A p \in DOMAIN Replies : \A a \in Upstream[p] : Readable(a.list.sets) /\ Readable(a.all.sets)
  /\ \A s \in MissingClassicProducts : IsSet(s) /\ s.date # 0 /\ ApplyEnglishSetName(s) = s

\* A record of Magic, and what the deck check is given: lists of lines, and amounts.
IsMagicRecord(c) ==
  /\ c = [region |-> "Magic", set |-> c.set, name |-> c.name, amount |-> c.amount]
  /\ c.amount \in Nat
IsDeckList(text) == IsList(text) /\ \A i \in DOMAIN text : text[i].qty \in Nat

ASSUME DeckAssumption ==
  "Magic" \in DOMAIN Contents =>
    /\ \A text \in Texts : IsDeckList(text)
    /\ \A draft \in Drafts["Magic"] : draft.amount \in Nat
    /\ \A d \in Contents["Magic"] :
         Readable(d.cards) => IsFiniteSet(d.cards) /\ \A c \in d.cards : IsMagicRecord(c)

ASSUME TablesAssumption == DOMAIN Contents \subseteq DOMAIN SampleCards

Answers == {a \in [Parts -> UNION {Upstream[p] : p \in Parts}] : \A p \in Parts : a[p] \in Upstream[p]}

\* How the writes of a step end; one at most goes wrong.
Outcomes(steps) ==
  {[s \in steps |-> "ok"]}
    \cup {[s \in steps |-> IF s = bad THEN end ELSE "ok"] :
            bad \in {x \in steps : faults < MaxFaults[game]}, end \in {"fails", "torn"}}
Count(w) == faults' = faults + Cardinality({s \in DOMAIN w : w[s] # "ok"})

Writes(d) == disk' = [disk EXCEPT ![folder] = d]

------------------------------------------------------------------------------------
(* Reading the records into the tab.                                              *)

SetCards(t, cards) ==
  IF game = "Magic" THEN SetDeckCollection(t, cards) ELSE SetCollection(t, cards)

\* refreshCollection: a message instead when the file cannot be read.
Refresh(t, d) == IF Readable(d.cards) THEN SetCards(t, LoadCards(d)) ELSE t

\* contentPanel, when the game is mounted for the first time, and the refresh after it.
Mounted(d) ==
  Refresh(IF game = "Magic" THEN DeckPanel({}) ELSE ReloadFromStore(CompletionPanel(game, Parts), d), d)

NoCaches == [attempted |-> FALSE, cache |-> [p \in Parts |-> {}]]

Init == /\ game \in DOMAIN Contents
        /\ \E d \in Contents[game] : disk = [f \in Folders |-> d]
        /\ folder = "Home" /\ saved = "Home"
        /\ view = NoCaches
        /\ tab = Mounted(Here)
        /\ faults = 0 /\ moves = 0
        /\ behind = FALSE /\ catalogOf = "Home"

\* Switching to another game and back themes the view, empties its filter and reloads.
Remount == /\ tab' = Refresh(IF game = "Magic" THEN tab ELSE RebuildCurrentView(tab), Here)
           /\ behind' = FALSE
           /\ UNCHANGED <<game, disk, folder, saved, view, faults, moves, catalogOf>>

Restart == /\ folder' = saved
           /\ view' = NoCaches
           /\ tab' = Mounted(disk[saved])
           /\ behind' = FALSE /\ catalogOf' = saved
           /\ UNCHANGED <<game, disk, saved, faults, moves>>

------------------------------------------------------------------------------------
(* The sets a dialog offers. A state of this computation is [d, cache].            *)

Cache(s, p, sets) == [s EXCEPT !.cache[p] = IF Readable(sets) THEN sets ELSE {}]

\* ensureSetsLoaded, per part: from the file, else from the upstream.
LoadOrRefresh(s, p, fetched, w) ==
  LET read == Cache([s EXCEPT !.d = Promote(s.d, p, w)], p, GetSets(s.d, p))
  IN  CASE read.cache[p] # {} \/ ~fetched.ok -> read
        [] OTHER -> Cache([read EXCEPT !.d = SaveSets(read.d, p, fetched.sets, w)], p,
                          IF w = "ok" THEN fetched.sets ELSE {})

\* setsForDialog, per part: what is cached, else the file once more.
SetsForDialog(s, p, w) ==
  IF s.cache[p] # {} THEN s ELSE Cache([s EXCEPT !.d = Promote(s.d, p, w)], p, GetSets(s.d, p))

\* For each part of the game, in order.
ForParts(Op(_, _), s) ==
  LET parts == PartsOf(game)
      first == Op(s, parts[1])
  IN  IF Len(parts) = 1 THEN first ELSE Op(first, parts[2])

Offered(answers, w) ==
  LET start == [d |-> Here, cache |-> view.cache]
      ensured == IF view.attempted THEN start
                 ELSE ForParts(LAMBDA s, p : LoadOrRefresh(s, p, answers[p].list, w[p]), start)
  IN  ForParts(LAMBDA s, p : SetsForDialog(s, p, w[p]), ensured)

\* A dialog opens with the sets it offers, and is cancelled or confirmed.
DialogOpens(s, w) ==
  /\ view' = [attempted |-> TRUE, cache |-> s.cache]
  /\ Count(w)
  /\ UNCHANGED <<game, folder, saved, moves, catalogOf>>
Cancels(s) == Writes(s.d) /\ UNCHANGED <<tab, behind>>

------------------------------------------------------------------------------------
(* The records. A step that saves them ends with a refresh if it went well.        *)

\* A set and what is entered, as the dialog hands them over.
Record(p, s, draft) ==
  IF p = "Magic" THEN [region |-> p, set |-> s.id, name |-> draft.name, amount |-> draft.amount]
  ELSE [region |-> p, set |-> s.id, name |-> s.name, date |-> s.date, no |-> draft.no, lang |-> draft.lang]

Redraft(c, draft) ==
  IF c.region = "Magic" THEN [c EXCEPT !.name = draft.name, !.amount = draft.amount]
                        ELSE [c EXCEPT !.no = draft.no, !.lang = draft.lang]

Save(d, cards, w) ==
  LET after == [d EXCEPT !.cards = Write(w, @, cards)]
  IN  /\ Writes(after)
      /\ IF w = "ok" THEN tab' = Refresh(tab, after) /\ behind' = FALSE ELSE UNCHANGED <<tab, behind>>

\* The record with the id: c itself, or another one where the folder changed under the table.
WithIdOf(c, d) == IF c \in LoadCards(d) THEN {c} ELSE IF behind THEN LoadCards(d) ELSE {}

Add(s, w) ==
  /\ Readable(s.d.cards)
  /\ \E p \in Parts : \E set \in s.cache[p], draft \in Drafts[p] :
       LET cards == LoadCards(s.d) \cup {Record(p, set, draft)}
       IN  Cardinality(cards) <= MaxCards[game] /\ Save(s.d, cards, w)

OnAddCard ==
  \E w \in Outcomes(Parts \cup {"cards"}) : \E s \in {Offered(answers, w) : answers \in Answers} :
    DialogOpens(s, w) /\ (Cancels(s) \/ Add(s, w["cards"]))

\* What may become of one of the table's records: it keeps its set, or gets another one of
\* those the dialog offers, in its region or the other.
Edits(c, cache) ==
  {Redraft(c, draft) : draft \in Drafts[c.region]} \cup
  UNION {{Record(p, set, draft) : set \in cache[p], draft \in Drafts[p]} : p \in Parts}

Edit(s, w) ==
  /\ Readable(s.d.cards)
  /\ \E c \in tab.cards : \E old \in WithIdOf(c, s.d), new \in Edits(c, s.cache) :
       Save(s.d, (LoadCards(s.d) \ {old}) \cup {new}, w)

OnEditCard ==
  /\ tab.cards # {}
  /\ \E w \in Outcomes(Parts \cup {"cards"}) : \E s \in {Offered(answers, w) : answers \in Answers} :
       DialogOpens(s, w) /\ (Cancels(s) \/ Edit(s, w["cards"]))

\* A deletion that fails refreshes too.
OnDeleteCard ==
  /\ \E c \in tab.cards :
       \/ /\ Readable(Here.cards)
          /\ \E old \in WithIdOf(c, Here), w \in Outcomes({"cards"}) :
               LET d == [Here EXCEPT !.cards = Write(w["cards"], @, LoadCards(Here) \ {old})]
               IN  Writes(d) /\ tab' = Refresh(tab, d) /\ Count(w)
       \/ /\ ~Readable(Here.cards) \/ behind
          /\ tab' = Refresh(tab, Here) /\ UNCHANGED <<disk, faults>>
  /\ behind' = FALSE
  /\ UNCHANGED <<game, folder, saved, view, moves, catalogOf>>

------------------------------------------------------------------------------------
(* Sets > Update. A state of this computation is [d, cache], as above.             *)

Cached(s) == view' = [view EXCEPT !.cache = s.cache]

\* The tab after an update: the catalogues and then the records are loaded again.
Reloaded(t, d) == Refresh(ReloadFromStore(t, d), d)
TabReloads(t, d) == tab' = Reloaded(t, d) /\ behind' = FALSE /\ catalogOf' = folder

\* SetService::updateSets: no catalogue, and the list is cached once it is saved.
OnUpdateMagicSets ==
  /\ game = "Magic"
  /\ \E fetched \in {a.list : a \in Upstream["Magic"]}, w \in Outcomes({"sets"}) :
         /\ fetched.ok
         /\ Writes(SaveSets(Here, "Magic", fetched.sets, w["sets"])) /\ Count(w)
         /\ view' = IF w["sets"] = "ok" THEN [view EXCEPT !.cache["Magic"] = fetched.sets] ELSE view
  /\ UNCHANGED <<tab, behind, catalogOf>>

\* As UpdateRegion, caching a list that could not be saved.
UpdateRegionAnyway(s, p, fetched, wSets, wCatalog) ==
  IF ~fetched.ok THEN s
  ELSE [d |-> SaveCatalog(SaveSets(s.d, p, fetched.sets, wSets), p, fetched.packs, wCatalog),
        cache |-> [s.cache EXCEPT ![p] = fetched.sets]]

\* A list that cannot be saved ends the region; a catalogue that cannot does not.
UpdateRegion(s, p, fetched, wSets, wCatalog) ==
  CASE ~fetched.ok -> s
    [] fetched.ok /\ wSets # "ok" -> [s EXCEPT !.d = SaveSets(@, p, fetched.sets, wSets)]
    [] OTHER -> [d |-> SaveCatalog(SaveSets(s.d, p, fetched.sets, "ok"), p, fetched.packs, wCatalog),
                 cache |-> [s.cache EXCEPT ![p] = fetched.sets]]

UpdateRegions(answers, w) ==
  LET west == UpdateRegion([d |-> Here, cache |-> view.cache], "West",
                           answers["West"].all, w["West"], w["WestCatalog"])
  IN  UpdateRegion(west, "Asia", answers["Asia"].all, w["Asia"], w["AsiaCatalog"])

\* The records follow the lists, wherever those come from; saved if one of them changed.
FollowLists(s, w) ==
  LET cards == SyncPokemonCollectionSets(LoadCards(s.d), s.cache["West"], s.cache["Asia"])
      touched == \E c \in LoadCards(s.d) : SyncCard(c, s.cache["West"], s.cache["Asia"]) # c
  IN  IF Readable(s.d.cards) /\ touched
      THEN [d |-> [s.d EXCEPT !.cards = Write(w, @, cards)], saved |-> w = "ok"]
      ELSE [d |-> s.d, saved |-> FALSE]

OnUpdatePokemonSets ==
  /\ game = "Pokemon"
  /\ \E answers \in Answers, w \in Outcomes({"West", "Asia", "WestCatalog", "AsiaCatalog", "cards"}) :
       LET both == UpdateRegions(answers, w)
           after == FollowLists(both, w["cards"])
       IN  /\ Writes(after.d) /\ Cached(both) /\ Count(w)
           /\ TabReloads(IF after.saved THEN Refresh(tab, after.d) ELSE tab, after.d)

\* A catalogue that cannot be saved is a warning.
OnUpdateYuGiOhSets ==
  /\ game = "YuGiOh"
  /\ \E fetched \in {a.all : a \in Upstream["YuGiOh"]}, w \in Outcomes({"sets", "catalog"}) :
       LET s == UpdateRegion([d |-> Here, cache |-> view.cache], "YuGiOh", fetched, w["sets"], w["catalog"])
       IN  /\ fetched.ok /\ Writes(s.d) /\ Cached(s) /\ Count(w)
           /\ IF w["sets"] = "ok" THEN TabReloads(tab, s.d) ELSE UNCHANGED <<tab, behind, catalogOf>>

OnUpdateDigiSets ==
  /\ game = "Digi"
  /\ \E fetched \in {a.all : a \in Upstream["Digi"]}, w \in Outcomes({"sets", "catalog"}) :
       LET s == UpdateRegion([d |-> Here, cache |-> view.cache], "Digi", fetched, w["sets"], w["catalog"])
       IN  /\ fetched.ok /\ Writes(s.d) /\ Cached(s) /\ Count(w)
           /\ IF w["sets"] = "ok" THEN TabReloads(tab, s.d) ELSE UNCHANGED <<tab, behind, catalogOf>>

\* Bandai: a catalogue that cannot be saved ends it, before the list is cached.
DownloadSetsAndCatalog ==
  \E fetched \in {a.all : a \in Upstream["Bandai"]}, w \in Outcomes({"sets", "catalog"}) :
    LET s == UpdateRegion([d |-> Here, cache |-> view.cache], "Bandai", fetched, w["sets"], w["catalog"])
    IN  /\ fetched.ok /\ Writes(s.d) /\ Count(w)
        /\ IF w["sets"] = "ok" /\ w["catalog"] = "ok" THEN Cached(s) /\ TabReloads(tab, s.d)
                                                      ELSE UNCHANGED <<view, tab, behind, catalogOf>>

OnUpdateBandaiSets == game = "Bandai" /\ DownloadSetsAndCatalog

\* The tab is visited without a catalogue file: it is downloaded.
SelectTab == game = "Bandai" /\ Here.packs["Bandai"] = Missing /\ DownloadSetsAndCatalog

OnUpdateSets ==
  /\ \/ OnUpdateMagicSets \/ OnUpdatePokemonSets \/ OnUpdateYuGiOhSets \/ OnUpdateDigiSets
     \/ OnUpdateBandaiSets \/ SelectTab
  /\ UNCHANGED <<game, folder, saved, moves>>

------------------------------------------------------------------------------------
(* The second tab.                                                                *)

InTab == UNCHANGED <<game, disk, folder, saved, view, faults, moves, behind, catalogOf>>

OnChooseRegion ==
  /\ InTab /\ game = "Pokemon"
  /\ \E r \in {All} \cup RegionsOffered(tab) : tab' = OnRegionChoice(tab, r)

OnChooseLanguage ==
  /\ InTab /\ game # "Magic"
  /\ \E l \in {All} \cup LanguagesOffered(tab) : tab' = OnLanguageChoice(tab, l)

OpenTile ==
  /\ InTab /\ game # "Magic" /\ tab.open = {}
  /\ \E row \in tab.tiles : tab' = ShowChecklistPage(tab, row[1], row[2].id)

Back ==
  /\ InTab /\ game # "Magic" /\ tab.open # {}
  /\ tab' = ShowGridPage(tab)

\* The text can be changed on the input page only.
TypeDeck ==
  /\ InTab /\ game = "Magic" /\ ~tab.showing
  /\ \E text \in Texts : tab' = [tab EXCEPT !.text = text]

Analyze == InTab /\ game = "Magic" /\ ~tab.showing /\ tab' = OnAnalyze(tab)
Clear == InTab /\ game = "Magic" /\ tab.showing /\ tab' = OnClear(tab)

------------------------------------------------------------------------------------
(* Settings.                                                                      *)

MovesTo(f) == f # folder /\ moves < MaxMoves[game] /\ moves' = moves + 1 /\ folder' = f

\* onSettings: all views are refreshed from the new folder; nothing else is dropped.
MoveFolder ==
  /\ \E f \in Folders : MovesTo(f) /\ saved' = f /\ tab' = Refresh(tab, disk[f])
  /\ behind' = FALSE
  /\ UNCHANGED <<game, disk, view, faults, catalogOf>>

\* config.json cannot be written: the dialog stays, is cancelled, and the configuration
\* in memory has the new folder all the same.
SettingsFail ==
  /\ faults < MaxFaults[game] /\ faults' = faults + 1
  /\ \E f \in Folders : MovesTo(f)
  /\ behind' = TRUE
  /\ UNCHANGED <<game, disk, saved, view, tab, catalogOf>>

Next == \/ OnAddCard \/ OnEditCard \/ OnDeleteCard
        \/ OnUpdateSets
        \/ OnChooseRegion \/ OnChooseLanguage \/ OpenTile \/ Back
        \/ TypeDeck \/ Analyze \/ Clear
        \/ Remount \/ MoveFolder \/ SettingsFail \/ Restart

Spec == Init /\ [][Next]_vars

------------------------------------------------------------------------------------

\* The records the tab should know.
Known == ~behind /\ Readable(Here.cards)

\* The checklist that is open ticks what collection.json and the catalogue on disk say
\* in the chosen language, and the filters offer that language and region, after any
\* edit, update, move or failed write: the tab's copies never fall behind unnoticed.
ChecklistShowsTheCollection ==
  game # "Magic" /\ Known =>
    LET onDisk == [tab EXCEPT !.cards = LoadCards(Here), !.packs = Catalogs(Here)]
    IN  /\ (catalogOf = folder /\ \A s \in tab.open : Readable(Here.packs[s[1]])) =>
             tab.list = UNION {Lines(onDisk, s[1], s[2]) : s \in tab.open}
        /\ tab.lang \in {All} \cup LanguagesOffered(onDisk)

\* A tile counts what its checklist shows, though the two are computed apart: as many
\* cards as lines, as many owned as ticked; and no record ticks two lines, whatever
\* numbers the upstream lists twice.
CountsAreHonest ==
  game # "Magic" =>
    \A row \in RowsOfTab(tab) :
      LET lines == Lines(tab, row[1], row[2].id)
          ticked == {l \in lines : l.owned}
          mine == {c \in tab.cards : /\ c.region = row[1] /\ c.set = row[2].id
                                    /\ tab.lang \in {All, c.lang}}
      IN  /\ row[2].total = Cardinality(lines)
          /\ row[2].owned = Cardinality(ticked)
          /\ Cardinality(ticked) <= Cardinality(mine)

Places(cards) == {<<c.region, c.set, c.no, c.lang>> : c \in cards}
NewPlaces == Places(LoadCards(Here')) \ Places(LoadCards(Here))

\* Where a record with this set is found once it is read back.
PlaceAt(p, id, d) == <<p, LoadCard([region |-> p, set |-> id]).set, d.no, d.lang>>
OfferedPlaces(cache, cards) ==
  UNION {{PlaceAt(p, id, d) :
            id \in {s.id : s \in cache[p]} \cup {c.set : c \in {x \in cards : x.region = p}},
            d \in Drafts[p]} : p \in Parts}

\* A record gets another set, number, language or region one at a time, and one that the
\* dialog offers for its region: the update that renames and redates the sets of all
\* records moves none of them to another checklist.
RecordsKeepTheirPlace ==
  [][game # "Magic" /\ folder' = folder /\ Readable(Here.cards) /\ Readable(Here'.cards) =>
       /\ Cardinality(NewPlaces) <= 1
       /\ NewPlaces \subseteq OfferedPlaces(view'.cache, tab.cards)]_vars

\* What a dialog offers from its cache is what the set list on disk says, whichever of
\* the writes of an update failed.
PickerIsWhatIsStored ==
  moves = 0 =>
    \A p \in Parts : view.cache[p] # {} /\ Readable(LoadSets(Here, p)) =>
      view.cache[p] = GetSets(Here, p)

\* docs/assets-and-info-apis.md: the picker of Asian sets stays English, for lists saved
\* by older versions too.
SetPickerIsEnglish ==
  game = "Pokemon" => \A s \in view.cache["Asia"] : s.name \notin CjkNames

\* The result on screen accounts for every card of the pasted list once: what is missing
\* and what is owned add up, over all its lines and all records of the name.
DeckIsAccountedFor ==
  game = "Magic" /\ Known /\ tab.showing =>
    \A i \in DOMAIN tab.text :
      LET key == Lower[DeckName(tab.text[i])]
          lines == {j \in DOMAIN tab.text : Lower[DeckName(tab.text[j])] = key}
          required == MapThenSumSet(LAMBDA j : tab.text[j].qty, lines)
          owned == MapThenSumSet(LAMBDA c : c.amount, {c \in LoadCards(Here) : Lower[c.name] = key})
      IN  required > 0 =>
            /\ {r.missing : r \in {x \in tab.result.missing : Lower[x.name] = key}}
                 = {n \in {required - owned} : n > 0}
            /\ {r.owned : r \in {x \in tab.result.owned : Lower[x.name] = key}}
                 = {n \in {owned} : n > 0}

\* The table of the game sorts by the column that was clicked as it is shown, ties in the
\* order of the click before, and the filter finds whatever a row shows: cells, sort keys
\* and filter fields are written down apart, per game, and must not drift apart.
TableDoesWhatItShows == game \in TablesThatAgree
====
