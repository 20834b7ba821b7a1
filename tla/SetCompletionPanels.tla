----------------------------- MODULE SetCompletionPanels -----------------------------
(* The Set Completion tabs of four games: a grid with a tile per set in progress,  *)
(* and the checklist of the set that is open. The panel keeps its own copy of the   *)
(* collection and of the catalogues; the grid and the checklist are rebuilt from     *)
(* them when a handler says so, and stand as they are in between. A tab is          *)
(* [game, cards, packs, region, lang, open, tiles, list]; a tile is a part of the   *)
(* game and a row, open is the part and id of the open set, at most one.            *)
EXTENDS SetCompletion, SetFiles

\* A catalogue that is not loaded counts as an empty one.
Packs(tab) == [p \in DOMAIN tab.packs |-> IF tab.packs[p] = Missing THEN {} ELSE tab.packs[p]]

------------------------------------------------------------------------------------
(* What a tab computes: the rows of the grid, the lines of a checklist and the       *)
(* languages to choose from.                                                        *)

\* computePokemonSetCompletion: the chosen region, or both.
PokemonRows(tab) ==
  UNION {{<<p, t>> : t \in PokemonTiles(tab.cards, Packs(tab), p, tab.lang)} :
           p \in {q \in {"West", "Asia"} : tab.region \in {All, q}}}

YuGiOhRows(tab) ==
  {<<"YuGiOh", t>> : t \in YuGiOhTiles(tab.cards, Packs(tab)["YuGiOh"], tab.lang)}
BandaiRows(tab) ==
  {<<"Bandai", t>> : t \in BandaiTiles(tab.cards, Packs(tab)["Bandai"], tab.lang)}
DigiRows(tab) ==
  {<<"Digi", t>> : t \in DigiTiles(tab.cards, Packs(tab)["Digi"], tab.lang)}

RowsOfTab(tab) ==
  CASE tab.game = "Pokemon" -> PokemonRows(tab)
    [] tab.game = "YuGiOh" -> YuGiOhRows(tab)
    [] tab.game = "Bandai" -> BandaiRows(tab)
    [] tab.game = "Digi" -> DigiRows(tab)

PokemonLines(tab, p, id) == PokemonChecklist(tab.cards, Packs(tab), p, id, tab.lang)
YuGiOhLines(tab, id) == YuGiOhChecklist(tab.cards, Packs(tab)["YuGiOh"], id, tab.lang)
BandaiLines(tab, id) == BandaiChecklist(tab.cards, Packs(tab)["Bandai"], id, tab.lang)
DigiLines(tab, id) == DigiChecklist(tab.cards, Packs(tab)["Digi"], id, tab.lang)

Lines(tab, p, id) ==
  CASE tab.game = "Pokemon" -> PokemonLines(tab, p, id)
    [] tab.game = "YuGiOh" -> YuGiOhLines(tab, id)
    [] tab.game = "Bandai" -> BandaiLines(tab, id)
    [] tab.game = "Digi" -> DigiLines(tab, id)

LanguagesOffered(tab) ==
  IF tab.game = "Pokemon" THEN PokemonLanguagesInCollection(tab.cards, tab.region)
                          ELSE LanguagesInCollection(tab.cards)

RegionsOffered(tab) ==
  IF tab.game = "Pokemon" THEN PokemonRegionsInCollection(tab.cards, Packs(tab)) ELSE {}

------------------------------------------------------------------------------------
(* The pages.                                                                      *)

RebuildGrid(tab) == [tab EXCEPT !.tiles = RowsOfTab(tab)]

\* The Back button does just this.
ShowGridPage(tab) == [tab EXCEPT !.open = {}, !.list = {}]

RebuildChecklist(tab) ==
  [tab EXCEPT !.list = UNION {Lines(tab, s[1], s[2]) : s \in tab.open}]

ShowChecklistPage(tab, p, id) == RebuildChecklist([tab EXCEPT !.open = {<<p, id>>}])

StillVisible(tab) == \E s \in tab.open, row \in RowsOfTab(tab) : row[1] = s[1] /\ row[2].id = s[2]

\* As RebuildCurrentView, leaving the checklist of a set that is still in progress.
RebuildGridOnly(tab) ==
  IF tab.open # {} /\ StillVisible(tab) THEN tab ELSE RebuildGrid(ShowGridPage(tab))

RebuildCurrentView(tab) ==
  IF tab.open # {} /\ StillVisible(tab) THEN RebuildChecklist(tab)
                                        ELSE RebuildGrid(ShowGridPage(tab))

------------------------------------------------------------------------------------
(* The filters.                                                                    *)

RefreshRegionChoice(tab) ==
  [tab EXCEPT !.region = IF @ \in RegionsOffered(tab) THEN @ ELSE All]

RefreshLanguageChoice(tab) ==
  [tab EXCEPT !.lang = IF @ \in LanguagesOffered(tab) THEN @ ELSE All]

OnRegionChoice(tab, region) ==
  RebuildCurrentView(RefreshLanguageChoice([tab EXCEPT !.region = region]))

OnLanguageChoice(tab, lang) == RebuildCurrentView([tab EXCEPT !.lang = lang])

------------------------------------------------------------------------------------
(* What the game view calls.                                                       *)

SetCollection(tab, cards) ==
  RebuildCurrentView(RefreshLanguageChoice(RefreshRegionChoice([tab EXCEPT !.cards = cards])))

ReloadFromStore(tab, d) == RebuildGrid(ShowGridPage([tab EXCEPT !.packs = Catalogs(d)]))

CompletionPanel(game, parts) ==
  [game |-> game, cards |-> {}, packs |-> [p \in parts |-> Missing], region |-> All, lang |-> All,
   open |-> {}, tiles |-> {}, list |-> {}]
====
