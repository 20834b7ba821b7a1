-------------------------- MODULE GameTabs_proofs --------------------------
(***************************************************************************)
(* Proofs about GameTabs, for any contents of the data folders, replies,   *)
(* drafts, bounds and tables, and through every update, edit, move and     *)
(* failed write: the open checklist shows what the files say; what a       *)
(* dialog offers is the stored list of sets, those of Japanese sets in     *)
(* English; records keep their place; a tile counts its checklist; a deck  *)
(* check accounts for the list and the collection; and the table sorts and *)
(* finds by what it shows.                                                 *)
(***************************************************************************)
EXTENDS GameTabs, FiniteSetTheorems, FunctionTheorems, TLAPS

Games == {"Magic", "Pokemon", "YuGiOh", "Bandai", "Digi"}
PartsIn(g) == ToSet(PartsOf(g))

\* A game has one part, Pokemon the two regions, and its parts are those in its sequence.
LEMMA PartsOfGames ==
    /\ PartsIn("Magic") = {"Magic"} /\ PartsIn("Pokemon") = {"West", "Asia"}
    /\ PartsIn("YuGiOh") = {"YuGiOh"} /\ PartsIn("Bandai") = {"Bandai"}
    /\ PartsIn("Digi") = {"Digi"}
    /\ \A g \in Games : Len(PartsOf(g)) \in {1, 2} /\ PartsOf(g)[1] \in PartsIn(g)
                          /\ (Len(PartsOf(g)) = 2 => PartsOf(g)[2] \in PartsIn(g))
<1>1. PartsIn("Pokemon") = {"West", "Asia"}
  <2>1. DOMAIN <<"West", "Asia">> = {1, 2} /\ PartsOf("Pokemon") = <<"West", "Asia">>
    BY DEF PartsOf
  <2> QED BY <2>1 DEF PartsIn, ToSet
<1>2. ASSUME NEW g \in Games \ {"Pokemon"}, NEW p, PartsOf(g) = <<p>>
      PROVE  PartsIn(g) = {p} /\ Len(PartsOf(g)) = 1 /\ PartsOf(g)[1] = p
  <2>1. DOMAIN <<p>> = {1} /\ <<p>>[1] = p /\ Len(<<p>>) = 1
    OBVIOUS
  <2> QED BY <1>2, <2>1 DEF PartsIn, ToSet
<1>3. /\ PartsOf("Magic") = <<"Magic">> /\ PartsOf("YuGiOh") = <<"YuGiOh">>
      /\ PartsOf("Bandai") = <<"Bandai">> /\ PartsOf("Digi") = <<"Digi">>
      /\ PartsOf("Pokemon") = <<"West", "Asia">>
  BY DEF PartsOf
<1>4. \A g \in Games \ {"Pokemon"} : Len(PartsOf(g)) = 1 /\ PartsOf(g)[1] \in PartsIn(g)
                                       /\ PartsIn(g) = {PartsOf(g)[1]}
  BY <1>2, <1>3 DEF Games
<1>5. Len(PartsOf("Pokemon")) = 2 /\ PartsOf("Pokemon")[1] = "West" /\ PartsOf("Pokemon")[2] = "Asia"
  BY <1>3
<1>6. \A g \in Games : Len(PartsOf(g)) \in {1, 2} /\ PartsOf(g)[1] \in PartsIn(g)
                          /\ (Len(PartsOf(g)) = 2 => PartsOf(g)[2] \in PartsIn(g))
  BY <1>1, <1>4, <1>5
<1> QED BY <1>1, <1>2, <1>3, <1>6 DEF Games

-----------------------------------------------------------------------------
(***************************************************************************)
(* A tab by itself.                                                        *)
(***************************************************************************)

\* A tab of set completion is a record with these fields, and nothing else.
IsTab(t) ==
    /\ t = [game |-> t.game, cards |-> t.cards, packs |-> t.packs, region |-> t.region,
            lang |-> t.lang, open |-> t.open, tiles |-> t.tiles, list |-> t.list]
    /\ t.game \in Games \ {"Magic"}
    /\ t.packs = [p \in PartsIn(t.game) |-> t.packs[p]]

\* What is open and what can be opened are sets of the game's parts.
PagesOK(t) ==
    /\ \A s \in t.open : s[1] \in PartsIn(t.game)
    /\ \A row \in t.tiles : row[1] \in PartsIn(t.game)

LangOK(t) == t.lang \in {All} \cup LanguagesOffered(t)
ListOK(t) == t.list = UNION {Lines(t, s[1], s[2]) : s \in t.open}

\* What each change of a tab makes of it, field by field.
ChangesOf(t, x, y) ==
    /\ [t EXCEPT !.cards = x] =
         [game |-> t.game, cards |-> x, packs |-> t.packs, region |-> t.region,
          lang |-> t.lang, open |-> t.open, tiles |-> t.tiles, list |-> t.list]
    /\ [t EXCEPT !.packs = x] =
         [game |-> t.game, cards |-> t.cards, packs |-> x, region |-> t.region,
          lang |-> t.lang, open |-> t.open, tiles |-> t.tiles, list |-> t.list]
    /\ [t EXCEPT !.cards = x, !.packs = y] =
         [game |-> t.game, cards |-> x, packs |-> y, region |-> t.region,
          lang |-> t.lang, open |-> t.open, tiles |-> t.tiles, list |-> t.list]
    /\ [t EXCEPT !.region = x] =
         [game |-> t.game, cards |-> t.cards, packs |-> t.packs, region |-> x,
          lang |-> t.lang, open |-> t.open, tiles |-> t.tiles, list |-> t.list]
    /\ [t EXCEPT !.lang = x] =
         [game |-> t.game, cards |-> t.cards, packs |-> t.packs, region |-> t.region,
          lang |-> x, open |-> t.open, tiles |-> t.tiles, list |-> t.list]
    /\ [t EXCEPT !.open = x] =
         [game |-> t.game, cards |-> t.cards, packs |-> t.packs, region |-> t.region,
          lang |-> t.lang, open |-> x, tiles |-> t.tiles, list |-> t.list]
    /\ [t EXCEPT !.open = x, !.list = y] =
         [game |-> t.game, cards |-> t.cards, packs |-> t.packs, region |-> t.region,
          lang |-> t.lang, open |-> x, tiles |-> t.tiles, list |-> y]
    /\ [t EXCEPT !.tiles = x] =
         [game |-> t.game, cards |-> t.cards, packs |-> t.packs, region |-> t.region,
          lang |-> t.lang, open |-> t.open, tiles |-> x, list |-> t.list]
    /\ [t EXCEPT !.list = x] =
         [game |-> t.game, cards |-> t.cards, packs |-> t.packs, region |-> t.region,
          lang |-> t.lang, open |-> t.open, tiles |-> t.tiles, list |-> x]

\* Changing fields of a tab leaves the others as they are.
LEMMA FieldsOfATab ==
    ASSUME NEW t, IsTab(t), NEW x, NEW y
    PROVE  ChangesOf(t, x, y)
<1> DEFINE A == {t.game} B == {t.cards, x} C == {t.packs, x, y} D == {t.region, x}
           E == {t.lang, x} F == {t.open, x} G == {t.tiles, x} L == {t.list, x, y}
           R == [game : A, cards : B, packs : C, region : D, lang : E, open : F,
                 tiles : G, list : L]
           Whole(u) == u = [game |-> u.game, cards |-> u.cards, packs |-> u.packs,
                            region |-> u.region, lang |-> u.lang, open |-> u.open,
                            tiles |-> u.tiles, list |-> u.list]
           Are(u, a, b, c, d, e, f, g) ==
             /\ u.game = t.game /\ u.cards = a /\ u.packs = b /\ u.region = c /\ u.lang = d
             /\ u.open = e /\ u.tiles = f /\ u.list = g
           ct == [t EXCEPT !.cards = x]
           kt == [t EXCEPT !.packs = x]
           ckt == [t EXCEPT !.cards = x, !.packs = y]
           rt == [t EXCEPT !.region = x]
           lt == [t EXCEPT !.lang = x]
           ot == [t EXCEPT !.open = x]
           olt == [t EXCEPT !.open = x, !.list = y]
           wt == [t EXCEPT !.tiles = x]
           qt == [t EXCEPT !.list = x]
<1>1. t \in R
  BY DEF IsTab
<1>2. /\ x \in B /\ x \in C /\ x \in D /\ x \in E /\ x \in F /\ x \in G /\ x \in L
      /\ y \in C /\ y \in L
  OBVIOUS
<1>3. \A u \in R : Whole(u)
  OBVIOUS
<1> HIDE DEF A, B, C, D, E, F, G, L
<1>4. ct \in R /\ Are(ct, x, t.packs, t.region, t.lang, t.open, t.tiles, t.list)
  BY <1>1, <1>2
<1>5. kt \in R /\ Are(kt, t.cards, x, t.region, t.lang, t.open, t.tiles, t.list)
  BY <1>1, <1>2
<1>6. ckt \in R /\ Are(ckt, x, y, t.region, t.lang, t.open, t.tiles, t.list)
  BY <1>1, <1>2
<1>7. rt \in R /\ Are(rt, t.cards, t.packs, x, t.lang, t.open, t.tiles, t.list)
  BY <1>1, <1>2
<1>8. lt \in R /\ Are(lt, t.cards, t.packs, t.region, x, t.open, t.tiles, t.list)
  BY <1>1, <1>2
<1>9. ot \in R /\ Are(ot, t.cards, t.packs, t.region, t.lang, x, t.tiles, t.list)
  BY <1>1, <1>2
<1>10. olt \in R /\ Are(olt, t.cards, t.packs, t.region, t.lang, x, t.tiles, y)
  BY <1>1, <1>2
<1>11. wt \in R /\ Are(wt, t.cards, t.packs, t.region, t.lang, t.open, x, t.list)
  BY <1>1, <1>2
<1>12. qt \in R /\ Are(qt, t.cards, t.packs, t.region, t.lang, t.open, t.tiles, x)
  BY <1>1, <1>2
<1> HIDE DEF R, ct, kt, ckt, rt, lt, ot, olt, wt, qt
<1>13. ct = [game |-> t.game, cards |-> x, packs |-> t.packs, region |-> t.region,
            lang |-> t.lang, open |-> t.open, tiles |-> t.tiles, list |-> t.list]
  BY <1>3, <1>4
<1>14. kt = [game |-> t.game, cards |-> t.cards, packs |-> x, region |-> t.region,
            lang |-> t.lang, open |-> t.open, tiles |-> t.tiles, list |-> t.list]
  BY <1>3, <1>5
<1>15. ckt = [game |-> t.game, cards |-> x, packs |-> y, region |-> t.region,
             lang |-> t.lang, open |-> t.open, tiles |-> t.tiles, list |-> t.list]
  BY <1>3, <1>6
<1>16. rt = [game |-> t.game, cards |-> t.cards, packs |-> t.packs, region |-> x,
            lang |-> t.lang, open |-> t.open, tiles |-> t.tiles, list |-> t.list]
  BY <1>3, <1>7
<1>17. lt = [game |-> t.game, cards |-> t.cards, packs |-> t.packs, region |-> t.region,
            lang |-> x, open |-> t.open, tiles |-> t.tiles, list |-> t.list]
  BY <1>3, <1>8
<1>18. ot = [game |-> t.game, cards |-> t.cards, packs |-> t.packs, region |-> t.region,
            lang |-> t.lang, open |-> x, tiles |-> t.tiles, list |-> t.list]
  BY <1>3, <1>9
<1>19. olt = [game |-> t.game, cards |-> t.cards, packs |-> t.packs, region |-> t.region,
             lang |-> t.lang, open |-> x, tiles |-> t.tiles, list |-> y]
  BY <1>3, <1>10
<1>20. wt = [game |-> t.game, cards |-> t.cards, packs |-> t.packs, region |-> t.region,
            lang |-> t.lang, open |-> t.open, tiles |-> x, list |-> t.list]
  BY <1>3, <1>11
<1>21. qt = [game |-> t.game, cards |-> t.cards, packs |-> t.packs, region |-> t.region,
            lang |-> t.lang, open |-> t.open, tiles |-> t.tiles, list |-> x]
  BY <1>3, <1>12
<1> QED BY <1>13, <1>14, <1>15, <1>16, <1>17, <1>18, <1>19, <1>20, <1>21
     DEF ChangesOf, ct, kt, ckt, rt, lt, ot, olt, wt, qt

\* The same of turning the page.
LEMMA PageOfATab ==
    ASSUME NEW t, IsTab(t), NEW x, NEW y
    PROVE  [t EXCEPT !.open = x, !.list = y] =
             [game |-> t.game, cards |-> t.cards, packs |-> t.packs, region |-> t.region,
              lang |-> t.lang, open |-> x, tiles |-> t.tiles, list |-> y]
<1>1. ChangesOf(t, x, y)
  BY FieldsOfATab
<1> QED BY <1>1 DEF ChangesOf

\* A line depends on game, records, language and the catalogue of its own part.
LEMMA LinesDependOn ==
    ASSUME NEW t, NEW u, t.game \in Games \ {"Magic"}, t.game = u.game, t.cards = u.cards,
           t.lang = u.lang, NEW p \in PartsIn(t.game), NEW id,
           p \in DOMAIN t.packs, p \in DOMAIN u.packs, t.packs[p] = u.packs[p]
    PROVE  Lines(t, p, id) = Lines(u, p, id)
<1>1. Packs(t)[p] = Packs(u)[p]
  BY DEF Packs
<1>2. CASE t.game = "Pokemon"
  <2>1. PokemonLines(t, p, id) = PokemonLines(u, p, id)
    BY <1>1 DEF PokemonLines, PokemonChecklist
  <2> QED BY <1>2, <2>1 DEF Lines
<1>3. CASE t.game = "YuGiOh"
  <2>1. p = "YuGiOh"
    BY <1>3, PartsOfGames
  <2>2. YuGiOhLines(t, id) = YuGiOhLines(u, id)
    BY <1>1, <2>1 DEF YuGiOhLines
  <2> QED BY <1>3, <2>2 DEF Lines
<1>4. CASE t.game = "Bandai"
  <2>1. p = "Bandai"
    BY <1>4, PartsOfGames
  <2>2. BandaiLines(t, id) = BandaiLines(u, id)
    BY <1>1, <2>1 DEF BandaiLines
  <2> QED BY <1>4, <2>2 DEF Lines
<1>5. CASE t.game = "Digi"
  <2>1. p = "Digi"
    BY <1>5, PartsOfGames
  <2>2. DigiLines(t, id) = DigiLines(u, id)
    BY <1>1, <2>1 DEF DigiLines
  <2> QED BY <1>5, <2>2 DEF Lines
<1> QED BY <1>2, <1>3, <1>4, <1>5 DEF Games

\* The tiles of a game are sets of its parts.
LEMMA RowsAreOfTheParts ==
    ASSUME NEW t, t.game \in Games \ {"Magic"}
    PROVE  \A row \in RowsOfTab(t) : row[1] \in PartsIn(t.game)
<1>1. CASE t.game = "Pokemon"
  BY <1>1, PartsOfGames DEF RowsOfTab, PokemonRows
<1>2. CASE t.game = "YuGiOh"
  BY <1>2, PartsOfGames DEF RowsOfTab, YuGiOhRows
<1>3. CASE t.game = "Bandai"
  BY <1>3, PartsOfGames DEF RowsOfTab, BandaiRows
<1>4. CASE t.game = "Digi"
  BY <1>4, PartsOfGames DEF RowsOfTab, DigiRows
<1> QED BY <1>1, <1>2, <1>3, <1>4 DEF Games

\* The languages on offer are those of the records and the region.
LEMMA LanguagesDependOn ==
    ASSUME NEW t, NEW u, t.game = u.game, t.cards = u.cards, t.region = u.region
    PROVE  LanguagesOffered(t) = LanguagesOffered(u)
  BY DEF LanguagesOffered

\* u has the same game, records, catalogues and filters as t.
SameBasis(t, u) ==
    /\ u.game = t.game /\ u.cards = t.cards /\ u.packs = t.packs
    /\ u.region = t.region /\ u.lang = t.lang

\* Two tabs that show the same pages of the same records list the same lines.
LEMMA SameList ==
    ASSUME NEW t, NEW u, IsTab(t), IsTab(u), SameBasis(t, u), PagesOK(t), t.open = u.open
    PROVE  UNION {Lines(t, s[1], s[2]) : s \in t.open} = UNION {Lines(u, s[1], s[2]) : s \in u.open}
<1>1. \A s \in t.open : Lines(t, s[1], s[2]) = Lines(u, s[1], s[2])
  <2> TAKE s \in t.open
  <2>1. s[1] \in PartsIn(t.game) /\ s[1] \in DOMAIN t.packs /\ s[1] \in DOMAIN u.packs
    BY DEF PagesOK, IsTab, SameBasis
  <2> QED BY <2>1, LinesDependOn DEF SameBasis, IsTab
<1> QED BY <1>1

-----------------------------------------------------------------------------
\* What the pages, the filters and the game view make of a tab.

\* RebuildGrid leaves a list that shows what is open: nothing.
LEMMA GridIsFine ==
    ASSUME NEW t, IsTab(t)
    PROVE  LET u == RebuildGrid(ShowGridPage(t))
           IN  IsTab(u) /\ PagesOK(u) /\ SameBasis(t, u) /\ ListOK(u)
<1> DEFINE v == ShowGridPage(t)
           r == RowsOfTab(v)
           u == RebuildGrid(v)
<1>1. /\ IsTab(v) /\ SameBasis(t, v) /\ v.open = {} /\ v.list = {}
  <2>1. v = [game |-> t.game, cards |-> t.cards, packs |-> t.packs, region |-> t.region,
             lang |-> t.lang, open |-> {}, tiles |-> t.tiles, list |-> {}]
    <3> DEFINE e == {}
    <3>1. v = [t EXCEPT !.open = e, !.list = e]
      BY DEF ShowGridPage
    <3> HIDE DEF v, e
    <3>2. v = [game |-> t.game, cards |-> t.cards, packs |-> t.packs, region |-> t.region,
               lang |-> t.lang, open |-> e, tiles |-> t.tiles, list |-> e]
      BY <3>1, PageOfATab
    <3> QED BY <3>2 DEF e
  <2> HIDE DEF v
  <2> QED BY <2>1 DEF IsTab, SameBasis
<1> HIDE DEF v
<1>2. \A row \in r : row[1] \in PartsIn(v.game)
  BY <1>1, RowsAreOfTheParts DEF IsTab
<1>3. u = [v EXCEPT !.tiles = r]
  BY DEF RebuildGrid
<1> HIDE DEF r
<1>4. IsTab(u) /\ SameBasis(v, u) /\ u.open = {} /\ u.list = {} /\ u.tiles = r
  BY <1>1, <1>3, FieldsOfATab DEF IsTab, SameBasis
<1> HIDE DEF u
<1>5. ListOK(u)
  BY <1>4 DEF ListOK
<1>6. PagesOK(u) /\ SameBasis(t, u)
  BY <1>1, <1>2, <1>4 DEF PagesOK, SameBasis
<1> QED BY <1>4, <1>5, <1>6 DEF u, v

\* RebuildChecklist leaves a list that shows what is open.
LEMMA ChecklistIsFine ==
    ASSUME NEW t, IsTab(t), PagesOK(t)
    PROVE  LET u == RebuildChecklist(t)
           IN  IsTab(u) /\ PagesOK(u) /\ SameBasis(t, u) /\ ListOK(u)
<1> DEFINE u == RebuildChecklist(t)
           l == UNION {Lines(t, s[1], s[2]) : s \in t.open}
<1>1. u = [t EXCEPT !.list = l]
  BY DEF RebuildChecklist
<1> HIDE DEF l
<1>2. IsTab(u) /\ SameBasis(t, u) /\ u.open = t.open /\ u.tiles = t.tiles /\ u.list = l
  BY <1>1, FieldsOfATab DEF IsTab, SameBasis
<1> HIDE DEF u
<1>3. PagesOK(u)
  BY <1>2 DEF PagesOK, SameBasis
<1>4. ListOK(u)
  BY <1>2, SameList DEF l, ListOK
<1> QED BY <1>2, <1>3, <1>4 DEF u

\* Either page does.
LEMMA ViewIsFine ==
    ASSUME NEW t, IsTab(t), PagesOK(t)
    PROVE  LET u == RebuildCurrentView(t)
           IN  IsTab(u) /\ PagesOK(u) /\ SameBasis(t, u) /\ ListOK(u)
  BY GridIsFine, ChecklistIsFine DEF RebuildCurrentView

\* A chosen language is still offered while the records and the region stay.
LEMMA SameLanguage ==
    ASSUME NEW t, NEW u, SameBasis(t, u), LangOK(t)
    PROVE  LangOK(u)
  BY LanguagesDependOn DEF SameBasis, LangOK

\* RefreshLanguageChoice leaves a chosen language that is offered, whatever was chosen.
LEMMA LanguageIsFine ==
    ASSUME NEW t, IsTab(t), PagesOK(t)
    PROVE  LET u == RefreshLanguageChoice(t)
           IN  /\ IsTab(u) /\ PagesOK(u) /\ LangOK(u)
               /\ u.game = t.game /\ u.cards = t.cards /\ u.packs = t.packs
<1> DEFINE l == IF t.lang \in LanguagesOffered(t) THEN t.lang ELSE All
           u == RefreshLanguageChoice(t)
<1>1. u = [t EXCEPT !.lang = l]
  BY DEF RefreshLanguageChoice
<1>2. l \in {All} \cup LanguagesOffered(t)
  OBVIOUS
<1> HIDE DEF l
<1>3. /\ IsTab(u) /\ u.game = t.game /\ u.cards = t.cards /\ u.packs = t.packs
      /\ u.region = t.region /\ u.lang = l /\ u.open = t.open /\ u.tiles = t.tiles
  BY <1>1, FieldsOfATab DEF IsTab
<1> HIDE DEF u
<1>4. LangOK(u)
  BY <1>2, <1>3, LanguagesDependOn DEF LangOK
<1> QED BY <1>3, <1>4 DEF PagesOK, u

\* A tab that is as it should be.
TabOK(t) == IsTab(t) /\ PagesOK(t) /\ LangOK(t) /\ ListOK(t)

\* SetCollection, for any records.
LEMMA CollectionIsShown ==
    ASSUME NEW t, IsTab(t), PagesOK(t), NEW cards
    PROVE  LET u == SetCollection(t, cards)
           IN  TabOK(u) /\ u.game = t.game /\ u.cards = cards /\ u.packs = t.packs
<1> DEFINE a == [t EXCEPT !.cards = cards]
           r == IF a.region \in RegionsOffered(a) THEN a.region ELSE All
           b == RefreshRegionChoice(a)
           c == RefreshLanguageChoice(b)
           u == RebuildCurrentView(c)
<1>1. IsTab(a) /\ PagesOK(a) /\ a.game = t.game /\ a.cards = cards /\ a.packs = t.packs
  <2>1. a = [game |-> t.game, cards |-> cards, packs |-> t.packs, region |-> t.region,
             lang |-> t.lang, open |-> t.open, tiles |-> t.tiles, list |-> t.list]
    <3>1. ChangesOf(t, cards, cards)
      BY FieldsOfATab
    <3> QED BY <3>1 DEF ChangesOf
  <2> HIDE DEF a
  <2>2. IsTab(a)
    BY <2>1 DEF IsTab
  <2> QED BY <2>1, <2>2 DEF PagesOK
<1> HIDE DEF a
<1>2. b = [a EXCEPT !.region = r]
  BY DEF RefreshRegionChoice
<1> HIDE DEF r
<1>3. IsTab(b) /\ PagesOK(b) /\ b.game = a.game /\ b.cards = a.cards /\ b.packs = a.packs
  BY <1>1, <1>2, FieldsOfATab DEF IsTab, PagesOK
<1> HIDE DEF b
<1>4. /\ IsTab(c) /\ PagesOK(c) /\ LangOK(c)
      /\ c.game = b.game /\ c.cards = b.cards /\ c.packs = b.packs
  BY <1>3, LanguageIsFine
<1> HIDE DEF c
<1>5. IsTab(u) /\ PagesOK(u) /\ SameBasis(c, u) /\ ListOK(u)
  BY <1>4, ViewIsFine
<1> HIDE DEF u
<1>6. LangOK(u)
  BY <1>4, <1>5, SameLanguage
<1>7. SetCollection(t, cards) = u
  BY DEF SetCollection, u, c, b, a
<1> QED BY <1>1, <1>3, <1>4, <1>5, <1>6, <1>7 DEF TabOK, SameBasis

\* ReloadFromStore, from any folder.
LEMMA StoreIsReloaded ==
    ASSUME NEW t, TabOK(t), NEW d, DOMAIN d.packs = PartsIn(t.game)
    PROVE  LET u == ReloadFromStore(t, d)
           IN  TabOK(u) /\ u.game = t.game /\ u.cards = t.cards /\ u.packs = Catalogs(d)
<1> DEFINE k == Catalogs(d)
           a == [t EXCEPT !.packs = k]
           u == RebuildGrid(ShowGridPage(a))
<1>1. k = [p \in PartsIn(t.game) |-> k[p]]
  BY DEF Catalogs
<1> HIDE DEF k
<1>2. /\ IsTab(a) /\ a.game = t.game /\ a.cards = t.cards /\ a.packs = k
      /\ a.region = t.region /\ a.lang = t.lang
  BY <1>1, FieldsOfATab DEF TabOK, IsTab
<1> HIDE DEF a
<1>3. LangOK(a)
  BY <1>2, LanguagesDependOn DEF TabOK, LangOK
<1>4. IsTab(u) /\ PagesOK(u) /\ SameBasis(a, u) /\ ListOK(u)
  BY <1>2, GridIsFine
<1> HIDE DEF u
<1>5. LangOK(u)
  BY <1>3, <1>4, SameLanguage
<1>6. ReloadFromStore(t, d) = u
  BY DEF ReloadFromStore, u, a, k
<1> QED BY <1>2, <1>4, <1>5, <1>6 DEF TabOK, SameBasis, k

-----------------------------------------------------------------------------
(***************************************************************************)
(* The files of a folder, write by write.                                  *)
(***************************************************************************)

ChangesOfAFolder(d, x) ==
    /\ [d EXCEPT !.cards = x] =
         [cards |-> x, sets |-> d.sets, packs |-> d.packs, legacy |-> d.legacy]
    /\ [d EXCEPT !.sets = x] =
         [cards |-> d.cards, sets |-> x, packs |-> d.packs, legacy |-> d.legacy]
    /\ [d EXCEPT !.packs = x] =
         [cards |-> d.cards, sets |-> d.sets, packs |-> x, legacy |-> d.legacy]

\* Changing a file of a folder leaves the others as they are.
LEMMA FieldsOfAFolder ==
    ASSUME NEW d, NEW parts, IsFolder(d, parts), NEW x
    PROVE  ChangesOfAFolder(d, x)
<1> DEFINE A == {d.cards, x} B == {d.sets, x} C == {d.packs, x} D == {d.legacy}
           R == [cards : A, sets : B, packs : C, legacy : D]
           Whole(u) == u = [cards |-> u.cards, sets |-> u.sets, packs |-> u.packs,
                            legacy |-> u.legacy]
           ce == [d EXCEPT !.cards = x]
           se == [d EXCEPT !.sets = x]
           pe == [d EXCEPT !.packs = x]
<1>1. d = [cards |-> d.cards, sets |-> d.sets, packs |-> d.packs, legacy |-> d.legacy]
  BY DEF IsFolder
<1>2. d \in R /\ x \in A /\ x \in B /\ x \in C
  BY <1>1
<1>3. \A u \in R : Whole(u)
  OBVIOUS
<1> HIDE DEF A, B, C, D
<1>4. /\ ce \in R /\ ce.cards = x /\ ce.sets = d.sets /\ ce.packs = d.packs /\ ce.legacy = d.legacy
      /\ se \in R /\ se.cards = d.cards /\ se.sets = x /\ se.packs = d.packs /\ se.legacy = d.legacy
      /\ pe \in R /\ pe.cards = d.cards /\ pe.sets = d.sets /\ pe.packs = x /\ pe.legacy = d.legacy
  BY <1>1, <1>2
<1> HIDE DEF R, ce, se, pe
<1>5. Whole(ce) /\ Whole(se) /\ Whole(pe)
  BY <1>3, <1>4
<1>6. ce = [cards |-> x, sets |-> d.sets, packs |-> d.packs, legacy |-> d.legacy]
  BY <1>4, <1>5
<1>7. se = [cards |-> d.cards, sets |-> x, packs |-> d.packs, legacy |-> d.legacy]
  BY <1>4, <1>5
<1>8. pe = [cards |-> d.cards, sets |-> d.sets, packs |-> x, legacy |-> d.legacy]
  BY <1>4, <1>5
<1> QED BY <1>6, <1>7, <1>8 DEF ChangesOfAFolder, ce, se, pe

\* e is the folder d with other records, set lists or catalogues.
Becomes(d, e, parts, cards, sets, packs) ==
    IsFolder(e, parts) /\ e.cards = cards /\ e.sets = sets /\ e.packs = packs /\ e.legacy = d.legacy

\* Writing the records writes nothing else.
LEMMA RecordsAreWritten ==
    ASSUME NEW d, NEW parts, IsFolder(d, parts), NEW x
    PROVE  Becomes(d, [d EXCEPT !.cards = x], parts, x, d.sets, d.packs)
<1>1. ChangesOfAFolder(d, x)
  BY FieldsOfAFolder
<1>2. [d EXCEPT !.cards = x] =
        [cards |-> x, sets |-> d.sets, packs |-> d.packs, legacy |-> d.legacy]
  BY <1>1 DEF ChangesOfAFolder
<1> DEFINE e == [d EXCEPT !.cards = x]
<1> HIDE DEF e
<1>3. Becomes(d, e, parts, x, d.sets, d.packs)
  BY <1>2 DEF e, Becomes, IsFolder
<1> QED BY <1>3 DEF e

\* Saving a list writes the list of that part only.
LEMMA SetsAreSaved ==
    ASSUME NEW d, NEW parts, IsFolder(d, parts), NEW p \in parts, NEW sets, NEW w
    PROVE  Becomes(d, SaveSets(d, p, sets, w), parts, d.cards,
                   [d.sets EXCEPT ![p] = Write(w, d.sets[p], sets)], d.packs)
<1> DEFINE x == [d.sets EXCEPT ![p] = Write(w, d.sets[p], sets)]
           e == SaveSets(d, p, sets, w)
<1>1. e = [d EXCEPT !.sets = x]
  BY DEF SaveSets
<1>2. x = [q \in parts |-> x[q]]
  BY DEF IsFolder
<1> HIDE DEF x, e
<1>3. ChangesOfAFolder(d, x)
  BY FieldsOfAFolder
<1>4. e = [cards |-> d.cards, sets |-> x, packs |-> d.packs, legacy |-> d.legacy]
  BY <1>1, <1>3 DEF ChangesOfAFolder
<1>5. Becomes(d, e, parts, d.cards, x, d.packs)
  BY <1>2, <1>4 DEF Becomes, IsFolder
<1> QED BY <1>5 DEF x, e

\* Saving a catalogue writes the catalogue of that part only.
LEMMA CatalogIsSaved ==
    ASSUME NEW d, NEW parts, IsFolder(d, parts), NEW p \in parts, NEW packs, NEW w
    PROVE  Becomes(d, SaveCatalog(d, p, packs, w), parts, d.cards, d.sets,
                   [d.packs EXCEPT ![p] = Write(w, d.packs[p], packs)])
<1> DEFINE x == [d.packs EXCEPT ![p] = Write(w, d.packs[p], packs)]
           e == SaveCatalog(d, p, packs, w)
<1>1. e = [d EXCEPT !.packs = x]
  BY DEF SaveCatalog
<1>2. x = [q \in parts |-> x[q]]
  BY DEF IsFolder
<1> HIDE DEF x, e
<1>3. ChangesOfAFolder(d, x)
  BY FieldsOfAFolder
<1>4. e = [cards |-> d.cards, sets |-> d.sets, packs |-> x, legacy |-> d.legacy]
  BY <1>1, <1>3 DEF ChangesOfAFolder
<1>5. Becomes(d, e, parts, d.cards, d.sets, x)
  BY <1>2, <1>4 DEF Becomes, IsFolder
<1> QED BY <1>5 DEF x, e

\* Moving a list from its former place touches neither records nor catalogues.
LEMMA PromotedAtMost ==
    ASSUME NEW d, NEW parts, IsFolder(d, parts), NEW p \in parts, NEW w
    PROVE  LET e == Promote(d, p, w)
           IN  IsFolder(e, parts) /\ e.cards = d.cards /\ e.packs = d.packs
<1>1. CASE Promote(d, p, w) = d
  BY <1>1
<1>2. CASE Promote(d, p, w) = SaveSets(d, p, d.legacy[p], w)
  <2> DEFINE former == d.legacy[p]
             e == SaveSets(d, p, former, w)
  <2> HIDE DEF former
  <2>1. Becomes(d, e, parts, d.cards, [d.sets EXCEPT ![p] = Write(w, d.sets[p], former)], d.packs)
    BY SetsAreSaved
  <2>2. IsFolder(e, parts) /\ e.cards = d.cards /\ e.packs = d.packs
    BY <2>1 DEF Becomes
  <2> QED BY <1>2, <2>2 DEF former
<1> QED BY <1>1, <1>2 DEF Promote

\* A state of the computation of the sets a dialog offers, that left the records and
\* the catalogues of the folder d alone.
IsState(s) == s = [d |-> s.d, cache |-> s.cache]
LeavesAlone(s, d, parts) ==
    IsState(s) /\ IsFolder(s.d, parts) /\ s.d.cards = d.cards /\ s.d.packs = d.packs

StateIs(u, d, cache) == IsState(u) /\ u.d = d /\ u.cache = cache
Filled(cache, p, sets) == [cache EXCEPT ![p] = IF Readable(sets) THEN sets ELSE {}]

\* Replacing the files keeps what is cached.
LEMMA FilesOfAState ==
    ASSUME NEW s, IsState(s), NEW x
    PROVE  StateIs([s EXCEPT !.d = x], x, s.cache)
  BY DEF IsState, StateIs

\* Filling the cache keeps the files.
LEMMA CacheOfAState ==
    ASSUME NEW s, IsState(s), NEW p, NEW sets
    PROVE  StateIs(Cache(s, p, sets), s.d, Filled(s.cache, p, sets))
<1> DEFINE c == Filled(s.cache, p, sets)
<1>1. Cache(s, p, sets) = [s EXCEPT !.cache = c]
  BY DEF Cache, Filled
<1> HIDE DEF c
<1> QED BY <1>1 DEF IsState, StateIs, c

\* ensureSetsLoaded and setsForDialog read a list, then fetch and save it at most.
ReadList(s, p, w) == Cache([s EXCEPT !.d = Promote(s.d, p, w)], p, GetSets(s.d, p))
SaveList(s, p, sets, w) ==
    Cache([s EXCEPT !.d = SaveSets(s.d, p, sets, w)], p, IF w = "ok" THEN sets ELSE {})

\* Reading a list promotes it and caches what was read.
LEMMA ReadingAList ==
    ASSUME NEW s, IsState(s), NEW p, NEW w
    PROVE  StateIs(ReadList(s, p, w), Promote(s.d, p, w), Filled(s.cache, p, GetSets(s.d, p)))
<1> DEFINE e == Promote(s.d, p, w)
           l == GetSets(s.d, p)
           u == [s EXCEPT !.d = e]
<1> HIDE DEF e, l
<1>1. StateIs(u, e, s.cache)
  BY FilesOfAState
<1> HIDE DEF u
<1>2. StateIs(Cache(u, p, l), e, Filled(s.cache, p, l))
  BY <1>1, CacheOfAState DEF StateIs
<1> QED BY <1>2 DEF ReadList, u, e, l

\* Saving a list caches it, or nothing if the save failed.
LEMMA SavingAList ==
    ASSUME NEW s, IsState(s), NEW p, NEW sets, NEW w
    PROVE  StateIs(SaveList(s, p, sets, w), SaveSets(s.d, p, sets, w),
                   Filled(s.cache, p, IF w = "ok" THEN sets ELSE {}))
<1> DEFINE e == SaveSets(s.d, p, sets, w)
           l == IF w = "ok" THEN sets ELSE {}
           u == [s EXCEPT !.d = e]
<1> HIDE DEF e, l
<1>1. StateIs(u, e, s.cache)
  BY FilesOfAState
<1> HIDE DEF u
<1>2. StateIs(Cache(u, p, l), e, Filled(s.cache, p, l))
  BY <1>1, CacheOfAState DEF StateIs
<1> QED BY <1>2 DEF SaveList, u, e, l

\* LoadOrRefresh reads, and saves what was fetched if there was nothing to read.
LEMMA LoadingIsOneOf ==
    ASSUME NEW s, NEW p, NEW f, NEW w
    PROVE  LET read == ReadList(s, p, w)
           IN  LoadOrRefresh(s, p, f, w) =
                 IF read.cache[p] # {} \/ ~f.ok THEN read ELSE SaveList(read, p, f.sets, w)
  BY DEF LoadOrRefresh, ReadList, SaveList

\* SetsForDialog reads if nothing is cached.
LEMMA AskingIsOneOf ==
    ASSUME NEW s, NEW p, NEW w
    PROVE  SetsForDialog(s, p, w) = IF s.cache[p] # {} THEN s ELSE ReadList(s, p, w)
  BY DEF SetsForDialog, ReadList

\* Reading a list leaves records and catalogues alone.
LEMMA ReadingLeavesAlone ==
    ASSUME NEW s, NEW d, NEW parts, LeavesAlone(s, d, parts), NEW p \in parts, NEW w
    PROVE  LeavesAlone(ReadList(s, p, w), d, parts)
<1>1. IsFolder(Promote(s.d, p, w), parts) /\ Promote(s.d, p, w).cards = d.cards
      /\ Promote(s.d, p, w).packs = d.packs
  BY PromotedAtMost DEF LeavesAlone
<1>2. StateIs(ReadList(s, p, w), Promote(s.d, p, w), Filled(s.cache, p, GetSets(s.d, p)))
  BY ReadingAList DEF LeavesAlone
<1> QED BY <1>1, <1>2 DEF LeavesAlone, StateIs

\* So does loading it with a fetch,
LEMMA LoadingLeavesAlone ==
    ASSUME NEW s, NEW d, NEW parts, LeavesAlone(s, d, parts), NEW p \in parts, NEW f, NEW w
    PROVE  LeavesAlone(LoadOrRefresh(s, p, f, w), d, parts)
<1> DEFINE read == ReadList(s, p, w)
           sets == f.sets
           e == SaveSets(read.d, p, sets, w)
<1>1. LeavesAlone(read, d, parts)
  BY ReadingLeavesAlone
<1> HIDE DEF read, sets
<1>2. IsFolder(e, parts) /\ e.cards = d.cards /\ e.packs = d.packs
  <2> DEFINE r == read.d
             lists == [r.sets EXCEPT ![p] = Write(w, r.sets[p], sets)]
  <2>1. IsFolder(r, parts) /\ r.cards = d.cards /\ r.packs = d.packs
    BY <1>1 DEF LeavesAlone
  <2> HIDE DEF r
  <2>2. Becomes(r, SaveSets(r, p, sets, w), parts, r.cards, lists, r.packs)
    BY <2>1, SetsAreSaved
  <2> QED BY <2>1, <2>2 DEF Becomes, r
<1>3. StateIs(SaveList(read, p, sets, w), e, Filled(read.cache, p, IF w = "ok" THEN sets ELSE {}))
  BY <1>1, SavingAList DEF LeavesAlone
<1> HIDE DEF e
<1>4. LeavesAlone(SaveList(read, p, sets, w), d, parts)
  BY <1>2, <1>3 DEF LeavesAlone, StateIs
<1>5. LoadOrRefresh(s, p, f, w) \in {read, SaveList(read, p, sets, w)}
  BY LoadingIsOneOf DEF read, sets
<1> QED BY <1>1, <1>4, <1>5

\* so does asking for it again,
LEMMA DialogLeavesAlone ==
    ASSUME NEW s, NEW d, NEW parts, LeavesAlone(s, d, parts), NEW p \in parts, NEW w
    PROVE  LeavesAlone(SetsForDialog(s, p, w), d, parts)
  BY ReadingLeavesAlone, AskingIsOneOf

\* and so does all that opening a dialog does.
LEMMA OfferingLeavesAlone ==
    ASSUME game \in Games, IsFolder(Here, Parts), NEW answers, NEW w
    PROVE  LeavesAlone(Offered(answers, w), Here, Parts)
<1> DEFINE Load(s, p) == LoadOrRefresh(s, p, answers[p].list, w[p])
           Ask(s, p) == SetsForDialog(s, p, w[p])
           start == [d |-> Here, cache |-> view.cache]
           p1 == PartsOf(game)[1]
           p2 == PartsOf(game)[2]
           Both(Op(_, _), s) == IF Len(PartsOf(game)) = 1 THEN Op(s, p1) ELSE Op(Op(s, p1), p2)
           ensured == IF view.attempted THEN start ELSE Both(Load, start)
<1>1. p1 \in Parts /\ (Len(PartsOf(game)) = 1 \/ p2 \in Parts)
  BY PartsOfGames DEF Parts, PartsIn
<1>2. LeavesAlone(start, Here, Parts)
  BY DEF LeavesAlone, IsState
<1>3. Offered(answers, w) = Both(Ask, ensured)
  BY DEF Offered, ForParts
<1> HIDE DEF p1, p2, start
<1>4. \A s, p : LeavesAlone(s, Here, Parts) /\ p \in Parts => LeavesAlone(Load(s, p), Here, Parts)
  BY LoadingLeavesAlone
<1>5. \A s, p : LeavesAlone(s, Here, Parts) /\ p \in Parts => LeavesAlone(Ask(s, p), Here, Parts)
  BY DialogLeavesAlone
<1> HIDE DEF Load, Ask
<1>6. LeavesAlone(ensured, Here, Parts)
  BY <1>1, <1>2, <1>4
<1> HIDE DEF ensured
<1> QED BY <1>1, <1>3, <1>5, <1>6

-----------------------------------------------------------------------------
(***************************************************************************)
(* The invariant.                                                          *)
(***************************************************************************)

DiskInv ==
    /\ game \in DOMAIN Contents
    /\ disk = [f \in Folders |-> disk[f]]
    /\ \A f \in Folders : IsFolder(disk[f], Parts)
    /\ folder \in Folders /\ saved \in Folders /\ catalogOf \in Folders

\* The tab is as it should be, with the catalogues as they are in the folder k, which it
\* loaded: a file written since then was written for good and loaded, or cannot be read.
Follows(t, g, k) ==
    /\ TabOK(t) /\ t.game = g
    /\ \A p \in PartsIn(g) : Readable(k.packs[p]) => t.packs[p] = k.packs[p]

\* It has also the records of the folder d, unless it was told that it cannot.
Holds(t, g, d, k, known) ==
    Follows(t, g, k) /\ (known => t.cards = LoadCards(d))

TabInv == game # "Magic" => Holds(tab, game, Here, disk[catalogOf], Known)

Inv == DiskInv /\ TabInv

\* The game in use is one of the five, and its parts are its own.
LEMMA GameIsOne == DiskInv => game \in Games /\ Parts = PartsIn(game)
  BY TabsAssumption DEF DiskInv, Games, Parts, PartsIn

\* The invariant is stronger than ChecklistShowsTheCollection.
LEMMA InvShowsTheCollection == Inv => ChecklistShowsTheCollection
<1> SUFFICES ASSUME Inv, game # "Magic", Known PROVE ChecklistShowsTheCollection
  BY DEF ChecklistShowsTheCollection
<1> DEFINE c == LoadCards(Here)
           k == Catalogs(Here)
           onDisk == [tab EXCEPT !.cards = c, !.packs = k]
<1>1. /\ IsTab(tab) /\ PagesOK(tab) /\ LangOK(tab) /\ ListOK(tab)
      /\ tab.game = game /\ tab.cards = c /\ Parts = PartsIn(game)
      /\ game \in Games \ {"Magic"}
  BY GameIsOne DEF Inv, TabInv, Holds, Follows, TabOK
<1>2. IsFolder(Here, PartsIn(game))
  BY <1>1 DEF Inv, DiskInv, Here
<1>3. DOMAIN k = PartsIn(game)
  BY <1>2 DEF Catalogs, IsFolder
<1> HIDE DEF c
<1>4. \A p \in PartsIn(game) : Readable(Here.packs[p]) => k[p] = Here.packs[p]
  BY <1>2, <1>3 DEF Catalogs, IsFolder
<1> HIDE DEF k
<1>5. /\ onDisk.game = tab.game /\ onDisk.cards = tab.cards /\ onDisk.packs = k
      /\ onDisk.region = tab.region /\ onDisk.lang = tab.lang
  <2>1. tab = [game |-> tab.game, cards |-> tab.cards, packs |-> tab.packs, region |-> tab.region,
               lang |-> tab.lang, open |-> tab.open, tiles |-> tab.tiles, list |-> tab.list]
    BY <1>1 DEF IsTab
  <2> QED BY <1>1, <2>1
<1> HIDE DEF onDisk
<1>6. tab.lang \in {All} \cup LanguagesOffered(onDisk)
  BY <1>1, <1>5, LanguagesDependOn DEF LangOK
<1>7. ASSUME catalogOf = folder, \A s \in tab.open : Readable(Here.packs[s[1]])
      PROVE  tab.list = UNION {Lines(onDisk, s[1], s[2]) : s \in tab.open}
  <2>1. ASSUME NEW s \in tab.open PROVE Lines(tab, s[1], s[2]) = Lines(onDisk, s[1], s[2])
    <3>1. s[1] \in PartsIn(game) /\ Readable(Here.packs[s[1]])
      BY <1>1, <1>7 DEF PagesOK
    <3>2. tab.packs[s[1]] = Here.packs[s[1]]
      BY <1>7, <3>1 DEF Inv, TabInv, Holds, Follows, Here
    <3>3. tab.packs[s[1]] = onDisk.packs[s[1]]
      BY <1>4, <1>5, <3>1, <3>2
    <3>4. s[1] \in DOMAIN tab.packs /\ s[1] \in DOMAIN onDisk.packs
      BY <1>1, <1>3, <1>5, <3>1 DEF IsTab
    <3> QED BY <1>1, <1>5, <3>1, <3>3, <3>4, LinesDependOn
  <2>2. tab.list = UNION {Lines(tab, s[1], s[2]) : s \in tab.open}
    BY <1>1 DEF ListOK
  <2> QED BY <2>1, <2>2
<1> QED BY <1>6, <1>7 DEF ChecklistShowsTheCollection, onDisk, c, k

-----------------------------------------------------------------------------
\* Tabs that were refreshed, reloaded or mounted.

\* Refresh shows the records if they can be read, and keeps the catalogues it shows.
LEMMA Refreshed ==
    ASSUME game # "Magic", NEW t, NEW d, NEW k, Follows(t, game, k)
    PROVE  Holds(Refresh(t, d), game, d, k, Readable(d.cards))
<1> DEFINE u == SetCollection(t, LoadCards(d))
<1>1. TabOK(u) /\ u.game = t.game /\ u.cards = LoadCards(d) /\ u.packs = t.packs
  BY CollectionIsShown DEF Follows, TabOK
<1> HIDE DEF u
<1>2. Refresh(t, d) = IF Readable(d.cards) THEN u ELSE t
  BY DEF Refresh, SetCards, u
<1> QED BY <1>1, <1>2 DEF Holds, Follows

\* A reloaded tab shows what the files say.
LEMMA ReloadedTab ==
    ASSUME game # "Magic", game \in Games, NEW t, TabOK(t), t.game = game,
           NEW d, IsFolder(d, PartsIn(game))
    PROVE  Holds(Reloaded(t, d), game, d, d, Readable(d.cards))
<1> DEFINE u == ReloadFromStore(t, d)
<1>1. DOMAIN d.packs = PartsIn(game)
  BY DEF IsFolder
<1>2. TabOK(u) /\ u.game = game /\ u.packs = Catalogs(d)
  BY <1>1, StoreIsReloaded
<1> HIDE DEF u
<1>3. Follows(u, game, d)
  BY <1>1, <1>2 DEF Follows, Catalogs
<1> QED BY <1>3, Refreshed DEF Reloaded, u

\* A tab that is built anew shows what the files say.
LEMMA MountedTab ==
    ASSUME game # "Magic", game \in Games, Parts = PartsIn(game),
           NEW d, IsFolder(d, PartsIn(game))
    PROVE  Holds(Mounted(d), game, d, d, Readable(d.cards))
<1> DEFINE t == CompletionPanel(game, Parts)
<1>1. t = [game |-> game, cards |-> {}, packs |-> [p \in PartsIn(game) |-> Missing], region |-> All,
           lang |-> All, open |-> {}, tiles |-> {}, list |-> {}]
  BY DEF CompletionPanel
<1>2. /\ t.game = game /\ t.packs = [p \in PartsIn(game) |-> Missing] /\ t.lang = All
      /\ t.open = {} /\ t.tiles = {} /\ t.list = {}
  BY <1>1
<1>3. IsTab(t)
  BY <1>1 DEF IsTab
<1> HIDE DEF t
<1>4. TabOK(t)
  BY <1>2, <1>3 DEF TabOK, PagesOK, LangOK, ListOK
<1>5. Mounted(d) = Reloaded(t, d)
  BY DEF Mounted, Reloaded, t
<1> QED BY <1>2, <1>4, <1>5, ReloadedTab

-----------------------------------------------------------------------------
\* What a step makes of the disk.

\* A write changes the folder in use only.
LEMMA DiskIsWritten ==
    ASSUME DiskInv, NEW d, IsFolder(d, Parts), Writes(d), UNCHANGED <<game, folder, saved>>,
           catalogOf' \in {catalogOf, folder}
    PROVE  /\ DiskInv' /\ Here' = d
           /\ \A f \in Folders : disk'[f] = IF f = folder THEN d ELSE disk[f]
<1>1. \A f \in Folders : disk'[f] = IF f = folder THEN d ELSE disk[f]
  BY DEF DiskInv, Writes
<1>2. disk' = [f \in Folders |-> disk'[f]]
  BY DEF DiskInv, Writes
<1>3. Parts' = Parts
  BY DEF Parts
<1> QED BY <1>1, <1>2, <1>3 DEF DiskInv, Here

\* A write that leaves the tab alone.
LEMMA KeepStep ==
    ASSUME Inv, NEW d, IsFolder(d, Parts), d.cards = Here.cards \/ ~Readable(d.cards),
           \A p \in Parts : Readable(d.packs[p]) => d.packs[p] = Here.packs[p],
           Writes(d), UNCHANGED <<game, folder, saved, tab, behind, catalogOf>>
    PROVE  Inv'
<1>1. /\ DiskInv' /\ Here' = d
      /\ \A f \in Folders : disk'[f] = IF f = folder THEN d ELSE disk[f]
  BY DiskIsWritten DEF Inv
<1>2. Parts = PartsIn(game) /\ catalogOf \in Folders
  BY GameIsOne DEF Inv, DiskInv
<1>3. ASSUME game # "Magic" PROVE Holds(tab, game, d, disk'[catalogOf], Known')
  <2>1. Holds(tab, game, Here, disk[catalogOf], Known)
    BY <1>3 DEF Inv, TabInv
  <2>2. Follows(tab, game, disk'[catalogOf])
    BY <1>1, <1>2, <2>1 DEF Holds, Follows, Here
  <2>3. Known' => Known /\ LoadCards(d) = LoadCards(Here)
    BY <1>1 DEF Known, LoadCards
  <2> QED BY <2>1, <2>2, <2>3 DEF Holds
<1> QED BY <1>1, <1>3 DEF Inv, TabInv

\* A write of the records, after which the tab is refreshed.
LEMMA RefreshStep ==
    ASSUME Inv, NEW d, IsFolder(d, Parts), d.packs = Here.packs, Writes(d),
           tab' = Refresh(tab, d), UNCHANGED <<game, folder, saved, catalogOf>>
    PROVE  Inv'
<1>1. /\ DiskInv' /\ Here' = d
      /\ \A f \in Folders : disk'[f] = IF f = folder THEN d ELSE disk[f]
  BY DiskIsWritten DEF Inv
<1>2. catalogOf \in Folders
  BY DEF Inv, DiskInv
<1>3. ASSUME game # "Magic" PROVE Holds(tab', game, d, disk'[catalogOf], Known')
  <2> DEFINE k == disk'[catalogOf]
  <2>1. Follows(tab, game, k)
    BY <1>1, <1>2, <1>3 DEF Inv, TabInv, Holds, Follows, Here
  <2> HIDE DEF k
  <2>2. Holds(tab', game, d, k, Readable(d.cards))
    BY <1>3, <2>1, Refreshed
  <2>3. Known' => Readable(d.cards)
    BY <1>1 DEF Known
  <2> QED BY <2>2, <2>3 DEF Holds, k
<1> QED BY <1>1, <1>3 DEF Inv, TabInv

\* A write of lists and catalogues, after which the tab loads both again.
LEMMA ReloadStep ==
    ASSUME Inv, NEW d, IsFolder(d, Parts), NEW t, game # "Magic" => TabOK(t) /\ t.game = game,
           Writes(d), TabReloads(t, d), UNCHANGED <<game, folder, saved>>
    PROVE  Inv'
<1>1. DiskInv' /\ Here' = d
  BY DiskIsWritten DEF Inv, TabReloads
<1>2. game \in Games /\ Parts = PartsIn(game) /\ disk'[folder] = d
  BY <1>1, GameIsOne DEF Inv, Here
<1>3. ASSUME game # "Magic" PROVE Holds(tab', game, d, disk'[folder], Known')
  <2>1. Holds(tab', game, d, d, Readable(d.cards))
    BY <1>2, <1>3, ReloadedTab DEF TabReloads
  <2>2. Known' => Readable(d.cards)
    BY <1>1 DEF Known
  <2> QED BY <1>2, <2>1, <2>2 DEF Holds
<1> QED BY <1>1, <1>3 DEF Inv, TabInv, TabReloads

\* A step inside the tab.
LEMMA TabStep ==
    ASSUME Inv, InTab, game # "Magic" => Follows(tab', game, disk[catalogOf]) /\ tab'.cards = tab.cards
    PROVE  Inv'
<1>1. DiskInv' /\ Here' = Here
  BY DEF Inv, InTab, DiskInv, Here, Parts
<1>2. Known' = Known
  BY <1>1 DEF Known, InTab
<1>3. ASSUME game # "Magic" PROVE Holds(tab', game, Here, disk[catalogOf], Known)
  BY <1>3 DEF Inv, TabInv, Holds
<1> QED BY <1>1, <1>2, <1>3 DEF Inv, TabInv, InTab

-----------------------------------------------------------------------------
\* The records.

\* A step that saves the records.
LEMMA SaveStep ==
    ASSUME Inv, NEW d, IsFolder(d, Parts), d.cards = Here.cards, d.packs = Here.packs,
           NEW cards, NEW w, Save(d, cards, w), UNCHANGED <<game, folder, saved, catalogOf>>
    PROVE  Inv'
<1> DEFINE new == Write(w, d.cards, cards)
           after == [d EXCEPT !.cards = new]
<1>1. /\ Writes(after)
      /\ IF w = "ok" THEN tab' = Refresh(tab, after) /\ behind' = FALSE
                     ELSE UNCHANGED <<tab, behind>>
  BY DEF Save
<1>2. w = "ok" \/ new = d.cards \/ ~Readable(new)
  BY DEF Write, Readable
<1> HIDE DEF new
<1>3. Becomes(d, after, Parts, new, d.sets, d.packs)
  BY RecordsAreWritten
<1> HIDE DEF after
<1>4. IsFolder(after, Parts) /\ after.cards = new /\ after.packs = Here.packs
  BY <1>3 DEF Becomes
<1>5. CASE w = "ok"
  BY <1>1, <1>4, <1>5, RefreshStep
<1>6. CASE w # "ok"
  BY <1>1, <1>2, <1>4, <1>6, KeepStep
<1> QED BY <1>5, <1>6

\* A dialog that is cancelled, or saves any records, keeps the invariant.
LEMMA DialogStep ==
    ASSUME Inv, NEW s, LeavesAlone(s, Here, Parts), NEW w, DialogOpens(s, w)
    PROVE  /\ Cancels(s) => Inv'
           /\ \A cards, end : Save(s.d, cards, end) => Inv'
<1> DEFINE d == s.d
<1>1. IsFolder(d, Parts) /\ d.cards = Here.cards /\ d.packs = Here.packs
  BY DEF LeavesAlone
<1>2. UNCHANGED <<game, folder, saved, catalogOf>>
  BY DEF DialogOpens
<1> HIDE DEF d
<1>3. ASSUME Writes(d), UNCHANGED <<tab, behind>> PROVE Inv'
  BY <1>1, <1>2, <1>3, KeepStep
<1>4. ASSUME NEW cards, NEW end, Save(d, cards, end) PROVE Inv'
  BY <1>1, <1>2, <1>4, SaveStep
<1> QED BY <1>3, <1>4 DEF Cancels, d

\* Opening a dialog leaves records and catalogues alone in every state.
LEMMA OfferIsFine ==
    ASSUME Inv, NEW answers, NEW w
    PROVE  LeavesAlone(Offered(answers, w), Here, Parts)
  BY GameIsOne, OfferingLeavesAlone DEF Inv, DiskInv, Here

\* The invariant, when a record is added,
LEMMA AddStep == Inv /\ OnAddCard => Inv'
<1> SUFFICES ASSUME Inv, OnAddCard PROVE Inv'
  OBVIOUS
<1>1. PICK w, answers : /\ DialogOpens(Offered(answers, w), w)
                        /\ Cancels(Offered(answers, w)) \/ Add(Offered(answers, w), w["cards"])
  BY DEF OnAddCard
<1> DEFINE s == Offered(answers, w)
<1>2. LeavesAlone(s, Here, Parts)
  BY OfferIsFine
<1>3. DialogOpens(s, w) /\ (Cancels(s) \/ Add(s, w["cards"]))
  BY <1>1
<1> HIDE DEF s
<1>4. Add(s, w["cards"]) => \E cards : Save(s.d, cards, w["cards"])
  BY DEF Add
<1> QED BY <1>2, <1>3, <1>4, DialogStep

\* when one is edited,
LEMMA EditStep == Inv /\ OnEditCard => Inv'
<1> SUFFICES ASSUME Inv, OnEditCard PROVE Inv'
  OBVIOUS
<1>1. PICK w, answers : /\ DialogOpens(Offered(answers, w), w)
                        /\ Cancels(Offered(answers, w)) \/ Edit(Offered(answers, w), w["cards"])
  BY DEF OnEditCard
<1> DEFINE s == Offered(answers, w)
<1>2. LeavesAlone(s, Here, Parts)
  BY OfferIsFine
<1>3. DialogOpens(s, w) /\ (Cancels(s) \/ Edit(s, w["cards"]))
  BY <1>1
<1> HIDE DEF s
<1>4. Edit(s, w["cards"]) => \E cards : Save(s.d, cards, w["cards"])
  BY DEF Edit
<1> QED BY <1>2, <1>3, <1>4, DialogStep

\* and when one is deleted.
LEMMA DeleteStep == Inv /\ OnDeleteCard => Inv'
<1> SUFFICES ASSUME Inv, OnDeleteCard PROVE Inv'
  OBVIOUS
<1>1. IsFolder(Here, Parts)
  BY DEF Inv, DiskInv, Here
<1>2. UNCHANGED <<game, folder, saved, catalogOf>>
  BY DEF OnDeleteCard
<1>3. \/ \E x : /\ Writes([Here EXCEPT !.cards = x])
                /\ tab' = Refresh(tab, [Here EXCEPT !.cards = x])
      \/ tab' = Refresh(tab, Here) /\ UNCHANGED disk
  BY DEF OnDeleteCard
<1>4. ASSUME NEW x, Writes([Here EXCEPT !.cards = x]),
             tab' = Refresh(tab, [Here EXCEPT !.cards = x])
      PROVE  Inv'
  <2> DEFINE d == [Here EXCEPT !.cards = x]
  <2>1. Becomes(Here, d, Parts, x, Here.sets, Here.packs)
    BY <1>1, RecordsAreWritten
  <2> HIDE DEF d
  <2>2. IsFolder(d, Parts) /\ d.packs = Here.packs
    BY <2>1 DEF Becomes
  <2> QED BY <1>2, <1>4, <2>2, RefreshStep DEF d
<1>5. ASSUME tab' = Refresh(tab, Here), UNCHANGED disk PROVE Inv'
  <2>1. Writes(Here)
    BY <1>5 DEF Writes, Inv, DiskInv, Here
  <2> QED BY <1>1, <1>2, <1>5, <2>1, RefreshStep
<1> QED BY <1>3, <1>4, <1>5

-----------------------------------------------------------------------------
\* Sets > Update.

\* What updating a part makes of the state s.
Updates(s, u, parts, wSets, wCatalog) ==
    /\ IsState(u) /\ IsFolder(u.d, parts) /\ u.d.cards = s.d.cards
    /\ (wSets # "ok" \/ wCatalog # "ok") =>
         \A q \in parts : Readable(u.d.packs[q]) => u.d.packs[q] = s.d.packs[q]

\* UpdateRegion writes the list and the catalogue of its part, in the order of the code.
LEMMA PartIsUpdated ==
    ASSUME NEW s, IsState(s), NEW parts, IsFolder(s.d, parts), NEW p \in parts,
           NEW f, NEW wSets, NEW wCatalog
    PROVE  Updates(s, UpdateRegion(s, p, f, wSets, wCatalog), parts, wSets, wCatalog)
<1> DEFINE d == s.d
           sets == f.sets
           packs == f.packs
           listed == SaveSets(d, p, sets, wSets)
           stored == SaveCatalog(listed, p, packs, wCatalog)
           cache == [s.cache EXCEPT ![p] = sets]
           u == UpdateRegion(s, p, f, wSets, wCatalog)
<1>1. \/ u = s
      \/ wSets # "ok" /\ u = [s EXCEPT !.d = listed]
      \/ wSets = "ok" /\ u = [d |-> stored, cache |-> cache]
  BY DEF UpdateRegion
<1> HIDE DEF d, sets, packs, u, cache
<1>2. Becomes(d, listed, parts, d.cards, [d.sets EXCEPT ![p] = Write(wSets, d.sets[p], sets)], d.packs)
  BY SetsAreSaved DEF d
<1> HIDE DEF listed
<1>3. IsFolder(listed, parts) /\ listed.cards = d.cards /\ listed.packs = d.packs
  BY <1>2 DEF Becomes
<1>4. Becomes(listed, stored, parts, listed.cards, listed.sets,
              [listed.packs EXCEPT ![p] = Write(wCatalog, listed.packs[p], packs)])
  BY <1>3, CatalogIsSaved
<1> HIDE DEF stored
<1>5. /\ IsFolder(stored, parts) /\ stored.cards = d.cards
      /\ stored.packs = [d.packs EXCEPT ![p] = Write(wCatalog, d.packs[p], packs)]
  BY <1>3, <1>4 DEF Becomes
<1>6. ASSUME u = s
      PROVE  Updates(s, u, parts, wSets, wCatalog)
  BY <1>6 DEF Updates
<1>7. ASSUME u = [s EXCEPT !.d = listed]
      PROVE  Updates(s, u, parts, wSets, wCatalog)
  <2>1. StateIs(u, listed, s.cache)
    BY <1>7, FilesOfAState
  <2> QED BY <1>3, <2>1 DEF Updates, StateIs, d
<1>8. ASSUME wSets = "ok", u = [d |-> stored, cache |-> cache]
      PROVE  Updates(s, u, parts, wSets, wCatalog)
  <2>1. IsState(u) /\ u.d = stored
    BY <1>8 DEF IsState
  <2>2. ASSUME wCatalog # "ok", NEW q \in parts, Readable(stored.packs[q])
        PROVE  stored.packs[q] = d.packs[q]
    <3>1. d.packs = [r \in parts |-> d.packs[r]]
      BY DEF IsFolder, d
    <3>2. CASE q = p
      <4>1. stored.packs[q] = Write(wCatalog, d.packs[p], packs)
        BY <1>5, <3>1, <3>2
      <4> QED BY <2>2, <3>2, <4>1 DEF Write, Readable
    <3>3. CASE q # p
      BY <1>5, <3>1, <3>3
    <3> QED BY <3>2, <3>3
  <2> QED BY <1>5, <1>8, <2>1, <2>2 DEF Updates, d
<1>9. Updates(s, u, parts, wSets, wCatalog)
  BY <1>1, <1>6, <1>7, <1>8
<1> QED BY <1>9 DEF u

\* Updating one part of the folder in use.
LEMMA OneIsUpdated ==
    ASSUME Inv, NEW p \in Parts, NEW f, NEW wSets, NEW wCatalog
    PROVE  LET d == UpdateRegion([d |-> Here, cache |-> view.cache], p, f, wSets, wCatalog).d
           IN  /\ IsFolder(d, Parts) /\ d.cards = Here.cards
               /\ (wSets # "ok" \/ wCatalog # "ok") =>
                    \A q \in Parts : Readable(d.packs[q]) => d.packs[q] = Here.packs[q]
<1> DEFINE s == [d |-> Here, cache |-> view.cache]
           u == UpdateRegion(s, p, f, wSets, wCatalog)
<1>1. IsState(s) /\ s.d = Here
  BY DEF IsState
<1>2. IsFolder(Here, Parts)
  BY DEF Inv, DiskInv, Here
<1> HIDE DEF s
<1>3. Updates(s, u, Parts, wSets, wCatalog)
  BY <1>1, <1>2, PartIsUpdated
<1> HIDE DEF u
<1> QED BY <1>1, <1>3 DEF Updates, u, s

\* Updating the sets of Magic, which has no catalogue.
LEMMA MagicIsUpdated ==
    ASSUME Inv, OnUpdateMagicSets, UNCHANGED <<game, folder, saved>> PROVE Inv'
<1>1. PICK sets, w : Writes(SaveSets(Here, "Magic", sets, w))
  BY DEF OnUpdateMagicSets
<1> DEFINE d == SaveSets(Here, "Magic", sets, w)
           l == [Here.sets EXCEPT !["Magic"] = Write(w, Here.sets["Magic"], sets)]
<1>2. "Magic" \in Parts /\ IsFolder(Here, Parts)
  BY GameIsOne, PartsOfGames DEF OnUpdateMagicSets, Inv, DiskInv, Here
<1>3. Becomes(Here, d, Parts, Here.cards, l, Here.packs)
  BY <1>2, SetsAreSaved
<1>4. Writes(d)
  BY <1>1
<1> HIDE DEF d, l
<1>5. IsFolder(d, Parts) /\ d.cards = Here.cards /\ d.packs = Here.packs
  BY <1>3 DEF Becomes
<1>6. UNCHANGED <<tab, behind, catalogOf>>
  BY DEF OnUpdateMagicSets
<1> QED BY <1>4, <1>5, <1>6, KeepStep

\* Both regions: the records and the other files are as they were.
LEMMA BothAreUpdated ==
    ASSUME Inv, game = "Pokemon", NEW answers, NEW w
    PROVE  IsFolder(UpdateRegions(answers, w).d, Parts)
<1> DEFINE start == [d |-> Here, cache |-> view.cache]
           west == UpdateRegion(start, "West", answers["West"].all, w["West"], w["WestCatalog"])
           both == UpdateRegion(west, "Asia", answers["Asia"].all, w["Asia"], w["AsiaCatalog"])
<1>1. "West" \in Parts /\ "Asia" \in Parts /\ IsFolder(Here, Parts)
  BY GameIsOne, PartsOfGames DEF Inv, DiskInv, Here
<1>2. IsState(start) /\ start.d = Here
  BY DEF IsState
<1>3. both = UpdateRegions(answers, w)
  BY DEF UpdateRegions
<1> HIDE DEF start
<1>4. Updates(start, west, Parts, w["West"], w["WestCatalog"])
  BY <1>1, <1>2, PartIsUpdated
<1> HIDE DEF west
<1>5. Updates(west, both, Parts, w["Asia"], w["AsiaCatalog"])
  BY <1>1, <1>4, PartIsUpdated DEF Updates
<1> QED BY <1>3, <1>5 DEF Updates

\* Updating both regions, after which the records follow the lists.
LEMMA PokemonIsUpdated ==
    ASSUME Inv, OnUpdatePokemonSets, UNCHANGED <<game, folder, saved>> PROVE Inv'
<1>1. PICK answers, w : 
        LET after == FollowLists(UpdateRegions(answers, w), w["cards"])
        IN  /\ Writes(after.d)
            /\ TabReloads(IF after.saved THEN Refresh(tab, after.d) ELSE tab, after.d)
  BY DEF OnUpdatePokemonSets
<1> DEFINE both == UpdateRegions(answers, w)
           d == FollowLists(both, w["cards"]).d
           t == IF FollowLists(both, w["cards"]).saved THEN Refresh(tab, d) ELSE tab
<1>2. Writes(d) /\ TabReloads(t, d) /\ (t = tab \/ t = Refresh(tab, d))
  BY <1>1
<1>3. game = "Pokemon" /\ game # "Magic"
  BY DEF OnUpdatePokemonSets
<1>4. IsFolder(both.d, Parts)
  BY <1>3, BothAreUpdated
<1> HIDE DEF both, t
<1>5. IsFolder(d, Parts)
  <2> DEFINE e == both.d
             x == Write(w["cards"], e.cards, SyncPokemonCollectionSets(LoadCards(e), both.cache["West"], both.cache["Asia"]))
             f == [e EXCEPT !.cards = x]
  <2>1. d = e \/ d = f
    BY DEF FollowLists
  <2> HIDE DEF d, e, x
  <2>2. Becomes(e, f, Parts, x, e.sets, e.packs)
    BY <1>4, RecordsAreWritten DEF e
  <2> HIDE DEF f
  <2> QED BY <1>4, <2>1, <2>2 DEF Becomes, e
<1> HIDE DEF d
<1>6. TabOK(t) /\ t.game = game
  <2> DEFINE k == disk[catalogOf]
             u == Refresh(tab, d)
  <2>1. Follows(tab, game, k)
    BY <1>3 DEF Inv, TabInv, Holds
  <2> HIDE DEF k
  <2>2. Holds(u, game, d, k, Readable(d.cards))
    BY <1>3, <2>1, Refreshed
  <2> HIDE DEF u
  <2> QED BY <1>2, <2>1, <2>2 DEF Holds, Follows, u
<1> QED BY <1>2, <1>3, <1>5, <1>6, ReloadStep

\* The other games: the tab loads all again, or the files were not all written.
LEMMA PartUpdateStep ==
    ASSUME Inv, game # "Magic", NEW p \in Parts, NEW f, NEW wSets, NEW wCatalog, NEW d,
           d = UpdateRegion([d |-> Here, cache |-> view.cache], p, f, wSets, wCatalog).d,
           Writes(d), UNCHANGED <<game, folder, saved>>,
           \/ TabReloads(tab, d)
           \/ /\ wSets # "ok" \/ wCatalog # "ok"
              /\ UNCHANGED <<tab, behind, catalogOf>>
    PROVE  Inv'
<1>1. /\ IsFolder(d, Parts) /\ d.cards = Here.cards
      /\ (wSets # "ok" \/ wCatalog # "ok") =>
           \A q \in Parts : Readable(d.packs[q]) => d.packs[q] = Here.packs[q]
  BY OneIsUpdated
<1>2. TabOK(tab) /\ tab.game = game
  BY DEF Inv, TabInv, Holds, Follows
<1>3. CASE TabReloads(tab, d)
  BY <1>1, <1>2, <1>3, ReloadStep
<1>4. CASE (wSets # "ok" \/ wCatalog # "ok") /\ UNCHANGED <<tab, behind, catalogOf>>
  BY <1>1, <1>4, KeepStep
<1> QED BY <1>3, <1>4

\* Each of their updates is one of a part.
OnePartIsUpdated ==
    game # "Magic" /\ \E p \in Parts : \E f \in {a.all : a \in Upstream[p]} : \E wSets, wCatalog, d :
        /\ d = UpdateRegion([d |-> Here, cache |-> view.cache], p, f, wSets, wCatalog).d
        /\ Writes(d)
        /\ \/ TabReloads(tab, d)
           \/ /\ wSets # "ok" \/ wCatalog # "ok"
              /\ UNCHANGED <<tab, behind, catalogOf>>

\* Updating Yu-Gi-Oh! is an update of its one part.
LEMMA YuGiOhIsUpdated == Inv /\ OnUpdateYuGiOhSets => OnePartIsUpdated
<1> SUFFICES ASSUME Inv, OnUpdateYuGiOhSets PROVE OnePartIsUpdated
  OBVIOUS
<1>1. "YuGiOh" \in Parts /\ game # "Magic"
  BY GameIsOne, PartsOfGames DEF OnUpdateYuGiOhSets, Inv, DiskInv
<1>2. PICK f \in {a.all : a \in Upstream["YuGiOh"]} : \E w :
        LET s == UpdateRegion([d |-> Here, cache |-> view.cache], "YuGiOh", f, w["sets"], w["catalog"])
        IN  /\ Writes(s.d)
            /\ IF w["sets"] = "ok" THEN TabReloads(tab, s.d) ELSE UNCHANGED <<tab, behind, catalogOf>>
  BY DEF OnUpdateYuGiOhSets
<1> QED BY <1>1, <1>2 DEF OnePartIsUpdated

\* Updating Digi-Battle is.
LEMMA DigiIsUpdated == Inv /\ OnUpdateDigiSets => OnePartIsUpdated
<1> SUFFICES ASSUME Inv, OnUpdateDigiSets PROVE OnePartIsUpdated
  OBVIOUS
<1>1. "Digi" \in Parts /\ game # "Magic"
  BY GameIsOne, PartsOfGames DEF OnUpdateDigiSets, Inv, DiskInv
<1>2. PICK f \in {a.all : a \in Upstream["Digi"]} : \E w :
        LET s == UpdateRegion([d |-> Here, cache |-> view.cache], "Digi", f, w["sets"], w["catalog"])
        IN  /\ Writes(s.d)
            /\ IF w["sets"] = "ok" THEN TabReloads(tab, s.d) ELSE UNCHANGED <<tab, behind, catalogOf>>
  BY DEF OnUpdateDigiSets
<1> QED BY <1>1, <1>2 DEF OnePartIsUpdated

\* Updating Bandai is, and so is the first look at its tab.
LEMMA BandaiIsUpdated == Inv /\ (OnUpdateBandaiSets \/ SelectTab) => OnePartIsUpdated
<1> SUFFICES ASSUME Inv, OnUpdateBandaiSets \/ SelectTab PROVE OnePartIsUpdated
  OBVIOUS
<1>1. "Bandai" \in Parts /\ game # "Magic" /\ DownloadSetsAndCatalog
  BY GameIsOne, PartsOfGames DEF OnUpdateBandaiSets, SelectTab, Inv, DiskInv
<1>2. PICK f \in {a.all : a \in Upstream["Bandai"]} : \E w :
        LET s == UpdateRegion([d |-> Here, cache |-> view.cache], "Bandai", f, w["sets"], w["catalog"])
        IN  /\ Writes(s.d)
            /\ IF w["sets"] = "ok" /\ w["catalog"] = "ok" THEN TabReloads(tab, s.d)
               ELSE UNCHANGED <<tab, behind, catalogOf>>
  BY <1>1 DEF DownloadSetsAndCatalog
<1> QED BY <1>1, <1>2 DEF OnePartIsUpdated

\* The invariant, for every update of sets.
LEMMA UpdateStep == Inv /\ OnUpdateSets => Inv'
<1> SUFFICES ASSUME Inv, OnUpdateSets PROVE Inv'
  OBVIOUS
<1>1. UNCHANGED <<game, folder, saved>>
  BY DEF OnUpdateSets
<1>2. CASE OnUpdateMagicSets
  BY <1>1, <1>2, MagicIsUpdated
<1>3. CASE OnUpdatePokemonSets
  BY <1>1, <1>3, PokemonIsUpdated
<1>4. CASE OnePartIsUpdated
  BY <1>1, <1>4, PartUpdateStep DEF OnePartIsUpdated
<1> QED
  BY <1>2, <1>3, <1>4, YuGiOhIsUpdated, DigiIsUpdated, BandaiIsUpdated DEF OnUpdateSets

-----------------------------------------------------------------------------
\* The tab's own steps.

\* Choosing a region.
LEMMA RegionIsChosen ==
    ASSUME NEW t, TabOK(t), NEW r
    PROVE  LET u == OnRegionChoice(t, r)
           IN  TabOK(u) /\ u.game = t.game /\ u.cards = t.cards /\ u.packs = t.packs
<1> DEFINE a == [t EXCEPT !.region = r]
           b == RefreshLanguageChoice(a)
           u == RebuildCurrentView(b)
<1>1. IsTab(a) /\ PagesOK(a) /\ a.game = t.game /\ a.cards = t.cards /\ a.packs = t.packs
  BY FieldsOfATab DEF TabOK, IsTab, PagesOK
<1> HIDE DEF a
<1>2. /\ IsTab(b) /\ PagesOK(b) /\ LangOK(b)
      /\ b.game = a.game /\ b.cards = a.cards /\ b.packs = a.packs
  BY <1>1, LanguageIsFine
<1> HIDE DEF b
<1>3. IsTab(u) /\ PagesOK(u) /\ SameBasis(b, u) /\ ListOK(u)
  BY <1>2, ViewIsFine
<1> HIDE DEF u
<1>4. LangOK(u)
  BY <1>2, <1>3, SameLanguage
<1> QED BY <1>1, <1>2, <1>3, <1>4 DEF TabOK, SameBasis, OnRegionChoice, u, b, a

\* Choosing a language that is offered.
LEMMA LanguageIsChosen ==
    ASSUME NEW t, TabOK(t), NEW l \in {All} \cup LanguagesOffered(t)
    PROVE  LET u == OnLanguageChoice(t, l)
           IN  TabOK(u) /\ u.game = t.game /\ u.cards = t.cards /\ u.packs = t.packs
<1> DEFINE a == [t EXCEPT !.lang = l]
           u == RebuildCurrentView(a)
<1>1. /\ IsTab(a) /\ PagesOK(a) /\ a.game = t.game /\ a.cards = t.cards /\ a.packs = t.packs
      /\ a.region = t.region /\ a.lang = l
  BY FieldsOfATab DEF TabOK, IsTab, PagesOK
<1> HIDE DEF a
<1>2. LangOK(a)
  BY <1>1, LanguagesDependOn DEF LangOK
<1>3. IsTab(u) /\ PagesOK(u) /\ SameBasis(a, u) /\ ListOK(u)
  BY <1>1, ViewIsFine
<1> HIDE DEF u
<1>4. LangOK(u)
  BY <1>2, <1>3, SameLanguage
<1> QED BY <1>1, <1>3, <1>4 DEF TabOK, SameBasis, OnLanguageChoice, u, a

\* Opening the page of a set.
LEMMA TileIsOpened ==
    ASSUME NEW t, TabOK(t), NEW row \in t.tiles, NEW id
    PROVE  LET u == ShowChecklistPage(t, row[1], id)
           IN  TabOK(u) /\ u.game = t.game /\ u.cards = t.cards /\ u.packs = t.packs
<1> DEFINE e == {<<row[1], id>>}
           a == [t EXCEPT !.open = e]
           u == RebuildChecklist(a)
<1>1. \A s \in e : s[1] = row[1]
  OBVIOUS
<1> HIDE DEF e
<1>2. IsTab(a) /\ PagesOK(a) /\ SameBasis(t, a)
  BY <1>1, FieldsOfATab DEF TabOK, IsTab, PagesOK, SameBasis
<1> HIDE DEF a
<1>3. IsTab(u) /\ PagesOK(u) /\ SameBasis(a, u) /\ ListOK(u)
  BY <1>2, ChecklistIsFine
<1> HIDE DEF u
<1>4. SameBasis(t, u)
  BY <1>2, <1>3 DEF SameBasis
<1>5. LangOK(u)
  BY <1>4, SameLanguage DEF TabOK
<1> QED BY <1>3, <1>4, <1>5 DEF TabOK, SameBasis, ShowChecklistPage, u, a, e

\* Going back to the grid.
LEMMA PageIsLeft ==
    ASSUME NEW t, TabOK(t)
    PROVE  LET u == ShowGridPage(t)
           IN  TabOK(u) /\ u.game = t.game /\ u.cards = t.cards /\ u.packs = t.packs
<1> DEFINE e == {}
           u == ShowGridPage(t)
<1>1. u = [t EXCEPT !.open = e, !.list = e]
  BY DEF ShowGridPage
<1> HIDE DEF u, e
<1>2. u = [game |-> t.game, cards |-> t.cards, packs |-> t.packs, region |-> t.region,
           lang |-> t.lang, open |-> e, tiles |-> t.tiles, list |-> e]
  BY <1>1, PageOfATab DEF TabOK
<1>3. IsTab(u) /\ SameBasis(t, u) /\ u.open = {} /\ u.list = {} /\ u.tiles = t.tiles
  BY <1>2 DEF TabOK, IsTab, SameBasis, e
<1>4. PagesOK(u) /\ ListOK(u)
  BY <1>3 DEF TabOK, PagesOK, ListOK, SameBasis
<1>5. LangOK(u)
  BY <1>3, SameLanguage DEF TabOK
<1> QED BY <1>3, <1>4, <1>5 DEF TabOK, SameBasis, u

\* The invariant, for what is done in the tab itself.
LEMMA PanelStep ==
    Inv /\ (OnChooseRegion \/ OnChooseLanguage \/ OpenTile \/ Back) => Inv'
<1> SUFFICES ASSUME Inv, OnChooseRegion \/ OnChooseLanguage \/ OpenTile \/ Back PROVE Inv'
  OBVIOUS
<1>1. InTab /\ game # "Magic"
  BY DEF OnChooseRegion, OnChooseLanguage, OpenTile, Back
<1>2. TabOK(tab) /\ Follows(tab, game, disk[catalogOf])
  BY <1>1 DEF Inv, TabInv, Holds, Follows
<1>3. TabOK(tab') /\ tab'.game = tab.game /\ tab'.cards = tab.cards /\ tab'.packs = tab.packs
  <2>1. CASE OnChooseRegion
    BY <1>2, <2>1, RegionIsChosen DEF OnChooseRegion
  <2>2. CASE OnChooseLanguage
    BY <1>2, <2>2, LanguageIsChosen DEF OnChooseLanguage
  <2>3. CASE OpenTile
    BY <1>2, <2>3, TileIsOpened DEF OpenTile
  <2>4. CASE Back
    BY <1>2, <2>4, PageIsLeft DEF Back
  <2> QED BY <2>1, <2>2, <2>3, <2>4
<1>4. Follows(tab', game, disk[catalogOf])
  BY <1>2, <1>3 DEF Follows
<1> QED BY <1>1, <1>3, <1>4, TabStep

\* The deck check touches neither files nor tab.
LEMMA DeckStep == Inv /\ (TypeDeck \/ Analyze \/ Clear) => Inv'
  BY TabStep DEF TypeDeck, Analyze, Clear

-----------------------------------------------------------------------------
\* Other games, other folders, other runs of the program.

\* A refresh that follows the folder f, without a write.
LEMMA OtherFolderStep ==
    ASSUME Inv, NEW f \in Folders, folder' = f, saved' \in Folders, catalogOf' \in Folders,
           UNCHANGED <<game, disk>>,
           game # "Magic" => Holds(tab', game, disk[f], disk[catalogOf'], Readable(disk[f].cards))
    PROVE  Inv'
<1>1. DiskInv' /\ Here' = disk[f]
  BY DEF Inv, DiskInv, Here, Parts
<1>2. Known' => Readable(disk[f].cards)
  BY <1>1 DEF Known
<1> QED BY <1>1, <1>2 DEF Inv, TabInv, Holds

\* Switching to the game once more builds its view anew.
LEMMA RemountStep == Inv /\ Remount => Inv'
<1> SUFFICES ASSUME Inv, Remount PROVE Inv'
  OBVIOUS
<1>1. UNCHANGED <<game, disk, folder, saved, catalogOf>> /\ folder \in Folders
      /\ saved \in Folders /\ catalogOf \in Folders
  BY DEF Remount, Inv, DiskInv
<1>2. ASSUME game # "Magic"
      PROVE  Holds(tab', game, disk[folder], disk[catalogOf], Readable(disk[folder].cards))
  <2> DEFINE u == RebuildCurrentView(tab)
  <2>1. TabOK(tab) /\ Follows(tab, game, disk[catalogOf])
    BY <1>2 DEF Inv, TabInv, Holds, Follows
  <2>2. IsTab(u) /\ PagesOK(u) /\ SameBasis(tab, u) /\ ListOK(u)
    BY <2>1, ViewIsFine DEF TabOK
  <2>3. tab' = Refresh(u, disk[folder])
    BY <1>2 DEF Remount, Here
  <2> HIDE DEF u
  <2>4. LangOK(u)
    BY <2>1, <2>2, SameLanguage DEF TabOK
  <2>5. Follows(u, game, disk[catalogOf])
    BY <2>1, <2>2, <2>4 DEF Follows, TabOK, SameBasis
  <2> QED BY <1>2, <2>3, <2>5, Refreshed
<1> QED BY <1>1, <1>2, OtherFolderStep

\* The folder is moved, and the tab reloaded.
LEMMA MoveStep == Inv /\ MoveFolder => Inv'
<1> SUFFICES ASSUME Inv, MoveFolder PROVE Inv'
  OBVIOUS
<1>1. PICK f \in Folders : folder' = f /\ saved' = f /\ tab' = Refresh(tab, disk[f])
  BY DEF MoveFolder, MovesTo
<1>2. UNCHANGED <<game, disk, catalogOf>> /\ catalogOf \in Folders
  BY DEF MoveFolder, Inv, DiskInv
<1>3. ASSUME game # "Magic"
      PROVE  Holds(tab', game, disk[f], disk[catalogOf], Readable(disk[f].cards))
  BY <1>1, <1>3, Refreshed DEF Inv, TabInv, Holds
<1> QED BY <1>1, <1>2, <1>3, OtherFolderStep

\* The program starts from the folder its settings name.
LEMMA RestartStep == Inv /\ Restart => Inv'
<1> SUFFICES ASSUME Inv, Restart PROVE Inv'
  OBVIOUS
<1>1. saved \in Folders /\ IsFolder(disk[saved], Parts)
  BY DEF Inv, DiskInv
<1>2. /\ folder' = saved /\ catalogOf' = saved /\ tab' = Mounted(disk[saved])
      /\ UNCHANGED <<game, disk, saved>>
  BY DEF Restart
<1>3. game \in Games /\ Parts = PartsIn(game)
  BY GameIsOne DEF Inv
<1>4. ASSUME game # "Magic"
      PROVE  Holds(tab', game, disk[saved], disk[saved], Readable(disk[saved].cards))
  BY <1>1, <1>2, <1>3, <1>4, MountedTab
<1> QED BY <1>1, <1>2, <1>4, OtherFolderStep

\* The folder is moved but its settings cannot be saved: the tab stays behind.
LEMMA SettingsStep == Inv /\ SettingsFail => Inv'
<1> SUFFICES ASSUME Inv, SettingsFail PROVE Inv'
  OBVIOUS
<1>1. folder' \in Folders /\ behind' = TRUE /\ UNCHANGED <<game, disk, saved, tab, catalogOf>>
  BY DEF SettingsFail, MovesTo
<1>2. DiskInv' /\ ~Known'
  BY <1>1 DEF Inv, DiskInv, Parts, Known
<1>3. game # "Magic" => Follows(tab, game, disk[catalogOf])
  BY DEF Inv, TabInv, Holds
<1> QED BY <1>1, <1>2, <1>3 DEF Inv, TabInv, Holds

-----------------------------------------------------------------------------

\* The invariant, at first.
LEMMA InitHasInv == Init => Inv
<1> SUFFICES ASSUME Init PROVE Inv
  OBVIOUS
<1>1. PICK d \in Contents[game] : disk = [f \in Folders |-> d]
  BY DEF Init
<1>2. game \in DOMAIN Contents /\ IsFolder(d, Parts)
  BY <1>1, TabsAssumption DEF Init, Parts
<1>3. /\ folder = "Home" /\ saved = "Home" /\ catalogOf = "Home" /\ "Home" \in Folders
      /\ behind = FALSE /\ tab = Mounted(Here)
  BY DEF Init, Folders
<1>4. DiskInv /\ Here = d /\ disk[catalogOf] = d
  BY <1>1, <1>2, <1>3 DEF DiskInv, Here
<1>5. game \in Games /\ Parts = PartsIn(game)
  BY <1>4, GameIsOne
<1>6. ASSUME game # "Magic" PROVE Holds(tab, game, d, d, Readable(d.cards))
  BY <1>2, <1>3, <1>4, <1>5, <1>6, MountedTab
<1> QED BY <1>4, <1>6 DEF Inv, TabInv, Holds, Known

\* The invariant, for every step.
LEMMA NextKeepsInv == Inv /\ [Next]_vars => Inv'
<1> SUFFICES ASSUME Inv, [Next]_vars PROVE Inv'
  OBVIOUS
<1>1. CASE OnAddCard \/ OnEditCard \/ OnDeleteCard
  BY <1>1, AddStep, EditStep, DeleteStep
<1>2. CASE OnUpdateSets
  BY <1>2, UpdateStep
<1>3. CASE OnChooseRegion \/ OnChooseLanguage \/ OpenTile \/ Back \/ TypeDeck \/ Analyze \/ Clear
  BY <1>3, PanelStep, DeckStep
<1>4. CASE Remount \/ MoveFolder \/ SettingsFail \/ Restart
  BY <1>4, RemountStep, MoveStep, SettingsStep, RestartStep
<1>5. CASE UNCHANGED vars
  <2>1. InTab /\ tab' = tab
    BY <1>5 DEF vars, InTab
  <2>2. game # "Magic" => Follows(tab, game, disk[catalogOf])
    BY DEF Inv, TabInv, Holds
  <2> QED BY <2>1, <2>2, TabStep
<1> QED BY <1>1, <1>2, <1>3, <1>4, <1>5 DEF Next

\* GameTabs.ChecklistShowsTheCollection, for all tables, contents, answers and bounds.
THEOREM ChecklistIsTheCollection == Spec => []ChecklistShowsTheCollection
<1>1. Spec => []Inv
  BY InitHasInv, NextKeepsInv, PTL DEF Spec
<1> QED BY <1>1, InvShowsTheCollection, PTL

-----------------------------------------------------------------------------
(***************************************************************************)
(* What an upstream sends.                                                 *)
(***************************************************************************)

English(sets) == \A s \in sets : s.name \notin CjkNames
Latin(sets) == \A s \in sets : IsSet(s) /\ s.id \notin CjkNames

\* Ids of sets are not Japanese, neither those of TCGdex nor those of saved lists.
IdsAreLatin ==
    /\ Latin(MissingClassicProducts)
    /\ "Asia" \in DOMAIN Replies =>
         \A r \in Replies["Asia"] : Answered(r.list) =>
           \A s \in ToSet(r.list) : s.id \notin CjkNames
    /\ "Pokemon" \in DOMAIN Contents =>
         \A d \in Contents["Pokemon"] : \A l \in {d.sets["Asia"], d.legacy["Asia"]} :
           Readable(l) => Latin(l)

\* The list of Bandai sets that is saved is the one the program comes with.
ListIsPresent ==
    "Bandai" \in DOMAIN Contents =>
      \A d \in Contents["Bandai"] : \A l \in {d.sets["Bandai"], d.legacy["Bandai"]} :
        Readable(l) => l = BandaiFetchAll.sets

\* A list the upstream may send for a part.
Sent(p, l) ==
    \E a \in Upstream[p] : (a.list.ok /\ l = a.list.sets) \/ (a.all.ok /\ l = a.all.sets)

\* Applying the English name once more changes nothing, whatever date was filled in.
NamedOnce(x) == ApplyEnglishSetName(x) = x

\* Naming and dating a set leaves its id as it is.
LEMMA FieldsOfASet ==
    ASSUME NEW s, IsSet(s), NEW n, NEW d
    PROVE  [s EXCEPT !.name = n, !.date = d] = [id |-> s.id, name |-> n, date |-> d]
<1> DEFINE A == {s.id} B == {s.name, n} C == {s.date, d}
           R == [id : A, name : B, date : C]
           u == [s EXCEPT !.name = n, !.date = d]
<1>1. s \in R /\ n \in B /\ d \in C
  BY DEF IsSet
<1>2. \A x \in R : x = [id |-> x.id, name |-> x.name, date |-> x.date]
  OBVIOUS
<1> HIDE DEF A, B, C
<1>3. u \in R /\ u.id = s.id /\ u.name = n /\ u.date = d
  BY <1>1
<1> HIDE DEF R, u
<1>4. u = [id |-> s.id, name |-> n, date |-> d]
  BY <1>2, <1>3
<1> QED BY <1>4 DEF u

\* The name and the date of a set, in English.
EnglishName(id, n) ==
    LET name == IF id \in DOMAIN CatalogSets /\ CatalogSets[id].name # "" THEN CatalogSets[id].name ELSE n
    IN  IF name \in CjkNames \cup {""} THEN id ELSE name
EnglishDate(id, d) ==
    IF id \in DOMAIN CatalogSets /\ CatalogSets[id].date # 0 THEN CatalogSets[id].date ELSE d

\* What ApplyEnglishSetName makes of a set.
LEMMA EnglishSet ==
    ASSUME NEW s, IsSet(s)
    PROVE  ApplyEnglishSetName(s) =
             [id |-> s.id, name |-> EnglishName(s.id, s.name), date |-> EnglishDate(s.id, s.date)]
<1> DEFINE n == EnglishName(s.id, s.name)
           d == EnglishDate(s.id, s.date)
<1>1. ApplyEnglishSetName(s) = [s EXCEPT !.name = n, !.date = d]
  BY DEF ApplyEnglishSetName, EnglishName, EnglishDate
<1> HIDE DEF n, d
<1>2. ApplyEnglishSetName(s) = [id |-> s.id, name |-> n, date |-> d]
  BY <1>1, FieldsOfASet
<1> QED BY <1>2 DEF n, d

\* A set whose id is not Japanese has no Japanese name then.
LEMMA EnglishNames ==
    ASSUME NEW s, IsSet(s)
    PROVE  LET y == ApplyEnglishSetName(s)
           IN  IsSet(y) /\ y.id = s.id /\ (s.id \notin CjkNames => y.name \notin CjkNames)
<1> DEFINE n == EnglishName(s.id, s.name)
           d == EnglishDate(s.id, s.date)
           y == ApplyEnglishSetName(s)
<1>1. s.id \notin CjkNames => n \notin CjkNames
  BY DEF EnglishName
<1> HIDE DEF n, d, y
<1>2. y = [id |-> s.id, name |-> n, date |-> d]
  BY EnglishSet DEF n, d, y
<1>3. IsSet(y) /\ y.id = s.id /\ y.name = n
  BY <1>2 DEF IsSet
<1> QED BY <1>1, <1>3 DEF y

\* Naming a fetched set once more changes nothing, whatever its details said.
LEMMA NamesAreFinal ==
    ASSUME NEW s, IsSet(s), NEW detail
    PROVE  LET x == Dated(ApplyEnglishSetName(s), detail)
           IN  IsSet(x) /\ x.id = s.id /\ x.name = ApplyEnglishSetName(s).name /\ NamedOnce(x)
<1> DEFINE Final(n) == EnglishName(s.id, n)
           Day(d) == EnglishDate(s.id, d)
           y == ApplyEnglishSetName(s)
           x == Dated(y, detail)
<1>1. \A u : IsSet(u) /\ u.id = s.id =>
        ApplyEnglishSetName(u) = [id |-> s.id, name |-> Final(u.name), date |-> Day(u.date)]
  BY EnglishSet
<1>2. y = [id |-> s.id, name |-> Final(s.name), date |-> Day(s.date)]
  BY <1>1
<1>3. Final(Final(s.name)) = Final(s.name)
  BY DEF EnglishName
<1>4. \A d : Day(s.date) = 0 => Day(d) = d
  BY DEF EnglishDate
<1>5. Day(Day(s.date)) = Day(s.date)
  BY DEF EnglishDate
<1> HIDE DEF Final, Day, y
<1>6. \E d : /\ x = [id |-> s.id, name |-> Final(s.name), date |-> d]
             /\ d = Day(s.date) \/ Day(s.date) = 0
  BY <1>2 DEF Dated
<1> HIDE DEF x
<1>7. IsSet(x) /\ x.id = s.id /\ x.name = Final(s.name) /\ Day(x.date) = x.date
  BY <1>4, <1>5, <1>6 DEF IsSet
<1>8. ApplyEnglishSetName(x) = [id |-> s.id, name |-> x.name, date |-> x.date]
  BY <1>1, <1>3, <1>7
<1>9. NamedOnce(x)
  BY <1>7, <1>8 DEF IsSet, NamedOnce
<1> QED BY <1>2, <1>7, <1>9 DEF x, y

\* A fetched list is what a dialog makes of it, and is English.
LEMMA AsiaIsFinal ==
    ASSUME NEW list, NEW details, Answered(list)
    PROVE  LET l == JapanesePokemonFetch(list, details).sets
           IN  /\ AugmentCachedSets(l) = l
               /\ Latin(MissingClassicProducts) /\ (\A s \in ToSet(list) : s.id \notin CjkNames)
                    => Latin(l) /\ English(l)
<1> DEFINE parsed == ParseAsiaList(list)
           Made(s) == Dated(ApplyEnglishSetName(s), details[ApplyEnglishSetName(s).id])
           M == MissingClassicProducts
           l == {Made(s) : s \in parsed}
<1>1. JapanesePokemonFetch(list, details).sets = l
  BY DEF JapanesePokemonFetch, Fetched
<1>2. \A s \in parsed : IsSet(s) /\ (s \in M \/ \A m \in M : m.id # s.id)
                         /\ (s \in M \/ \E r \in ToSet(list) : s.id = r.id)
  <2> DEFINE Named(s) == [s EXCEPT !.name = IF s.id \in DOMAIN NameOverrides THEN NameOverrides[s.id] ELSE @]
             raw == ParseListResponse(list)
             kept == {Named(s) : s \in {x \in raw : x.id \notin ChineseIds}}
  <2>1. parsed = {s \in kept : \A p \in M : p.id # s.id} \cup M
    BY DEF ParseAsiaList, AppendMissingClassicProducts
  <2>2. \A s \in raw : IsSet(s) /\ \E r \in ToSet(list) : s.id = r.id
    <3> TAKE s \in raw
    <3>1. PICK r \in ToSet(list) : s = [id |-> r.id, name |-> r.name, date |-> 0]
      BY DEF ParseListResponse
    <3> QED BY <3>1 DEF IsSet
  <2>3. \A s : IsSet(s) => IsSet(Named(s)) /\ Named(s).id = s.id
    BY DEF IsSet
  <2> HIDE DEF raw, Named
  <2>4. \A s \in kept : IsSet(s) /\ \E r \in ToSet(list) : s.id = r.id
    BY <2>2, <2>3
  <2> HIDE DEF kept, parsed
  <2> QED BY <2>1, <2>4, TabsAssumption
<1>3. M \subseteq parsed
  BY DEF ParseAsiaList, AppendMissingClassicProducts
<1>4. \A m \in M : Made(m) = m
  BY TabsAssumption DEF Dated
<1>5. \A s \in parsed : /\ IsSet(Made(s)) /\ Made(s).id = s.id /\ NamedOnce(Made(s))
                        /\ Made(s).name = ApplyEnglishSetName(s).name
  BY <1>2, NamesAreFinal
<1> HIDE DEF parsed, Made
<1>6. AugmentCachedSets(l) = l
  <2>1. {ApplyEnglishSetName(x) : x \in l} = l
    BY <1>5 DEF NamedOnce
  <2>2. M \subseteq l
    BY <1>3, <1>4
  <2>3. \A x \in l : x \in M \/ \A m \in M : m.id # x.id
    BY <1>2, <1>4, <1>5
  <2> HIDE DEF l
  <2> QED BY <2>1, <2>2, <2>3 DEF AugmentCachedSets, AppendMissingClassicProducts
<1>7. ASSUME Latin(M), \A s \in ToSet(list) : s.id \notin CjkNames
      PROVE  Latin(l) /\ English(l)
  <2>1. \A s \in parsed : s.id \notin CjkNames
    BY <1>2, <1>7 DEF Latin
  <2>2. \A s \in parsed : Made(s).name \notin CjkNames
    BY <1>2, <1>5, <2>1, EnglishNames
  <2> QED BY <1>5, <2>1, <2>2 DEF Latin, English
<1> QED BY <1>1, <1>6, <1>7

\* What a dialog makes of a saved list is English.
LEMMA AugmentedIsEnglish ==
    ASSUME NEW l, Latin(l), Latin(MissingClassicProducts)
    PROVE  English(AugmentCachedSets(l))
<1>1. \A s \in l : ApplyEnglishSetName(s).name \notin CjkNames
  BY EnglishNames DEF Latin
<1>2. \A m \in MissingClassicProducts : m.name \notin CjkNames
  BY TabsAssumption, EnglishNames DEF Latin
<1> QED BY <1>1, <1>2 DEF English, AugmentCachedSets, AppendMissingClassicProducts

\* Of every list that is sent.
LEMMA SentLists ==
    ASSUME NEW p \in DOMAIN Replies, NEW l, Sent(p, l)
    PROVE  /\ Readable(l)
           /\ p = "Asia" => AugmentCachedSets(l) = l /\ (IdsAreLatin => Latin(l) /\ English(l))
           /\ p = "Bandai" => l = BandaiFetchAll.sets
<1>1. PICK r \in Replies[p] : \/ FetchAll(p, r).ok /\ l = FetchAll(p, r).sets
                              \/ FetchAllWithCatalog(p, r).ok /\ l = FetchAllWithCatalog(p, r).sets
  BY DEF Sent, Upstream
<1>2. Readable(l)
  BY TabsAssumption DEF Sent
<1>3. ASSUME p = "Asia"
      PROVE  AugmentCachedSets(l) = l /\ (IdsAreLatin => Latin(l) /\ English(l))
  <2> DEFINE f == JapanesePokemonFetch(r.list, r.details)
  <2>1. f.ok /\ l = f.sets
    BY <1>1, <1>3 DEF FetchAll, FetchAllWithCatalog
  <2>2. Answered(r.list)
    BY <2>1 DEF JapanesePokemonFetch, Failed
  <2>3. IdsAreLatin => Latin(MissingClassicProducts) /\ \A s \in ToSet(r.list) : s.id \notin CjkNames
    BY <1>3, <2>2 DEF IdsAreLatin
  <2> QED BY <2>1, <2>2, <2>3, AsiaIsFinal
<1>4. ASSUME p = "Bandai" PROVE l = BandaiFetchAll.sets
  <2>1. \/ BandaiFetchAll.ok /\ l = BandaiFetchAll.sets
        \/ BandaiFetch(r.pages).ok /\ l = BandaiFetch(r.pages).sets
    BY <1>1, <1>4 DEF FetchAll, FetchAllWithCatalog
  <2>2. BandaiFetch(r.pages).ok => BandaiFetch(r.pages).sets = BandaiFetchAll.sets
    BY DEF BandaiFetch, Failed, Fetched
  <2> QED BY <2>1, <2>2
<1> QED BY <1>2, <1>3, <1>4

-----------------------------------------------------------------------------
(***************************************************************************)
(* The lists that dialogs offer, and the files they come from.             *)
(***************************************************************************)

Bundled == {{}, BandaiFetchAll.sets}

\* The files of a part and what is cached of it: the list in its place, the one of a
\* former version, and the list a dialog offers, which is (if "still") the stored one.
FilesOK(p, file, former) ==
    /\ p = "Asia" /\ IdsAreLatin => (Readable(file) => Latin(file)) /\ (Readable(former) => Latin(former))
    /\ p = "Bandai" /\ ListIsPresent =>
         \A l \in {file, former} : Readable(l) => l = BandaiFetchAll.sets

CacheOK(p, cached) ==
    /\ p = "Asia" /\ IdsAreLatin => English(cached)
    /\ p = "Bandai" /\ ListIsPresent => cached \in Bundled

StoredList(file, former) == IF file = Missing THEN former ELSE file
OfferedList(p, l) == IF p = "Asia" /\ Readable(l) THEN AugmentCachedSets(l) ELSE l

IsStored(p, file, former, cached) ==
    LET l == StoredList(file, former)
    IN  cached # {} /\ Readable(l) => cached = OfferedList(p, l)

PartOK(p, file, former, cached, still) ==
    FilesOK(p, file, former) /\ CacheOK(p, cached) /\ (still => IsStored(p, file, former, cached))

\* The file a list in the former place is copied to.
Promoted(file, former, w) ==
    IF file = Missing /\ Readable(former) THEN Write(w, file, former) ELSE file

\* Reading a part's list keeps its files and its cache in step.
LEMMA ReadingIsOK ==
    ASSUME NEW p, NEW file, NEW former, NEW cached, NEW still, NEW still2, NEW w,
           PartOK(p, file, former, cached, still)
    PROVE  LET l == OfferedList(p, StoredList(file, former))
           IN  PartOK(p, Promoted(file, former, w), former, IF Readable(l) THEN l ELSE {}, still2)
<1> DEFINE stored == StoredList(file, former)
           l == OfferedList(p, stored)
           new == Promoted(file, former, w)
           read == IF Readable(l) THEN l ELSE {}
<1>1. new \in {file, Torn} \/ (file = Missing /\ new = former)
  BY DEF Promoted, Write
<1>2. FilesOK(p, new, former)
  BY <1>1 DEF PartOK, FilesOK, Readable
<1>3. Readable(StoredList(new, former)) => StoredList(new, former) = stored
  BY <1>1, FilesAssumption DEF StoredList, Readable
<1>4. stored \in {file, former}
  BY DEF StoredList
<1>5. CacheOK(p, read)
  <2>1. ASSUME p = "Asia", IdsAreLatin PROVE English(read)
    <3>1. Readable(stored) => Latin(stored)
      BY <1>4, <2>1 DEF PartOK, FilesOK
    <3>2. Latin(MissingClassicProducts)
      BY <2>1 DEF IdsAreLatin
    <3>3. Readable(stored) => English(l)
      BY <2>1, <3>1, <3>2, AugmentedIsEnglish DEF OfferedList
    <3>4. ~Readable(stored) => ~Readable(l)
      BY DEF OfferedList
    <3>5. English({})
      BY DEF English
    <3> QED BY <3>3, <3>4, <3>5
  <2>2. ASSUME p = "Bandai", ListIsPresent PROVE read \in Bundled
    BY <1>4, <2>2 DEF PartOK, FilesOK, OfferedList, Bundled
  <2> QED BY <2>1, <2>2 DEF CacheOK
<1>6. IsStored(p, new, former, read)
  BY <1>3 DEF IsStored
<1> QED BY <1>2, <1>5, <1>6 DEF PartOK

\* A list that was sent is saved; what is cached is the list if that went well.
LEMMA SavingIsOK ==
    ASSUME NEW p \in DOMAIN Replies, NEW file, NEW former, NEW cached, NEW still, NEW still2, NEW w,
           NEW l, Sent(p, l), PartOK(p, file, former, cached, still)
    PROVE  /\ PartOK(p, l, former, l, still2)
           /\ PartOK(p, Write(w, file, l), former, {}, still2)
           /\ w # "ok" => PartOK(p, Write(w, file, l), former, cached, still)
           /\ p = "Bandai" /\ ListIsPresent => PartOK(p, l, former, cached, still2)
           /\ ~still => PartOK(p, l, former, cached, still)
<1>1. /\ Readable(l)
      /\ p = "Asia" => AugmentCachedSets(l) = l /\ (IdsAreLatin => Latin(l) /\ English(l))
      /\ p = "Bandai" => l = BandaiFetchAll.sets
  BY SentLists
<1>2. Write(w, file, l) \in {l, file, Torn}
  BY DEF Write
<1>3. FilesOK(p, l, former) /\ FilesOK(p, Write(w, file, l), former)
  BY <1>1, <1>2 DEF PartOK, FilesOK, Readable
<1>4. CacheOK(p, l) /\ CacheOK(p, {})
  BY <1>1 DEF CacheOK, English, Bundled
<1>5. StoredList(l, former) = l /\ OfferedList(p, l) = l
  BY <1>1 DEF StoredList, OfferedList, Readable
<1>6. IsStored(p, l, former, l)
  BY <1>5 DEF IsStored
<1>7. IsStored(p, Write(w, file, l), former, {})
  BY DEF IsStored
<1>8. ASSUME w # "ok", still PROVE IsStored(p, Write(w, file, l), former, cached)
  <2>1. Write(w, file, l) \in {file, Torn}
    BY <1>8 DEF Write
  <2>2. CASE Write(w, file, l) = file
    BY <1>8, <2>2 DEF PartOK
  <2>3. CASE Write(w, file, l) = Torn
    BY <2>3, FilesAssumption DEF IsStored, StoredList, Readable
  <2> QED BY <2>1, <2>2, <2>3
<1>9. ASSUME p = "Bandai", ListIsPresent PROVE IsStored(p, l, former, cached)
  BY <1>1, <1>5, <1>9 DEF PartOK, CacheOK, Bundled, IsStored
<1> QED BY <1>3, <1>4, <1>6, <1>7, <1>8, <1>9 DEF PartOK

-----------------------------------------------------------------------------
\* The same of all parts of a folder and its cache.

AllOK(d, cache, parts, still) ==
    /\ IsFolder(d, parts) /\ cache = [p \in parts |-> cache[p]]
    /\ \A p \in parts : PartOK(p, d.sets[p], d.legacy[p], cache[p], still)

\* A change of one part leaves the others as they are.
LEMMA OnePartChanges ==
    ASSUME NEW d, NEW cache, NEW parts, NEW still, AllOK(d, cache, parts, still),
           NEW p \in parts, NEW e, NEW cards, NEW packs, NEW file, NEW cached,
           Becomes(d, e, parts, cards, [d.sets EXCEPT ![p] = file], packs),
           PartOK(p, file, d.legacy[p], cached, still)
    PROVE  AllOK(e, [cache EXCEPT ![p] = cached], parts, still)
<1> DEFINE new == [cache EXCEPT ![p] = cached]
<1>1. IsFolder(e, parts) /\ e.legacy = d.legacy /\ e.sets = [d.sets EXCEPT ![p] = file]
  BY DEF Becomes
<1>2. d.sets = [q \in parts |-> d.sets[q]] /\ cache = [q \in parts |-> cache[q]]
  BY DEF AllOK, IsFolder
<1>3. new = [q \in parts |-> new[q]] /\ new[p] = cached /\ \A q \in parts \ {p} : new[q] = cache[q]
  BY <1>2
<1> HIDE DEF new
<1>4. e.sets[p] = file /\ \A q \in parts \ {p} : e.sets[q] = d.sets[q]
  BY <1>1, <1>2
<1>5. ASSUME NEW q \in parts PROVE PartOK(q, e.sets[q], e.legacy[q], new[q], still)
  <2>1. CASE q = p
    BY <1>1, <1>3, <1>4, <2>1
  <2>2. CASE q # p
    BY <1>1, <1>3, <1>4, <2>2 DEF AllOK
  <2> QED BY <2>1, <2>2
<1> QED BY <1>1, <1>3, <1>5 DEF AllOK, new

\* What promoting does, exactly.
LEMMA PromotedExactly ==
    ASSUME NEW d, NEW parts, IsFolder(d, parts), NEW p \in parts, NEW w
    PROVE  Becomes(d, Promote(d, p, w), parts, d.cards,
                   [d.sets EXCEPT ![p] = Promoted(d.sets[p], d.legacy[p], w)], d.packs)
<1> DEFINE former == d.legacy[p]
           e == SaveSets(d, p, former, w)
<1>1. CASE d.sets[p] = Missing /\ Readable(former)
  <2>1. Promote(d, p, w) = e /\ Promoted(d.sets[p], former, w) = Write(w, d.sets[p], former)
    BY <1>1 DEF Promote, Promoted
  <2> HIDE DEF former
  <2>2. Becomes(d, e, parts, d.cards, [d.sets EXCEPT ![p] = Write(w, d.sets[p], former)], d.packs)
    BY SetsAreSaved
  <2> QED BY <2>1, <2>2 DEF former
<1>2. CASE ~(d.sets[p] = Missing /\ Readable(former))
  <2>1. Promote(d, p, w) = d /\ Promoted(d.sets[p], former, w) = d.sets[p]
    BY <1>2 DEF Promote, Promoted
  <2>2. [d.sets EXCEPT ![p] = d.sets[p]] = d.sets
    BY DEF IsFolder
  <2>3. Becomes(d, d, parts, d.cards, d.sets, d.packs)
    BY DEF Becomes
  <2> QED BY <2>1, <2>2, <2>3
<1> QED BY <1>1, <1>2

\* A state of the computation of what a dialog offers.
StateOK(s, parts, still) == IsState(s) /\ AllOK(s.d, s.cache, parts, still)

\* The same of the files and the cache of all parts.
LEMMA ReadingKeepsOK ==
    ASSUME NEW s, NEW parts, NEW still, StateOK(s, parts, still), NEW p \in parts, NEW w
    PROVE  StateOK(ReadList(s, p, w), parts, still)
<1> DEFINE d == s.d
           file == d.sets[p]
           former == d.legacy[p]
           new == Promoted(file, former, w)
           l == OfferedList(p, StoredList(file, former))
           read == IF Readable(l) THEN l ELSE {}
           e == Promote(d, p, w)
           cache == s.cache
<1>1. AllOK(d, cache, parts, still) /\ IsFolder(d, parts) /\ PartOK(p, file, former, cache[p], still)
  BY DEF StateOK, AllOK
<1>2. GetSets(d, p) = l
  BY DEF GetSets, LoadSets, OfferedList, StoredList
<1>3. StateIs(ReadList(s, p, w), e, Filled(cache, p, l))
  BY <1>2, ReadingAList DEF StateOK
<1>4. Filled(cache, p, l) = [cache EXCEPT ![p] = read]
  BY DEF Filled
<1>5. Becomes(d, e, parts, d.cards, [d.sets EXCEPT ![p] = new], d.packs)
  BY <1>1, PromotedExactly
<1>6. PartOK(p, new, former, read, still)
  BY <1>1, ReadingIsOK
<1> HIDE DEF d, e, cache, new, read, l
<1>7. AllOK(e, [cache EXCEPT ![p] = read], parts, still)
  BY <1>1, <1>5, <1>6, OnePartChanges
<1> QED BY <1>3, <1>4, <1>7 DEF StateOK, StateIs

\* Saving a list that was sent keeps them in step.
LEMMA SavingKeepsOK ==
    ASSUME NEW s, NEW parts, NEW still, StateOK(s, parts, still),
           NEW p \in parts, p \in DOMAIN Replies, NEW l, Sent(p, l), NEW w
    PROVE  StateOK(SaveList(s, p, l, w), parts, still)
<1> DEFINE d == s.d
           file == d.sets[p]
           former == d.legacy[p]
           new == Write(w, file, l)
           got == IF w = "ok" THEN l ELSE {}
           read == IF Readable(got) THEN got ELSE {}
           e == SaveSets(d, p, l, w)
           cache == s.cache
<1>1. AllOK(d, cache, parts, still) /\ IsFolder(d, parts) /\ PartOK(p, file, former, cache[p], still)
  BY DEF StateOK, AllOK
<1>2. StateIs(SaveList(s, p, l, w), e, Filled(cache, p, got))
  BY SavingAList DEF StateOK
<1>3. Filled(cache, p, got) = [cache EXCEPT ![p] = read]
  BY DEF Filled
<1>4. Becomes(d, e, parts, d.cards, [d.sets EXCEPT ![p] = new], d.packs)
  BY <1>1, SetsAreSaved
<1>5. PartOK(p, new, former, read, still)
  <2>1. PartOK(p, l, former, l, still) /\ PartOK(p, new, former, {}, still)
    <3> DEFINE cached == cache[p]
    <3>1. PartOK(p, file, former, cached, still)
      BY <1>1
    <3> HIDE DEF file, former, cached
    <3> QED BY <3>1, SavingIsOK
  <2>2. (w = "ok" => new = l) /\ read \in {{}, got}
    BY DEF Write
  <2>3. read = {} \/ (w = "ok" /\ read = l)
    BY <2>2
  <2> QED BY <2>1, <2>2, <2>3
<1> HIDE DEF d, e, cache, new, read, got
<1>6. AllOK(e, [cache EXCEPT ![p] = read], parts, still)
  BY <1>1, <1>4, <1>5, OnePartChanges
<1> QED BY <1>2, <1>3, <1>6 DEF StateOK, StateIs

\* So does an update; if the program ships the list, even without filling the cache.
LEMMA UpdatingKeepsOK ==
    ASSUME NEW s, NEW parts, NEW still, StateOK(s, parts, still),
           NEW p \in parts, p \in DOMAIN Replies, NEW a \in Upstream[p], NEW wSets, NEW wCatalog
    PROVE  LET u == UpdateRegion(s, p, a.all, wSets, wCatalog)
           IN  /\ StateOK(u, parts, still)
               /\ p = "Bandai" /\ (still => ListIsPresent) => AllOK(u.d, s.cache, parts, still)
<1> DEFINE d == s.d
           cache == s.cache
           l == a.all.sets
           packs == a.all.packs
           file == d.sets[p]
           former == d.legacy[p]
           cached == cache[p]
           new == Write(wSets, file, l)
           listed == SaveSets(d, p, l, wSets)
           stored == SaveCatalog(listed, p, packs, wCatalog)
           full == [cache EXCEPT ![p] = l]
           u == UpdateRegion(s, p, a.all, wSets, wCatalog)
<1>1. \/ u = s
      \/ a.all.ok /\ wSets # "ok" /\ u = [s EXCEPT !.d = listed]
      \/ a.all.ok /\ wSets = "ok" /\ u = [d |-> stored, cache |-> full]
  BY DEF UpdateRegion
<1>2. AllOK(d, cache, parts, still) /\ IsFolder(d, parts) /\ PartOK(p, file, former, cached, still)
  BY DEF StateOK, AllOK
<1>3. a.all.ok => Sent(p, l)
  BY DEF Sent
<1>4. [cache EXCEPT ![p] = cached] = cache
  BY <1>2 DEF AllOK
<1> HIDE DEF packs, l
<1>5. Becomes(d, listed, parts, d.cards, [d.sets EXCEPT ![p] = new], d.packs)
  BY <1>2, SetsAreSaved
<1> HIDE DEF listed, d, cache
<1>6. wSets = "ok" => new = l
  BY DEF Write
<1> HIDE DEF new
<1>7. IsFolder(listed, parts) /\ listed.sets = [d.sets EXCEPT ![p] = new] /\ listed.legacy = d.legacy
  BY <1>5 DEF Becomes
<1>8. Becomes(listed, stored, parts, listed.cards, listed.sets,
              [listed.packs EXCEPT ![p] = Write(wCatalog, listed.packs[p], packs)])
  BY <1>7, CatalogIsSaved
<1> HIDE DEF stored
<1>9. \E cards, kept : Becomes(d, stored, parts, cards, [d.sets EXCEPT ![p] = new], kept)
  BY <1>7, <1>8 DEF Becomes
<1>10. ASSUME a.all.ok
       PROVE  /\ PartOK(p, l, former, l, still)
              /\ wSets # "ok" => PartOK(p, new, former, cached, still)
              /\ p = "Bandai" /\ ListIsPresent => PartOK(p, l, former, cached, still)
              /\ ~still => PartOK(p, l, former, cached, still)
  <2> HIDE DEF file, former, cached
  <2> QED BY <1>2, <1>3, <1>10, SavingIsOK DEF new
<1>11. ASSUME u = s
       PROVE  StateOK(u, parts, still) /\ AllOK(u.d, cache, parts, still)
  BY <1>2, <1>11 DEF d, cache
<1>12. ASSUME a.all.ok, wSets # "ok", u = [s EXCEPT !.d = listed]
       PROVE  StateOK(u, parts, still) /\ AllOK(u.d, cache, parts, still)
  <2>1. AllOK(listed, cache, parts, still)
    <3>1. AllOK(listed, [cache EXCEPT ![p] = cached], parts, still)
      <4> HIDE DEF cached, u
      <4>1. PartOK(p, new, d.legacy[p], cached, still)
        BY <1>10, <1>12
      <4> QED BY <1>2, <1>5, <4>1, OnePartChanges
    <3> QED BY <1>4, <3>1
  <2>2. StateIs(u, listed, cache)
    BY <1>12, FilesOfAState DEF StateOK, cache
  <2> HIDE DEF u
  <2> QED BY <2>1, <2>2 DEF StateOK, StateIs
<1>13. ASSUME a.all.ok, wSets = "ok", u = [d |-> stored, cache |-> full]
       PROVE  /\ StateOK(u, parts, still)
              /\ p = "Bandai" /\ (still => ListIsPresent) => AllOK(u.d, cache, parts, still)
  <2>1. PICK cards, kept : Becomes(d, stored, parts, cards, [d.sets EXCEPT ![p] = l], kept)
    BY <1>6, <1>9, <1>13
  <2>2. AllOK(stored, full, parts, still)
    BY <1>2, <1>10, <1>13, <2>1, OnePartChanges
  <2> HIDE DEF u, full
  <2>3. IsState(u) /\ u.d = stored /\ u.cache = full
    BY <1>13 DEF IsState
  <2>4. ASSUME p = "Bandai", still => ListIsPresent PROVE AllOK(stored, cache, parts, still)
    <3> HIDE DEF cached
    <3>1. PartOK(p, l, d.legacy[p], cached, still)
      BY <1>10, <1>13, <2>4
    <3>2. AllOK(stored, [cache EXCEPT ![p] = cached], parts, still)
      BY <1>2, <2>1, <3>1, OnePartChanges
    <3> QED BY <1>4, <3>2
  <2> QED BY <2>2, <2>3, <2>4 DEF StateOK
<1>14. /\ StateOK(u, parts, still)
       /\ p = "Bandai" /\ (still => ListIsPresent) => AllOK(u.d, cache, parts, still)
  BY <1>1, <1>11, <1>12, <1>13
<1> QED BY <1>14 DEF cache

\* Records and catalogues are nobody's concern here.
LEMMA OthersMayChange ==
    ASSUME NEW d, NEW cache, NEW parts, NEW still, AllOK(d, cache, parts, still),
           NEW x
    PROVE  AllOK([d EXCEPT !.cards = x], cache, parts, still)
<1> DEFINE e == [d EXCEPT !.cards = x]
<1>1. Becomes(d, e, parts, x, d.sets, d.packs)
  BY RecordsAreWritten DEF AllOK
<1> HIDE DEF e
<1>2. AllOK(e, cache, parts, still)
  BY <1>1 DEF Becomes, AllOK
<1> QED BY <1>2 DEF e

\* So does opening a dialog.
LEMMA OfferingKeepsOK ==
    ASSUME game \in Games, Parts = PartsIn(game), Parts \subseteq DOMAIN Replies,
           NEW still, AllOK(Here, view.cache, Parts, still), NEW answers \in Answers, NEW w
    PROVE  StateOK(Offered(answers, w), Parts, still)
<1> DEFINE Load(s, p) == LoadOrRefresh(s, p, answers[p].list, w[p])
           Ask(s, p) == SetsForDialog(s, p, w[p])
           start == [d |-> Here, cache |-> view.cache]
           p1 == PartsOf(game)[1]
           p2 == PartsOf(game)[2]
           Both(Op(_, _), s) == IF Len(PartsOf(game)) = 1 THEN Op(s, p1) ELSE Op(Op(s, p1), p2)
           ensured == IF view.attempted THEN start ELSE Both(Load, start)
<1>1. p1 \in Parts /\ (Len(PartsOf(game)) = 1 \/ p2 \in Parts)
  BY PartsOfGames DEF Parts, PartsIn
<1>2. StateOK(start, Parts, still)
  BY DEF StateOK, IsState
<1>3. Offered(answers, w) = Both(Ask, ensured)
  BY DEF Offered, ForParts
<1> HIDE DEF p1, p2, start
<1>4. ASSUME NEW s, NEW p \in Parts, StateOK(s, Parts, still) PROVE StateOK(Load(s, p), Parts, still)
  <2> DEFINE f == answers[p].list
             l == f.sets
             read == ReadList(s, p, w[p])
  <2>1. f.ok => Sent(p, l)
    <3> DEFINE a == answers[p]
    <3>1. a \in Upstream[p]
      BY DEF Answers
    <3> HIDE DEF a
    <3>2. a.list.ok => Sent(p, a.list.sets)
      BY <3>1 DEF Sent
    <3> QED BY <3>2 DEF a
  <2>2. Load(s, p) = read \/ (f.ok /\ Load(s, p) = SaveList(read, p, l, w[p]))
    BY LoadingIsOneOf
  <2> HIDE DEF Load, f, l
  <2>3. StateOK(read, Parts, still)
    BY <1>4, ReadingKeepsOK
  <2> HIDE DEF read
  <2>4. f.ok => StateOK(SaveList(read, p, l, w[p]), Parts, still)
    BY <2>1, <2>3, SavingKeepsOK
  <2> QED BY <2>2, <2>3, <2>4
<1>5. ASSUME NEW s, NEW p \in Parts, StateOK(s, Parts, still) PROVE StateOK(Ask(s, p), Parts, still)
  <2>1. StateOK(ReadList(s, p, w[p]), Parts, still)
    BY <1>5, ReadingKeepsOK
  <2> QED BY <1>5, <2>1, AskingIsOneOf
<1> HIDE DEF Load, Ask
<1>6. StateOK(ensured, Parts, still)
  BY <1>1, <1>2, <1>4
<1> HIDE DEF ensured
<1> QED BY <1>1, <1>3, <1>5, <1>6

-----------------------------------------------------------------------------
\* The invariant of the lists.

Still == moves = 0 /\ (game = "Bandai" => ListIsPresent)

ListsInv ==
    /\ DiskInv
    /\ moves \in Nat
    /\ view = [attempted |-> view.attempted, cache |-> view.cache]
    /\ \A f \in Folders : \A p \in Parts : FilesOK(p, disk[f].sets[p], disk[f].legacy[p])
    /\ AllOK(Here, view.cache, Parts, Still)

\* The invariant is stronger than the two properties.
LEMMA ListsInvShows ==
    ASSUME ListsInv
    PROVE  /\ (game = "Bandai" => ListIsPresent) => PickerIsWhatIsStored
           /\ IdsAreLatin => SetPickerIsEnglish
<1>1. \A p \in Parts : PartOK(p, Here.sets[p], Here.legacy[p], view.cache[p], Still)
  BY DEF ListsInv, AllOK
<1>2. ASSUME Still, NEW p \in Parts, view.cache[p] # {}, Readable(LoadSets(Here, p))
      PROVE  view.cache[p] = GetSets(Here, p)
  <2>1. IsStored(p, Here.sets[p], Here.legacy[p], view.cache[p])
    BY <1>1, <1>2 DEF PartOK
  <2> QED BY <1>2, <2>1 DEF IsStored, StoredList, OfferedList, LoadSets, GetSets
<1>3. ASSUME IdsAreLatin, game = "Pokemon" PROVE \A s \in view.cache["Asia"] : s.name \notin CjkNames
  <2>1. "Asia" \in Parts
    BY <1>3, GameIsOne, PartsOfGames DEF ListsInv
  <2>2. CacheOK("Asia", view.cache["Asia"])
    BY <1>1, <2>1 DEF PartOK
  <2> QED BY <1>3, <2>2 DEF CacheOK, English
<1> QED BY <1>2, <1>3 DEF PickerIsWhatIsStored, SetPickerIsEnglish, Still

\* The parts of the game in use have an upstream.
LEMMA ListsOfTheGame ==
    ASSUME ListsInv
    PROVE  game \in Games /\ Parts = PartsIn(game) /\ Parts \subseteq DOMAIN Replies
  BY GameIsOne, TabsAssumption DEF ListsInv, DiskInv, Parts

\* A step that writes the files of the folder in use.
LEMMA WriteKeepsLists ==
    ASSUME ListsInv, NEW d, Writes(d), AllOK(d, view'.cache, Parts, Still),
           view' = [attempted |-> view'.attempted, cache |-> view'.cache],
           UNCHANGED <<game, folder, saved, moves>>, catalogOf' \in {catalogOf, folder}
    PROVE  ListsInv'
<1>1. IsFolder(d, Parts)
  BY DEF AllOK
<1>2. /\ DiskInv' /\ Here' = d
      /\ \A f \in Folders : disk'[f] = IF f = folder THEN d ELSE disk[f]
  BY <1>1, DiskIsWritten DEF ListsInv
<1>3. Parts' = Parts /\ Still' = Still
  BY DEF Parts, Still
<1>4. \A f \in Folders : \A p \in Parts : FilesOK(p, disk'[f].sets[p], disk'[f].legacy[p])
  BY <1>2 DEF ListsInv, AllOK, PartOK
<1> QED BY <1>2, <1>3, <1>4 DEF ListsInv

\* A step that writes nothing, and caches nothing.
LEMMA OtherStepsKeepLists ==
    ASSUME ListsInv, UNCHANGED <<game, disk, view>>, NEW f \in Folders, folder' = f,
           saved' \in Folders, catalogOf' \in Folders, moves' \in Nat,
           (f = folder /\ moves' = moves) \/ moves' # 0
    PROVE  ListsInv'
<1>1. DiskInv' /\ Here' = disk[f] /\ Parts' = Parts
  BY DEF ListsInv, DiskInv, Here, Parts
<1>2. CASE f = folder /\ moves' = moves
  <2>1. Still' = Still /\ disk[f] = Here
    BY <1>2 DEF Still, Here
  <2> QED BY <1>1, <2>1 DEF ListsInv
<1>3. CASE moves' # 0
  <2>1. Still' = FALSE
    BY <1>3 DEF Still
  <2>2. AllOK(disk[f], view.cache, Parts, FALSE)
    BY DEF ListsInv, DiskInv, AllOK, PartOK
  <2> QED BY <1>1, <2>1, <2>2 DEF ListsInv
<1> QED BY <1>2, <1>3

\* A dialog that is cancelled, or saves any records, keeps the lists.
LEMMA DialogKeepsLists ==
    ASSUME ListsInv, NEW answers \in Answers, NEW w, NEW s, s = Offered(answers, w), DialogOpens(s, w)
    PROVE  /\ Cancels(s) => ListsInv'
           /\ \A cards, end : Save(s.d, cards, end) => ListsInv'
<1> DEFINE d == s.d
           c == s.cache
<1>1. StateOK(s, Parts, Still)
  <2>1. AllOK(Here, view.cache, Parts, Still)
    BY DEF ListsInv
  <2> QED BY <2>1, ListsOfTheGame, OfferingKeepsOK
<1>2. AllOK(d, c, Parts, Still)
  BY <1>1 DEF StateOK
<1>3. /\ view' = [attempted |-> TRUE, cache |-> c]
      /\ UNCHANGED <<game, folder, saved, moves, catalogOf>>
  BY DEF DialogOpens
<1> HIDE DEF d, c
<1>4. view'.cache = c /\ view' = [attempted |-> view'.attempted, cache |-> view'.cache]
  BY <1>3
<1>5. ASSUME Writes(d) PROVE ListsInv'
  BY <1>2, <1>3, <1>4, <1>5, WriteKeepsLists
<1>6. ASSUME NEW cards, NEW end, Save(d, cards, end) PROVE ListsInv'
  <2> DEFINE x == Write(end, d.cards, cards)
             e == [d EXCEPT !.cards = x]
  <2>1. Writes(e)
    BY <1>6 DEF Save
  <2> HIDE DEF x
  <2>2. AllOK(e, c, Parts, Still)
    BY <1>2, OthersMayChange
  <2> HIDE DEF e
  <2> QED BY <1>3, <1>4, <2>1, <2>2, WriteKeepsLists
<1> QED BY <1>5, <1>6 DEF Cancels, d

\* The lists, when a record is added,
LEMMA AddKeepsLists == ListsInv /\ OnAddCard => ListsInv'
<1> SUFFICES ASSUME ListsInv, OnAddCard PROVE ListsInv'
  OBVIOUS
<1>1. PICK w, answers :
        /\ answers \in Answers /\ DialogOpens(Offered(answers, w), w)
        /\ Cancels(Offered(answers, w)) \/ Add(Offered(answers, w), w["cards"])
  BY DEF OnAddCard
<1> DEFINE s == Offered(answers, w)
<1>2. answers \in Answers /\ DialogOpens(s, w) /\ (Cancels(s) \/ Add(s, w["cards"]))
  BY <1>1
<1>3. Add(s, w["cards"]) => \E cards : Save(s.d, cards, w["cards"])
  BY DEF Add
<1>4. s = Offered(answers, w)
  OBVIOUS
<1> HIDE DEF s
<1> QED BY <1>2, <1>3, <1>4, DialogKeepsLists

\* when one is edited,
LEMMA EditKeepsLists == ListsInv /\ OnEditCard => ListsInv'
<1> SUFFICES ASSUME ListsInv, OnEditCard PROVE ListsInv'
  OBVIOUS
<1>1. PICK w, answers :
        /\ answers \in Answers /\ DialogOpens(Offered(answers, w), w)
        /\ Cancels(Offered(answers, w)) \/ Edit(Offered(answers, w), w["cards"])
  BY DEF OnEditCard
<1> DEFINE s == Offered(answers, w)
<1>2. answers \in Answers /\ DialogOpens(s, w) /\ (Cancels(s) \/ Edit(s, w["cards"]))
  BY <1>1
<1>3. Edit(s, w["cards"]) => \E cards : Save(s.d, cards, w["cards"])
  BY DEF Edit
<1>4. s = Offered(answers, w)
  OBVIOUS
<1> HIDE DEF s
<1> QED BY <1>2, <1>3, <1>4, DialogKeepsLists

\* and when one is deleted.
LEMMA DeleteKeepsLists == ListsInv /\ OnDeleteCard => ListsInv'
<1> SUFFICES ASSUME ListsInv, OnDeleteCard PROVE ListsInv'
  OBVIOUS
<1>1. UNCHANGED <<game, folder, saved, view, moves, catalogOf>>
  BY DEF OnDeleteCard
<1>2. (\E x : Writes([Here EXCEPT !.cards = x])) \/ UNCHANGED disk
  BY DEF OnDeleteCard
<1>3. ASSUME NEW x, Writes([Here EXCEPT !.cards = x]) PROVE ListsInv'
  <2> DEFINE d == [Here EXCEPT !.cards = x]
             c == view.cache
  <2>1. AllOK(Here, c, Parts, Still)
    BY DEF ListsInv
  <2> HIDE DEF c
  <2>2. AllOK(d, c, Parts, Still)
    BY <2>1, OthersMayChange
  <2> HIDE DEF d
  <2>3. AllOK(d, view'.cache, Parts, Still)
    BY <1>1, <2>2 DEF c
  <2> QED BY <1>1, <1>3, <2>3, WriteKeepsLists DEF ListsInv, d
<1>4. ASSUME UNCHANGED disk PROVE ListsInv'
  BY <1>1, <1>4, OtherStepsKeepLists DEF ListsInv, DiskInv
<1> QED BY <1>2, <1>3, <1>4

\* Updating a part of the folder in use.
LEMMA UpdateKeepsLists ==
    ASSUME ListsInv, NEW p \in Parts, NEW a \in Upstream[p], NEW wSets, NEW wCatalog
    PROVE  LET u == UpdateRegion([d |-> Here, cache |-> view.cache], p, a.all, wSets, wCatalog)
           IN  /\ StateOK(u, Parts, Still)
               /\ game = "Bandai" => AllOK(u.d, view.cache, Parts, Still)
<1> DEFINE s == [d |-> Here, cache |-> view.cache]
           u == UpdateRegion(s, p, a.all, wSets, wCatalog)
<1>1. IsState(s) /\ s.d = Here /\ s.cache = view.cache
  BY DEF IsState
<1>2. AllOK(Here, view.cache, Parts, Still)
  BY DEF ListsInv
<1> HIDE DEF s
<1>3. StateOK(s, Parts, Still) /\ p \in DOMAIN Replies
  BY <1>1, <1>2, ListsOfTheGame DEF StateOK
<1>4. /\ StateOK(u, Parts, Still)
      /\ p = "Bandai" /\ (Still => ListIsPresent) => AllOK(u.d, s.cache, Parts, Still)
  BY <1>3, UpdatingKeepsOK
<1>5. game = "Bandai" => p = "Bandai" /\ (Still => ListIsPresent)
  BY ListsOfTheGame, PartsOfGames DEF Still
<1> HIDE DEF u
<1>6. StateOK(u, Parts, Still) /\ (game = "Bandai" => AllOK(u.d, view.cache, Parts, Still))
  BY <1>1, <1>4, <1>5
<1> QED BY <1>6 DEF u, s

\* The state of an update is written and cached, with other records perhaps.
LEMMA UpdatedListsAreKept ==
    ASSUME ListsInv, NEW s, StateOK(s, Parts, Still), NEW d,
           d = s.d \/ \E x : d = [s.d EXCEPT !.cards = x],
           Writes(d), Cached(s), UNCHANGED <<game, folder, saved, moves>>,
           catalogOf' \in {catalogOf, folder}
    PROVE  ListsInv'
<1> DEFINE c == s.cache
           e == s.d
<1>1. AllOK(e, c, Parts, Still)
  BY DEF StateOK
<1>2. view = [attempted |-> view.attempted, cache |-> view.cache]
  BY DEF ListsInv
<1>3. view' = [view EXCEPT !.cache = c]
  BY DEF Cached
<1>4. d = e \/ \E x : d = [e EXCEPT !.cards = x]
  OBVIOUS
<1> HIDE DEF c, e
<1>5. view'.cache = c /\ view' = [attempted |-> view'.attempted, cache |-> view'.cache]
  BY <1>2, <1>3
<1>6. AllOK(d, c, Parts, Still)
  BY <1>1, <1>4, OthersMayChange
<1>7. AllOK(d, view'.cache, Parts, Still)
  BY <1>5, <1>6
<1> QED BY <1>5, <1>7, WriteKeepsLists

\* The lists, when both regions are updated,
LEMMA PokemonKeepsLists ==
    ASSUME ListsInv, OnUpdatePokemonSets, UNCHANGED <<game, folder, saved, moves>> PROVE ListsInv'
<1>1. PICK answers, w :
        LET both == UpdateRegions(answers, w)
            after == FollowLists(both, w["cards"])
        IN  /\ answers \in Answers /\ Writes(after.d) /\ Cached(both)
            /\ catalogOf' = folder
  BY DEF OnUpdatePokemonSets, TabReloads
<1> DEFINE start == [d |-> Here, cache |-> view.cache]
           aWest == answers["West"]
           aAsia == answers["Asia"]
           west == UpdateRegion(start, "West", aWest.all, w["West"], w["WestCatalog"])
           both == UpdateRegion(west, "Asia", aAsia.all, w["Asia"], w["AsiaCatalog"])
           d == FollowLists(both, w["cards"]).d
<1>2. both = UpdateRegions(answers, w)
  BY DEF UpdateRegions
<1>3. answers \in Answers /\ Writes(d) /\ Cached(both) /\ catalogOf' = folder
  BY <1>1, <1>2
<1>4. /\ "West" \in Parts /\ "Asia" \in Parts
      /\ "West" \in DOMAIN Replies /\ "Asia" \in DOMAIN Replies
  BY ListsOfTheGame, PartsOfGames DEF OnUpdatePokemonSets
<1>5. aWest \in Upstream["West"] /\ aAsia \in Upstream["Asia"]
  BY <1>3, <1>4 DEF Answers
<1> HIDE DEF aWest, aAsia
<1>6. StateOK(west, Parts, Still)
  BY <1>4, <1>5, UpdateKeepsLists
<1> HIDE DEF west
<1>7. StateOK(both, Parts, Still)
  BY <1>4, <1>5, <1>6, UpdatingKeepsOK
<1>8. d = both.d \/ \E x : d = [both.d EXCEPT !.cards = x]
  BY DEF FollowLists
<1> HIDE DEF both, d
<1> QED BY <1>3, <1>7, <1>8, UpdatedListsAreKept

\* and when Magic's sets are.
LEMMA MagicKeepsLists ==
    ASSUME ListsInv, OnUpdateMagicSets, UNCHANGED <<game, folder, saved, moves>> PROVE ListsInv'
<1> DEFINE p == "Magic"
<1>1. PICK f, w : /\ f \in {a.list : a \in Upstream[p]} /\ f.ok
                  /\ Writes(SaveSets(Here, p, f.sets, w["sets"]))
                  /\ view' = IF w["sets"] = "ok" THEN [view EXCEPT !.cache[p] = f.sets] ELSE view
                  /\ UNCHANGED catalogOf
  BY DEF OnUpdateMagicSets
<1> DEFINE l == f.sets
           c == view.cache
           end == w["sets"]
           d == SaveSets(Here, p, l, end)
           file == Here.sets[p]
           former == Here.legacy[p]
           cached == c[p]
           new == Write(end, file, l)
           full == [c EXCEPT ![p] = l]
<1>2. p \in Parts /\ p \in DOMAIN Replies
  BY ListsOfTheGame, PartsOfGames DEF OnUpdateMagicSets
<1>3. /\ AllOK(Here, c, Parts, Still) /\ IsFolder(Here, Parts) /\ c = [q \in Parts |-> c[q]]
      /\ PartOK(p, file, former, cached, Still)
      /\ view = [attempted |-> view.attempted, cache |-> c]
  BY <1>2 DEF ListsInv, AllOK
<1>4. Sent(p, l)
  BY <1>1 DEF Sent
<1>5. Writes(d) /\ UNCHANGED catalogOf /\ view' = IF end = "ok" THEN [view EXCEPT !.cache = full] ELSE view
  BY <1>1
<1>6. end = "ok" => new = l
  BY DEF Write
<1> HIDE DEF p, l, end, file, former, cached
<1>7. /\ PartOK(p, l, former, l, Still)
      /\ end # "ok" => PartOK(p, new, former, cached, Still)
  BY <1>2, <1>3, <1>4, SavingIsOK
<1>8. Becomes(Here, d, Parts, Here.cards, [Here.sets EXCEPT ![p] = new], Here.packs)
  BY <1>2, <1>3, SetsAreSaved DEF file
<1> HIDE DEF d, new
<1>9. ASSUME end = "ok" PROVE AllOK(d, full, Parts, Still)
  <2>1. PartOK(p, new, Here.legacy[p], l, Still)
    BY <1>6, <1>7, <1>9 DEF former
  <2> QED BY <1>2, <1>3, <1>8, <2>1, OnePartChanges
<1>10. ASSUME end # "ok" PROVE AllOK(d, c, Parts, Still)
  <2>1. PartOK(p, new, Here.legacy[p], cached, Still)
    BY <1>7, <1>10 DEF former
  <2>2. AllOK(d, [c EXCEPT ![p] = cached], Parts, Still)
    BY <1>2, <1>3, <1>8, <2>1, OnePartChanges
  <2>3. [c EXCEPT ![p] = cached] = c
    BY <1>3 DEF cached
  <2> QED BY <2>2, <2>3
<1> HIDE DEF full, c
<1>11. /\ AllOK(d, view'.cache, Parts, Still)
       /\ view' = [attempted |-> view'.attempted, cache |-> view'.cache]
  BY <1>3, <1>5, <1>9, <1>10
<1> QED BY <1>5, <1>11, WriteKeepsLists

\* The other games: all is cached, or Bandai's files were not all written.
LEMMA PartKeepsLists ==
    ASSUME ListsInv, NEW p \in Parts, NEW f, f \in {a.all : a \in Upstream[p]},
           NEW wSets, NEW wCatalog, NEW s,
           s = UpdateRegion([d |-> Here, cache |-> view.cache], p, f, wSets, wCatalog),
           Writes(s.d), Cached(s) \/ (game = "Bandai" /\ UNCHANGED view),
           UNCHANGED <<game, folder, saved, moves>>, catalogOf' \in {catalogOf, folder}
    PROVE  ListsInv'
<1>1. PICK a \in Upstream[p] : f = a.all
  OBVIOUS
<1>2. StateOK(s, Parts, Still) /\ (game = "Bandai" => AllOK(s.d, view.cache, Parts, Still))
  BY <1>1, UpdateKeepsLists
<1> DEFINE d == s.d
<1>3. Writes(d) /\ d = s.d /\ (game = "Bandai" => AllOK(d, view.cache, Parts, Still))
  BY <1>2
<1> HIDE DEF d
<1>4. CASE Cached(s)
  BY <1>2, <1>3, <1>4, UpdatedListsAreKept
<1>5. CASE game = "Bandai" /\ UNCHANGED view
  BY <1>3, <1>5, WriteKeepsLists DEF ListsInv
<1> QED BY <1>4, <1>5

\* The lists, for every update of sets.
LEMMA SetsKeepLists == ListsInv /\ OnUpdateSets => ListsInv'
<1> SUFFICES ASSUME ListsInv, OnUpdateSets PROVE ListsInv'
  OBVIOUS
<1>1. UNCHANGED <<game, folder, saved, moves>>
  BY DEF OnUpdateSets
<1> DEFINE start == [d |-> Here, cache |-> view.cache]
<1>2. CASE OnUpdateMagicSets
  BY <1>1, <1>2, MagicKeepsLists
<1>3. CASE OnUpdatePokemonSets
  BY <1>1, <1>3, PokemonKeepsLists
<1>4. CASE OnUpdateYuGiOhSets
  <2>1. "YuGiOh" \in Parts
    BY <1>4, ListsOfTheGame, PartsOfGames DEF OnUpdateYuGiOhSets
  <2>2. PICK f, w : LET s == UpdateRegion(start, "YuGiOh", f, w["sets"], w["catalog"])
                    IN  /\ f \in {a.all : a \in Upstream["YuGiOh"]}
                        /\ Writes(s.d) /\ Cached(s) /\ catalogOf' \in {catalogOf, folder}
    BY <1>4 DEF OnUpdateYuGiOhSets, TabReloads
  <2> QED BY <1>1, <2>1, <2>2, PartKeepsLists
<1>5. CASE OnUpdateDigiSets
  <2>1. "Digi" \in Parts
    BY <1>5, ListsOfTheGame, PartsOfGames DEF OnUpdateDigiSets
  <2>2. PICK f, w : LET s == UpdateRegion(start, "Digi", f, w["sets"], w["catalog"])
                    IN  /\ f \in {a.all : a \in Upstream["Digi"]}
                        /\ Writes(s.d) /\ Cached(s) /\ catalogOf' \in {catalogOf, folder}
    BY <1>5 DEF OnUpdateDigiSets, TabReloads
  <2> QED BY <1>1, <2>1, <2>2, PartKeepsLists
<1>6. CASE OnUpdateBandaiSets \/ SelectTab
  <2>1. "Bandai" \in Parts /\ game = "Bandai" /\ DownloadSetsAndCatalog
    BY <1>6, ListsOfTheGame, PartsOfGames DEF OnUpdateBandaiSets, SelectTab
  <2>2. PICK f, w : LET s == UpdateRegion(start, "Bandai", f, w["sets"], w["catalog"])
                    IN  /\ f \in {a.all : a \in Upstream["Bandai"]}
                        /\ Writes(s.d) /\ (Cached(s) \/ UNCHANGED view)
                        /\ catalogOf' \in {catalogOf, folder}
    BY <2>1 DEF DownloadSetsAndCatalog, TabReloads
  <2> QED BY <1>1, <2>1, <2>2, PartKeepsLists
<1> QED BY <1>2, <1>3, <1>4, <1>5, <1>6 DEF OnUpdateSets

\* The lists, at first.
LEMMA InitHasLists == Init => ListsInv
<1> SUFFICES ASSUME Init PROVE ListsInv
  OBVIOUS
<1>1. PICK d \in Contents[game] : disk = [f \in Folders |-> d]
  BY DEF Init
<1>2. DiskInv /\ Here = d /\ (\A f \in Folders : disk[f] = d)
  BY <1>1, InitHasInv DEF Inv, Init, Here, Folders
<1>3. IsFolder(d, Parts)
  BY <1>2 DEF DiskInv
<1>4. ASSUME NEW p \in Parts PROVE FilesOK(p, d.sets[p], d.legacy[p])
  <2>1. p = "Asia" => game = "Pokemon"
    BY <1>2, GameIsOne, PartsOfGames DEF Games
  <2>2. p = "Bandai" => game = "Bandai"
    BY <1>2, GameIsOne, PartsOfGames DEF Games
  <2>3. game \in DOMAIN Contents /\ d \in Contents[game]
    BY <1>1 DEF Init
  <2>4. ASSUME p = "Asia", IdsAreLatin
        PROVE  (Readable(d.sets[p]) => Latin(d.sets[p])) /\ (Readable(d.legacy[p]) => Latin(d.legacy[p]))
    BY <2>1, <2>3, <2>4 DEF IdsAreLatin
  <2>5. ASSUME p = "Bandai", ListIsPresent, NEW l \in {d.sets[p], d.legacy[p]}, Readable(l)
        PROVE  l = BandaiFetchAll.sets
    BY <2>2, <2>3, <2>5 DEF ListIsPresent
  <2> QED BY <2>4, <2>5 DEF FilesOK
<1>5. /\ view = [attempted |-> view.attempted, cache |-> view.cache]
      /\ view.cache = [p \in Parts |-> {}]
  BY DEF Init, NoCaches
<1>6. \A p \in Parts : CacheOK(p, {}) /\ IsStored(p, d.sets[p], d.legacy[p], {})
  BY DEF CacheOK, English, Bundled, IsStored
<1>7. AllOK(d, view.cache, Parts, Still)
  BY <1>3, <1>4, <1>5, <1>6 DEF AllOK, PartOK
<1> QED BY <1>2, <1>4, <1>5, <1>7 DEF ListsInv, Init

\* The lists, for every step.
LEMMA NextKeepsLists == ListsInv /\ [Next]_vars => ListsInv'
<1> SUFFICES ASSUME ListsInv, [Next]_vars PROVE ListsInv'
  OBVIOUS
<1>1. CASE OnAddCard \/ OnEditCard \/ OnDeleteCard
  BY <1>1, AddKeepsLists, EditKeepsLists, DeleteKeepsLists
<1>2. CASE OnUpdateSets
  BY <1>2, SetsKeepLists
<1>3. folder \in Folders /\ saved \in Folders /\ catalogOf \in Folders /\ moves \in Nat
  BY DEF ListsInv, DiskInv
<1>4. CASE InTab \/ Remount \/ UNCHANGED vars
  BY <1>3, <1>4, OtherStepsKeepLists DEF InTab, Remount, vars
<1>5. CASE OnChooseRegion \/ OnChooseLanguage \/ OpenTile \/ Back \/ TypeDeck \/ Analyze \/ Clear
  BY <1>4, <1>5 DEF OnChooseRegion, OnChooseLanguage, OpenTile, Back, TypeDeck, Analyze, Clear
<1>6. CASE MoveFolder \/ SettingsFail
  <2>1. PICK f \in Folders : folder' = f /\ moves' = moves + 1 /\ saved' \in {saved, f}
    BY <1>6 DEF MoveFolder, SettingsFail, MovesTo
  <2>2. moves' \in Nat /\ moves' # 0
    BY <1>3, <2>1
  <2>3. UNCHANGED <<game, disk, view, catalogOf>>
    BY <1>6 DEF MoveFolder, SettingsFail
  <2> QED BY <1>3, <2>1, <2>2, <2>3, OtherStepsKeepLists
<1>7. CASE Restart
  <2> DEFINE d == disk[saved]
             c == [p \in Parts |-> {}]
  <2>1. /\ folder' = saved /\ view' = [attempted |-> FALSE, cache |-> c] /\ catalogOf' = saved
        /\ UNCHANGED <<game, disk, saved, moves>>
    BY <1>7 DEF Restart, NoCaches
  <2>2. DiskInv' /\ Here' = d /\ Parts' = Parts /\ Still' = Still
    BY <1>3, <2>1 DEF ListsInv, DiskInv, Here, Parts, Still
  <2>3. \A p \in Parts : PartOK(p, d.sets[p], d.legacy[p], {}, Still)
    BY <1>3 DEF ListsInv, PartOK, CacheOK, English, Bundled, IsStored
  <2>4. AllOK(d, c, Parts, Still)
    BY <1>3, <2>3 DEF AllOK, ListsInv, DiskInv
  <2> HIDE DEF c
  <2>5. view'.cache = c /\ view' = [attempted |-> view'.attempted, cache |-> view'.cache]
    BY <2>1
  <2> QED BY <2>1, <2>2, <2>4, <2>5 DEF ListsInv
<1> QED BY <1>1, <1>2, <1>4, <1>5, <1>6, <1>7 DEF Next

\* The invariant of the lists.
LEMMA ListsAreKept == Spec => []ListsInv
  BY InitHasLists, NextKeepsLists, PTL DEF Spec

\* GameTabs.PickerIsWhatIsStored, if no older Bandai list is saved.
THEOREM PickerIsTheFile ==
    ASSUME ListIsPresent
    PROVE  Spec => []PickerIsWhatIsStored
<1>1. ListsInv => PickerIsWhatIsStored
  BY ListsInvShows
<1> QED BY <1>1, ListsAreKept, PTL

\* GameTabs.SetPickerIsEnglish, if ids are not Japanese themselves.
THEOREM PickerIsEnglish ==
    ASSUME IdsAreLatin
    PROVE  Spec => []SetPickerIsEnglish
<1>1. ListsInv => SetPickerIsEnglish
  BY ListsInvShows
<1> QED BY <1>1, ListsAreKept, PTL
-----------------------------------------------------------------------------
(***************************************************************************)
(* Where the records are: their region, set, number and language.          *)
(***************************************************************************)

Records(cards) == IsFiniteSet(cards) /\ \A c \in cards : IsRecord(c, Parts)

\* A place, with the fields of a record.
Place(c) == <<c.region, c.set, c.no, c.lang>>

\* What reading makes of a file's records.
AsRead(cards) == {LoadCard(c) : c \in cards}

\* A record that is read is a record, and reading it once more changes nothing.
LEMMA RecordIsRead ==
    ASSUME NEW c, NEW parts, IsRecord(c, parts)
    PROVE  LET r == LoadCard(c)
           IN  /\ IsRecord(r, parts) /\ LoadCard(r) = r
               /\ Place(r) = <<c.region, LoadCard([region |-> c.region, set |-> c.set]).set, c.no, c.lang>>
<1> DEFINE r == LoadCard(c)
           id == CanonicalizeWestSetId(c.set)
           set == IF c.region = "West" THEN id ELSE c.set
<1>1. CanonicalizeWestSetId(id) = id
  BY AliasesAssumption DEF CanonicalizeWestSetId
<1>2. c = [region |-> c.region, set |-> c.set, name |-> c.name, date |-> c.date, no |-> c.no, lang |-> c.lang]
      /\ c.region \in parts
  BY DEF IsRecord
<1> HIDE DEF id
<1>3. r = [region |-> c.region, set |-> set, name |-> c.name, date |-> c.date, no |-> c.no, lang |-> c.lang]
  <2>1. CASE c.region = "West"
    <3>1. r = [c EXCEPT !.set = id]
      BY <2>1 DEF LoadCard, id
    <3> HIDE DEF r
    <3> QED BY <1>2, <2>1, <3>1
  <2>2. CASE c.region # "West"
    <3>1. r = c
      BY <2>2 DEF LoadCard
    <3> HIDE DEF r
    <3> QED BY <1>2, <2>2, <3>1
  <2> QED BY <2>1, <2>2
<1> HIDE DEF r
<1>4. IsRecord(r, parts)
  BY <1>2, <1>3 DEF IsRecord
<1>5. LoadCard(r) = r
  <2>1. CASE c.region = "West"
    <3>1. r.region = "West" /\ r.set = id
      BY <1>3, <2>1
    <3>2. LoadCard(r) = [r EXCEPT !.set = id]
      BY <1>1, <3>1 DEF LoadCard
    <3> QED BY <1>3, <2>1, <3>2
  <2>2. CASE c.region # "West"
    BY <1>3, <2>2 DEF LoadCard
  <2> QED BY <2>1, <2>2
<1>6. LoadCard([region |-> c.region, set |-> c.set]).set = set
  BY DEF LoadCard, id
<1> HIDE DEF set
<1>7. Place(r) = <<c.region, set, c.no, c.lang>>
  BY <1>3 DEF Place
<1> QED BY <1>4, <1>5, <1>6, <1>7 DEF r

\* What a list, finite or indexed by a finite set, holds is finite.
LEMMA ValuesAreFinite ==
    ASSUME NEW f, IsFiniteSet(DOMAIN f) PROVE IsFiniteSet({f[x] : x \in DOMAIN f})
<1> DEFINE T == {f[x] : x \in DOMAIN f}
           g == [x \in DOMAIN f |-> f[x]]
<1>1. g \in Surjection(DOMAIN f, T)
  BY DEF Surjection
<1> QED BY <1>1, FS_Surjection DEF ExistsSurjection

\* As many records are read as were saved, at most.
LEMMA ReadIsFinite ==
    ASSUME NEW cards, IsFiniteSet(cards) PROVE IsFiniteSet(AsRead(cards))
<1> DEFINE f == [c \in cards |-> LoadCard(c)]
<1>1. IsFiniteSet({f[c] : c \in DOMAIN f})
  BY ValuesAreFinite
<1> QED BY <1>1 DEF AsRead

LEMMA RecordsAreRead == ASSUME NEW cards, Records(cards) PROVE Records(AsRead(cards))
<1>1. ASSUME NEW c \in AsRead(cards) PROVE IsRecord(c, Parts)
  <2>1. PICK x \in cards : c = LoadCard(x)
    BY DEF AsRead
  <2> QED BY <2>1, RecordIsRead DEF Records
<1> QED BY <1>1, ReadIsFinite DEF Records

\* The records of a file that had those of cards, but some, and r besides.
LEMMA OneIsSaved ==
    ASSUME NEW cards, Records(cards), NEW r, IsRecord(r, Parts),
           NEW new \in SUBSET (AsRead(cards) \cup {r})
    PROVE  /\ Records(new)
           /\ Places(AsRead(new)) \subseteq Places(AsRead(cards)) \cup {Place(LoadCard(r))}
<1>1. ASSUME NEW c \in AsRead(cards) PROVE IsRecord(c, Parts) /\ LoadCard(c) = c
  <2>1. PICK x \in cards : c = LoadCard(x)
    BY DEF AsRead
  <2> QED BY <2>1, RecordIsRead DEF Records
<1>2. Records(new)
  <2>1. IsFiniteSet(AsRead(cards) \cup {r})
    BY ReadIsFinite, FS_AddElement DEF Records
  <2>2. IsFiniteSet(new)
    BY <2>1, FS_Subset
  <2> QED BY <1>1, <2>2 DEF Records
<1>3. ASSUME NEW c \in new PROVE LoadCard(c) \in AsRead(cards) \cup {LoadCard(r)}
  BY <1>1
<1>4. AsRead(new) \subseteq AsRead(cards) \cup {LoadCard(r)}
  BY <1>3 DEF AsRead
<1> QED BY <1>2, <1>4 DEF Places, Place

\* The same without a new record.
LEMMA NoneIsSaved ==
    ASSUME NEW cards, Records(cards), NEW new \in SUBSET AsRead(cards)
    PROVE  /\ Records(new)
           /\ Places(AsRead(new)) \subseteq Places(AsRead(cards))
<1>1. ASSUME NEW c \in AsRead(cards) PROVE IsRecord(c, Parts) /\ LoadCard(c) = c
  <2>1. PICK x \in cards : c = LoadCard(x)
    BY DEF AsRead
  <2> QED BY <2>1, RecordIsRead DEF Records
<1>2. Records(new)
  <2>1. IsFiniteSet(new)
    BY ReadIsFinite, FS_Subset DEF Records
  <2> QED BY <1>1, <2>1 DEF Records
<1>3. AsRead(new) \subseteq AsRead(cards)
  BY <1>1 DEF AsRead
<1> QED BY <1>2, <1>3 DEF Places

\* Following a list leaves a record's place alone, and so does following both.
LEMMA ListIsFollowed ==
    ASSUME NEW c, NEW parts, IsRecord(c, parts), NEW sets
    PROVE  LET r == ApplySetMetadata(c, sets)
           IN  IsRecord(r, parts) /\ Place(r) = Place(c)
<1> DEFINE r == ApplySetMetadata(c, sets)
<1>1. \E n, d : r = c \/ r = [c EXCEPT !.name = n, !.date = d]
  BY DEF ApplySetMetadata
<1> HIDE DEF r
<1>2. PICK n, d : r = c \/ r = [c EXCEPT !.name = n, !.date = d]
  BY <1>1
<1>3. c = [region |-> c.region, set |-> c.set, name |-> c.name, date |-> c.date, no |-> c.no, lang |-> c.lang]
      /\ c.region \in parts
  BY DEF IsRecord
<1>4. CASE r = c
  BY <1>4 DEF r
<1>5. CASE r = [c EXCEPT !.name = n, !.date = d]
  <2>1. r = [region |-> c.region, set |-> c.set, name |-> n, date |-> d, no |-> c.no, lang |-> c.lang]
    BY <1>3, <1>5
  <2>2. IsRecord(r, parts) /\ Place(r) = Place(c)
    BY <1>3, <2>1 DEF IsRecord, Place
  <2> QED BY <2>2 DEF r
<1> QED BY <1>2, <1>4, <1>5

\* SyncCard, of a record that was read.
LEMMA CardIsSynced ==
    ASSUME NEW c, NEW parts, IsRecord(c, parts), NEW west, NEW asia
    PROVE  LET x == LoadCard(c)
               r == SyncCard(x, west, asia)
           IN  IsRecord(r, parts) /\ Place(r) = Place(x) /\ Place(LoadCard(r)) = Place(x)
<1> DEFINE x == LoadCard(c)
           r == SyncCard(x, west, asia)
<1>1. IsRecord(x, parts) /\ LoadCard(x) = x
  BY RecordIsRead
<1>2. x.region = "West" => [x EXCEPT !.set = CanonicalizeWestSetId(@)] = x
  <2>1. ASSUME x.region = "West" PROVE LoadCard(x) = [x EXCEPT !.set = CanonicalizeWestSetId(@)]
    BY <2>1 DEF LoadCard
  <2> QED BY <1>1, <2>1
<1> HIDE DEF x
<1>3. r = x \/ r = ApplySetMetadata(x, west) \/ r = ApplySetMetadata(x, asia)
  BY <1>2 DEF SyncCard
<1> HIDE DEF r
<1>4. IsRecord(r, parts) /\ Place(r) = Place(x)
  BY <1>1, <1>3, ListIsFollowed
<1>5. Place(LoadCard(r)) = Place(x)
  <2>1. r.region = x.region /\ r.set = x.set /\ r.no = x.no /\ r.lang = x.lang
    BY <1>4 DEF Place
  <2>2. /\ Place(LoadCard(r)) = <<r.region, LoadCard([region |-> r.region, set |-> r.set]).set, r.no, r.lang>>
        /\ Place(LoadCard(x)) = <<x.region, LoadCard([region |-> x.region, set |-> x.set]).set, x.no, x.lang>>
    BY <1>1, <1>4, RecordIsRead
  <2> QED BY <1>1, <2>1, <2>2
<1> QED BY <1>4, <1>5 DEF r, x

\* All of them.
LEMMA AllAreSynced ==
    ASSUME NEW cards, Records(cards), NEW west, NEW asia
    PROVE  LET new == SyncPokemonCollectionSets(AsRead(cards), west, asia)
           IN  Records(new) /\ Places(AsRead(new)) \subseteq Places(AsRead(cards))
<1> DEFINE new == SyncPokemonCollectionSets(AsRead(cards), west, asia)
<1>1. \A r \in new : \E c \in cards : r = SyncCard(LoadCard(c), west, asia)
  BY DEF SyncPokemonCollectionSets, AsRead
<1>0. IsFiniteSet(new)
  <2> DEFINE f == [c \in AsRead(cards) |-> SyncCard(c, west, asia)]
  <2>1. IsFiniteSet({f[c] : c \in DOMAIN f})
    BY ReadIsFinite, ValuesAreFinite DEF Records
  <2>2. new = {f[c] : c \in DOMAIN f}
    BY DEF SyncPokemonCollectionSets
  <2> QED BY <2>1, <2>2
<1> HIDE DEF new
<1>2. ASSUME NEW r \in new
      PROVE  IsRecord(r, Parts) /\ \E c \in cards : Place(LoadCard(r)) = Place(LoadCard(c))
  <2>1. PICK c \in cards : r = SyncCard(LoadCard(c), west, asia)
    BY <1>1
  <2> QED BY <2>1, CardIsSynced DEF Records
<1>3. Records(new)
  BY <1>0, <1>2 DEF Records
<1>4. Places(AsRead(new)) \subseteq Places(AsRead(cards))
  <2>1. /\ Places(AsRead(new)) = {Place(LoadCard(r)) : r \in new}
        /\ Places(AsRead(cards)) = {Place(LoadCard(r)) : r \in cards}
    BY DEF Places, AsRead, Place
  <2> QED BY <1>2, <2>1
<1> QED BY <1>3, <1>4 DEF new
-----------------------------------------------------------------------------
\* What the second tab holds is what was read from the folder in use, or as it was.

TabIsRead ==
    \/ tab'.cards \in {tab.cards, {}}
    \/ Readable(Here'.cards) /\ tab'.cards = LoadCards(Here')

\* A refresh of the tab leaves its records or reads them.
LEMMA RefreshReads ==
    ASSUME game # "Magic", NEW t, IsTab(t), PagesOK(t), NEW d
    PROVE  LET u == Refresh(t, d)
           IN  u.cards = t.cards \/ (Readable(d.cards) /\ u.cards = LoadCards(d))
<1> DEFINE u == SetCollection(t, LoadCards(d))
<1>1. u.cards = LoadCards(d)
  BY CollectionIsShown
<1>2. Refresh(t, d) = IF Readable(d.cards) THEN u ELSE t
  BY DEF Refresh, SetCards, u
<1> HIDE DEF u
<1> QED BY <1>1, <1>2

\* A reload of the tab does.
LEMMA ReloadReads ==
    ASSUME game # "Magic", NEW t, TabOK(t), t.game = game, NEW d, IsFolder(d, PartsIn(game))
    PROVE  LET u == Reloaded(t, d)
           IN  u.cards = t.cards \/ (Readable(d.cards) /\ u.cards = LoadCards(d))
<1> DEFINE v == ReloadFromStore(t, d)
<1>1. TabOK(v) /\ v.cards = t.cards
  BY StoreIsReloaded DEF IsFolder
<1> HIDE DEF v
<1> QED BY <1>1, RefreshReads DEF Reloaded, v, TabOK

\* A tab that is built anew has the records of its folder, or none.
LEMMA MountReads ==
    ASSUME game # "Magic", game \in Games, Parts = PartsIn(game),
           NEW d, IsFolder(d, PartsIn(game))
    PROVE  LET u == Mounted(d)
           IN  u.cards = {} \/ (Readable(d.cards) /\ u.cards = LoadCards(d))
<1> DEFINE t == CompletionPanel(game, Parts)
<1>1. t = [game |-> game, cards |-> {}, packs |-> [p \in PartsIn(game) |-> Missing], region |-> All,
           lang |-> All, open |-> {}, tiles |-> {}, list |-> {}]
  BY DEF CompletionPanel
<1>2. /\ t.game = game /\ t.packs = [p \in PartsIn(game) |-> Missing] /\ t.lang = All
      /\ t.open = {} /\ t.tiles = {} /\ t.list = {} /\ t.cards = {}
  BY <1>1
<1>3. IsTab(t)
  BY <1>1 DEF IsTab
<1> HIDE DEF t
<1>4. TabOK(t)
  BY <1>2, <1>3 DEF TabOK, PagesOK, LangOK, ListOK
<1>5. Mounted(d) = Reloaded(t, d)
  BY DEF Mounted, Reloaded, t
<1> QED BY <1>2, <1>4, <1>5, ReloadReads

-----------------------------------------------------------------------------
(***************************************************************************)
(* What a step does to the records: it leaves those of every folder, or     *)
(* cannot write them, or gives those of one folder one new place.           *)
(***************************************************************************)

RecordsStay == \A f \in Folders : disk'[f].cards = disk[f].cards \/ ~Readable(disk'[f].cards)

OneIsPlaced ==
    /\ folder' = folder /\ Readable(Here.cards) /\ Records(Here'.cards)
    /\ \A f \in Folders : f # folder => disk'[f].cards = disk[f].cards
    /\ \/ Places(LoadCards(Here')) \subseteq Places(LoadCards(Here))
       \/ \E x \in OfferedPlaces(view'.cache, tab.cards) :
            Places(LoadCards(Here')) \subseteq Places(LoadCards(Here)) \cup {x}

Moves == TabIsRead /\ (RecordsStay \/ OneIsPlaced)

RecInv ==
    Inv /\ (game # "Magic" => /\ Records(tab.cards)
                              /\ \A f \in Folders : Readable(disk[f].cards) => Records(disk[f].cards))

\* A write of records that is one of these.
LEMMA RecordsArePlaced ==
    ASSUME RecInv, game # "Magic", Readable(Here.cards),
           NEW d, IsFolder(d, Parts), Writes(d), UNCHANGED <<game, folder, saved, catalogOf>>,
           NEW new, NEW w, d.cards = Write(w, Here.cards, new), Records(new),
           \/ Places(AsRead(new)) \subseteq Places(AsRead(Here.cards))
           \/ \E x \in OfferedPlaces(view'.cache, tab.cards) :
                Places(AsRead(new)) \subseteq Places(AsRead(Here.cards)) \cup {x}
    PROVE  RecordsStay \/ OneIsPlaced
<1>1. /\ DiskInv' /\ Here' = d
      /\ \A f \in Folders : disk'[f] = IF f = folder THEN d ELSE disk[f]
  BY DiskIsWritten DEF RecInv, Inv
<1>2. LoadCards(Here) = AsRead(Here.cards) /\ LoadCards(d) = AsRead(d.cards)
  BY DEF LoadCards, AsRead
<1>3. CASE d.cards = new
  BY <1>1, <1>2, <1>3 DEF OneIsPlaced
<1>4. CASE d.cards = Here.cards \/ ~Readable(d.cards)
  BY <1>1, <1>4 DEF RecordsStay, Here
<1> QED BY <1>3, <1>4 DEF Write, Readable

\* A write of other files.
LEMMA OthersAreWritten ==
    ASSUME RecInv, NEW d, IsFolder(d, Parts), Writes(d), UNCHANGED <<game, folder, saved>>,
           catalogOf' \in {catalogOf, folder}, d.cards = Here.cards
    PROVE  RecordsStay
<1>1. \A f \in Folders : disk'[f] = IF f = folder THEN d ELSE disk[f]
  BY DiskIsWritten DEF RecInv, Inv
<1> QED BY <1>1 DEF RecordsStay, Here

\* Saving, from a dialog.
LEMMA SavePlaces ==
    ASSUME RecInv, game # "Magic", Readable(Here.cards), NEW s, LeavesAlone(s, Here, Parts),
           NEW w, DialogOpens(s, w), NEW cards, NEW end, Save(s.d, cards, end),
           NEW r, IsRecord(r, Parts), cards \subseteq AsRead(Here.cards) \cup {r},
           Place(LoadCard(r)) \in OfferedPlaces(view'.cache, tab.cards)
    PROVE  Moves
<1> DEFINE new == Write(end, s.d.cards, cards)
           after == [s.d EXCEPT !.cards = new]
<1>1. /\ IsFolder(s.d, Parts) /\ s.d.cards = Here.cards
      /\ UNCHANGED <<game, folder, saved, catalogOf>>
  BY DEF LeavesAlone, DialogOpens
<1>2. /\ Writes(after)
      /\ IF end = "ok" THEN tab' = Refresh(tab, after) ELSE UNCHANGED tab
  BY DEF Save
<1> HIDE DEF new
<1>3. Becomes(s.d, after, Parts, new, s.d.sets, s.d.packs)
  BY <1>1, RecordsAreWritten
<1> HIDE DEF after
<1>4. IsFolder(after, Parts) /\ after.cards = new
  BY <1>3 DEF Becomes
<1>5. Here' = after
  BY <1>1, <1>2, <1>4, DiskIsWritten DEF RecInv, Inv
<1>6. TabIsRead
  <2>1. IsTab(tab) /\ PagesOK(tab)
    BY DEF RecInv, Inv, TabInv, Holds, Follows, TabOK
  <2> QED BY <1>2, <1>5, <2>1, RefreshReads DEF TabIsRead
<1>7. Records(Here.cards)
  BY DEF RecInv, Inv, DiskInv, Here
<1>8. /\ Records(cards)
      /\ Places(AsRead(cards)) \subseteq Places(AsRead(Here.cards)) \cup {Place(LoadCard(r))}
  BY <1>7, OneIsSaved
<1>9. after.cards = Write(end, Here.cards, cards)
  BY <1>1, <1>4 DEF new
<1> QED BY <1>1, <1>2, <1>4, <1>6, <1>8, <1>9, RecordsArePlaced DEF Moves

\* Cancelling.
LEMMA CancelPlaces ==
    ASSUME RecInv, NEW s, LeavesAlone(s, Here, Parts), NEW w, DialogOpens(s, w), Cancels(s)
    PROVE  Moves
<1>1. /\ IsFolder(s.d, Parts) /\ s.d.cards = Here.cards /\ Writes(s.d)
      /\ UNCHANGED <<game, folder, saved, catalogOf, tab>>
  BY DEF LeavesAlone, DialogOpens, Cancels
<1> QED BY <1>1, OthersAreWritten DEF Moves, TabIsRead

\* A record with a set from the dialog's list has a place that is offered,
LEMMA ChosenPlaces ==
    ASSUME RecInv, game # "Magic", NEW cache, NEW cards, NEW p \in Parts, NEW set \in cache[p],
           NEW draft \in Drafts[p], NEW r, r = Record(p, set, draft)
    PROVE  IsRecord(r, Parts) /\ Place(LoadCard(r)) \in OfferedPlaces(cache, cards)
<1>1. p # "Magic"
  BY GameIsOne, PartsOfGames DEF RecInv, Inv, Games
<1>2. r = [region |-> p, set |-> set.id, name |-> set.name, date |-> set.date, no |-> draft.no,
           lang |-> draft.lang]
  BY <1>1 DEF Record
<1>3. IsRecord(r, Parts) /\ r.region = p /\ r.set = set.id /\ r.no = draft.no /\ r.lang = draft.lang
  BY <1>2 DEF IsRecord
<1>4. Place(LoadCard(r)) = PlaceAt(p, set.id, draft)
  BY <1>3, RecordIsRead DEF PlaceAt
<1> QED BY <1>3, <1>4 DEF OfferedPlaces

\* and so has one that keeps its set.
LEMMA KeptPlaces ==
    ASSUME RecInv, game # "Magic", NEW cache, NEW c \in tab.cards, NEW draft \in Drafts[c.region],
           NEW r, r = Redraft(c, draft)
    PROVE  IsRecord(r, Parts) /\ Place(LoadCard(r)) \in OfferedPlaces(cache, tab.cards)
<1>1. IsRecord(c, Parts)
  BY DEF RecInv, Records
<1>2. c.region # "Magic" /\ c.region \in Parts
  BY <1>1, GameIsOne, PartsOfGames DEF RecInv, Inv, Games, IsRecord
<1>3. r = [c EXCEPT !.no = draft.no, !.lang = draft.lang]
  BY <1>2 DEF Redraft
<1>4. r = [region |-> c.region, set |-> c.set, name |-> c.name, date |-> c.date, no |-> draft.no,
           lang |-> draft.lang]
  BY <1>1, <1>3 DEF IsRecord
<1>5. /\ IsRecord(r, Parts) /\ r.region = c.region /\ r.set = c.set
      /\ r.no = draft.no /\ r.lang = draft.lang
  BY <1>1, <1>4 DEF IsRecord
<1>6. Place(LoadCard(r)) = PlaceAt(c.region, c.set, draft)
  BY <1>5, RecordIsRead DEF PlaceAt
<1> QED BY <1>2, <1>5, <1>6 DEF OfferedPlaces

\* A record that is added gets such a place,
LEMMA AddPlaces == RecInv /\ game # "Magic" /\ OnAddCard => Moves
<1> SUFFICES ASSUME RecInv, game # "Magic", OnAddCard PROVE Moves
  OBVIOUS
<1>1. PICK w, answers : /\ DialogOpens(Offered(answers, w), w)
                        /\ Cancels(Offered(answers, w)) \/ Add(Offered(answers, w), w["cards"])
  BY DEF OnAddCard
<1> DEFINE s == Offered(answers, w)
<1>2. LeavesAlone(s, Here, Parts)
  BY OfferIsFine DEF RecInv
<1>3. DialogOpens(s, w) /\ (Cancels(s) \/ Add(s, w["cards"]))
  BY <1>1
<1> HIDE DEF s
<1>4. CASE Add(s, w["cards"])
  <2>1. PICK p \in Parts : \E set \in s.cache[p], draft \in Drafts[p] :
          Save(s.d, LoadCards(s.d) \cup {Record(p, set, draft)}, w["cards"])
    BY <1>4 DEF Add
  <2>2. PICK set \in s.cache[p], draft \in Drafts[p] :
          Save(s.d, LoadCards(s.d) \cup {Record(p, set, draft)}, w["cards"])
    BY <2>1
  <2> DEFINE r == Record(p, set, draft)
             cards == LoadCards(s.d) \cup {r}
  <2>3. view'.cache = s.cache
    BY <1>3 DEF DialogOpens
  <2>4. IsRecord(r, Parts) /\ Place(LoadCard(r)) \in OfferedPlaces(view'.cache, tab.cards)
    BY <2>3, ChosenPlaces
  <2>5. s.d.cards = Here.cards /\ Readable(Here.cards) /\ cards \subseteq AsRead(Here.cards) \cup {r}
    BY <1>2, <1>4 DEF LeavesAlone, Add, LoadCards, AsRead
  <2>6. Save(s.d, cards, w["cards"])
    BY <2>2
  <2> HIDE DEF cards, r
  <2> QED BY <1>2, <1>3, <2>4, <2>5, <2>6, SavePlaces
<1> QED BY <1>2, <1>3, <1>4, CancelPlaces

\* and so does one that is edited;
LEMMA EditPlaces == RecInv /\ game # "Magic" /\ OnEditCard => Moves
<1> SUFFICES ASSUME RecInv, game # "Magic", OnEditCard PROVE Moves
  OBVIOUS
<1>1. PICK w, answers : /\ DialogOpens(Offered(answers, w), w)
                        /\ Cancels(Offered(answers, w)) \/ Edit(Offered(answers, w), w["cards"])
  BY DEF OnEditCard
<1> DEFINE s == Offered(answers, w)
<1>2. LeavesAlone(s, Here, Parts)
  BY OfferIsFine DEF RecInv
<1>3. DialogOpens(s, w) /\ (Cancels(s) \/ Edit(s, w["cards"]))
  BY <1>1
<1> HIDE DEF s
<1>4. CASE Edit(s, w["cards"])
  <2>1. PICK c \in tab.cards : \E old : \E r \in Edits(c, s.cache) :
          Save(s.d, (LoadCards(s.d) \ {old}) \cup {r}, w["cards"])
    BY <1>4 DEF Edit
  <2>2. PICK old : \E r \in Edits(c, s.cache) :
          Save(s.d, (LoadCards(s.d) \ {old}) \cup {r}, w["cards"])
    BY <2>1
  <2>3. PICK r \in Edits(c, s.cache) :
          Save(s.d, (LoadCards(s.d) \ {old}) \cup {r}, w["cards"])
    BY <2>2
  <2> DEFINE cards == (LoadCards(s.d) \ {old}) \cup {r}
  <2>4. view'.cache = s.cache
    BY <1>3 DEF DialogOpens
  <2>5. IsRecord(r, Parts) /\ Place(LoadCard(r)) \in OfferedPlaces(view'.cache, tab.cards)
    <3>1. \/ \E draft \in Drafts[c.region] : r = Redraft(c, draft)
          \/ \E p \in Parts : \E set \in s.cache[p], draft \in Drafts[p] : r = Record(p, set, draft)
      BY DEF Edits
    <3> QED BY <2>4, <3>1, ChosenPlaces, KeptPlaces
  <2>6. s.d.cards = Here.cards /\ Readable(Here.cards) /\ cards \subseteq AsRead(Here.cards) \cup {r}
    BY <1>2, <1>4 DEF LeavesAlone, Edit, LoadCards, AsRead
  <2>7. Save(s.d, cards, w["cards"])
    BY <2>3
  <2> HIDE DEF cards
  <2> QED BY <1>2, <1>3, <2>5, <2>6, <2>7, SavePlaces
<1> QED BY <1>2, <1>3, <1>4, CancelPlaces

\* a deletion gives no record another one.
LEMMA DeletePlaces == RecInv /\ game # "Magic" /\ OnDeleteCard => Moves
<1> SUFFICES ASSUME RecInv, game # "Magic", OnDeleteCard PROVE Moves
  OBVIOUS
<1>1. /\ IsFolder(Here, Parts) /\ IsTab(tab) /\ PagesOK(tab)
      /\ UNCHANGED <<game, folder, saved, view, catalogOf>>
  BY DEF RecInv, Inv, DiskInv, Here, TabInv, Holds, Follows, TabOK, OnDeleteCard
<1>2. \/ /\ Readable(Here.cards)
         /\ \E old, w : LET d == [Here EXCEPT !.cards = Write(w, @, LoadCards(Here) \ {old})]
                        IN  Writes(d) /\ tab' = Refresh(tab, d)
      \/ tab' = Refresh(tab, Here) /\ UNCHANGED disk
  BY DEF OnDeleteCard
<1>3. ASSUME Readable(Here.cards), NEW old, NEW w,
             Writes([Here EXCEPT !.cards = Write(w, @, LoadCards(Here) \ {old})]),
             tab' = Refresh(tab, [Here EXCEPT !.cards = Write(w, @, LoadCards(Here) \ {old})])
      PROVE  Moves
  <2> DEFINE new == LoadCards(Here) \ {old}
             x == Write(w, Here.cards, new)
             d == [Here EXCEPT !.cards = x]
  <2>1. Writes(d) /\ tab' = Refresh(tab, d)
    BY <1>3
  <2>2. Records(Here.cards) /\ new \subseteq AsRead(Here.cards)
    BY <1>3 DEF RecInv, Inv, DiskInv, Here, LoadCards, AsRead
  <2> HIDE DEF new
  <2>3. Records(new) /\ Places(AsRead(new)) \subseteq Places(AsRead(Here.cards))
    BY <2>2, NoneIsSaved
  <2> HIDE DEF x
  <2>4. Becomes(Here, d, Parts, x, Here.sets, Here.packs)
    BY <1>1, RecordsAreWritten
  <2> HIDE DEF d
  <2>5. IsFolder(d, Parts) /\ d.cards = Write(w, Here.cards, new)
    BY <2>4 DEF Becomes, x
  <2>6. Here' = d
    BY <1>1, <2>1, <2>5, DiskIsWritten DEF RecInv, Inv
  <2>7. TabIsRead
    BY <1>1, <2>1, <2>6, RefreshReads DEF TabIsRead
  <2> QED BY <1>1, <1>3, <2>1, <2>3, <2>5, <2>7, RecordsArePlaced DEF Moves
<1>4. ASSUME tab' = Refresh(tab, Here), UNCHANGED disk PROVE Moves
  <2>1. Here' = Here
    BY <1>1, <1>4 DEF Here
  <2> QED BY <1>1, <1>4, <2>1, RefreshReads DEF Moves, TabIsRead, RecordsStay
<1> QED BY <1>2, <1>3, <1>4
\* An update of the sets of Yu-Gi-Oh!, Bandai or Digi-Battle leaves the records alone.
LEMMA PartUpdatePlaces ==
    ASSUME RecInv, OnePartIsUpdated, UNCHANGED <<game, folder, saved>>
    PROVE  Moves
<1>0. PICK p \in Parts : \E f, wSets, wCatalog, d :
        /\ d = UpdateRegion([d |-> Here, cache |-> view.cache], p, f, wSets, wCatalog).d
        /\ Writes(d)
        /\ TabReloads(tab, d) \/ UNCHANGED <<tab, behind, catalogOf>>
  BY DEF OnePartIsUpdated
<1>1. PICK f, wSets, wCatalog, d :
        /\ d = UpdateRegion([d |-> Here, cache |-> view.cache], p, f, wSets, wCatalog).d
        /\ Writes(d)
        /\ TabReloads(tab, d) \/ UNCHANGED <<tab, behind, catalogOf>>
  BY <1>0
<1>2. IsFolder(d, Parts) /\ d.cards = Here.cards
  BY <1>1, OneIsUpdated DEF RecInv
<1>3. /\ game # "Magic" /\ TabOK(tab) /\ tab.game = game /\ Parts = PartsIn(game)
      /\ catalogOf' \in {catalogOf, folder}
  BY <1>1, GameIsOne DEF OnePartIsUpdated, RecInv, Inv, TabInv, Holds, Follows, TabReloads
<1>4. Here' = d
  BY <1>1, <1>2, <1>3, DiskIsWritten DEF RecInv, Inv
<1>5. TabIsRead
  <2>1. CASE TabReloads(tab, d)
    BY <1>2, <1>3, <1>4, <2>1, ReloadReads DEF TabReloads, TabIsRead
  <2>2. CASE UNCHANGED tab
    BY <2>2 DEF TabIsRead
  <2> QED BY <1>1, <2>1, <2>2
<1> QED BY <1>1, <1>2, <1>3, <1>5, OthersAreWritten DEF Moves

\* Both regions' files are written before the records.
LEMMA BothLeaveTheRecords ==
    ASSUME Inv, game = "Pokemon", NEW answers, NEW w
    PROVE  UpdateRegions(answers, w).d.cards = Here.cards
<1> DEFINE start == [d |-> Here, cache |-> view.cache]
           west == UpdateRegion(start, "West", answers["West"].all, w["West"], w["WestCatalog"])
           both == UpdateRegion(west, "Asia", answers["Asia"].all, w["Asia"], w["AsiaCatalog"])
<1>1. "West" \in Parts /\ "Asia" \in Parts /\ IsFolder(Here, Parts)
  BY GameIsOne, PartsOfGames DEF Inv, DiskInv, Here
<1>2. IsState(start) /\ start.d = Here
  BY DEF IsState
<1>3. both = UpdateRegions(answers, w)
  BY DEF UpdateRegions
<1> HIDE DEF start
<1>4. Updates(start, west, Parts, w["West"], w["WestCatalog"])
  BY <1>1, <1>2, PartIsUpdated
<1> HIDE DEF west
<1>5. Updates(west, both, Parts, w["Asia"], w["AsiaCatalog"])
  BY <1>1, <1>4, PartIsUpdated DEF Updates
<1> QED BY <1>2, <1>3, <1>4, <1>5 DEF Updates

\* Pokémon's update, which renames and redates the sets of its records.
LEMMA PokemonPlaces ==
    ASSUME RecInv, OnUpdatePokemonSets, UNCHANGED <<game, folder, saved>>
    PROVE  Moves
<1>1. PICK answers, w :
        LET after == FollowLists(UpdateRegions(answers, w), w["cards"])
        IN  /\ Writes(after.d)
            /\ TabReloads(IF after.saved THEN Refresh(tab, after.d) ELSE tab, after.d)
  BY DEF OnUpdatePokemonSets
<1> DEFINE both == UpdateRegions(answers, w)
           e == both.d
           new == SyncPokemonCollectionSets(LoadCards(e), both.cache["West"], both.cache["Asia"])
           x == Write(w["cards"], e.cards, new)
           f == [e EXCEPT !.cards = x]
           d == FollowLists(both, w["cards"]).d
           t == IF FollowLists(both, w["cards"]).saved THEN Refresh(tab, d) ELSE tab
<1>2. Writes(d) /\ TabReloads(t, d) /\ (t = tab \/ t = Refresh(tab, d))
  BY <1>1
<1>3. game = "Pokemon" /\ game # "Magic"
  BY DEF OnUpdatePokemonSets
<1>4. IsFolder(e, Parts) /\ e.cards = Here.cards
  BY <1>3, BothAreUpdated, BothLeaveTheRecords DEF RecInv
<1>5. d = e \/ (Readable(e.cards) /\ d = f)
  BY DEF FollowLists
<1>6. Readable(Here.cards) =>
        Records(new) /\ Places(AsRead(new)) \subseteq Places(AsRead(Here.cards))
  <2>1. ASSUME Readable(Here.cards) PROVE Records(Here.cards)
    BY <1>3, <2>1 DEF RecInv, Inv, DiskInv, Here
  <2>2. LoadCards(e) = AsRead(Here.cards)
    BY <1>4 DEF LoadCards, AsRead
  <2> HIDE DEF both
  <2> QED BY <2>1, <2>2, AllAreSynced
<1> HIDE DEF both, e, new, t, d
<1>7. Becomes(e, f, Parts, x, e.sets, e.packs)
  BY <1>4, RecordsAreWritten
<1> HIDE DEF f
<1>8. IsFolder(d, Parts) /\ (d.cards = Here.cards \/ (Readable(Here.cards) /\ d.cards = x))
  BY <1>4, <1>5, <1>7 DEF Becomes
<1>9. /\ TabOK(tab) /\ tab.game = game /\ Parts = PartsIn(game)
      /\ catalogOf' \in {catalogOf, folder}
  BY <1>2, <1>3, GameIsOne DEF RecInv, Inv, TabInv, Holds, Follows, TabReloads
<1>10. Here' = d /\ \A g \in Folders : disk'[g] = IF g = folder THEN d ELSE disk[g]
  BY <1>2, <1>8, <1>9, DiskIsWritten DEF RecInv, Inv
<1>11. TabIsRead
  <2> DEFINE u == Refresh(tab, d)
             v == Reloaded(t, d)
  <2>1. u.cards = tab.cards \/ (Readable(d.cards) /\ u.cards = LoadCards(d))
    BY <1>3, <1>9, RefreshReads DEF TabOK
  <2>2. TabOK(u) /\ u.game = game
    <3> DEFINE k == disk[catalogOf]
    <3>1. Follows(tab, game, k)
      BY <1>3 DEF RecInv, Inv, TabInv, Holds
    <3> HIDE DEF k
    <3>2. Holds(u, game, d, k, Readable(d.cards))
      BY <1>3, <3>1, Refreshed
    <3> HIDE DEF u
    <3> QED BY <3>2 DEF Holds, Follows
  <2>3. tab' = v /\ (t = tab \/ t = u)
    BY <1>2 DEF TabReloads
  <2> HIDE DEF u
  <2>4. TabOK(t) /\ t.game = game
    BY <1>9, <2>2, <2>3
  <2>5. v.cards = t.cards \/ (Readable(d.cards) /\ v.cards = LoadCards(d))
    BY <1>3, <1>8, <1>9, <2>4, ReloadReads
  <2> HIDE DEF v
  <2> QED BY <1>10, <2>1, <2>3, <2>5 DEF TabIsRead
<1>12. CASE d.cards = Here.cards
  BY <1>10, <1>11, <1>12 DEF Moves, RecordsStay, Here
<1>13. CASE Readable(Here.cards) /\ d.cards = x
  <2>1. CASE x = new
    <3>1. LoadCards(Here) = AsRead(Here.cards) /\ LoadCards(d) = AsRead(d.cards)
      BY DEF LoadCards, AsRead
    <3> QED BY <1>6, <1>10, <1>11, <1>13, <2>1, <3>1 DEF Moves, OneIsPlaced
  <2>2. CASE x = e.cards \/ ~Readable(x)
    BY <1>4, <1>10, <1>11, <1>13, <2>2 DEF Moves, RecordsStay, Here
  <2> QED BY <2>1, <2>2 DEF x, Write, Readable
<1> QED BY <1>8, <1>12, <1>13

\* The tab's own steps.
LEMMA PanelPlaces ==
    ASSUME RecInv, OnChooseRegion \/ OnChooseLanguage \/ OpenTile \/ Back
    PROVE  Moves
<1>1. InTab /\ game # "Magic"
  BY DEF OnChooseRegion, OnChooseLanguage, OpenTile, Back
<1>2. TabOK(tab)
  BY <1>1 DEF RecInv, Inv, TabInv, Holds, Follows
<1>3. tab'.cards = tab.cards
  <2>1. CASE OnChooseRegion
    BY <1>2, <2>1, RegionIsChosen DEF OnChooseRegion
  <2>2. CASE OnChooseLanguage
    BY <1>2, <2>2, LanguageIsChosen DEF OnChooseLanguage
  <2>3. CASE OpenTile
    BY <1>2, <2>3, TileIsOpened DEF OpenTile
  <2>4. CASE Back
    BY <1>2, <2>4, PageIsLeft DEF Back
  <2> QED BY <2>1, <2>2, <2>3, <2>4
<1> QED BY <1>1, <1>3 DEF Moves, TabIsRead, RecordsStay, InTab

\* Other folders, other runs of the program.
LEMMA OtherPlaces ==
    ASSUME RecInv, game # "Magic", Remount \/ MoveFolder \/ SettingsFail \/ Restart
    PROVE  Moves
<1>1. UNCHANGED disk
  BY DEF Remount, MoveFolder, SettingsFail, Restart
<1>2. TabOK(tab) /\ game \in Games /\ Parts = PartsIn(game)
  BY GameIsOne DEF RecInv, Inv, TabInv, Holds, Follows
<1>3. CASE Remount
  <2> DEFINE u == RebuildCurrentView(tab)
  <2>1. IsTab(u) /\ PagesOK(u) /\ u.cards = tab.cards
    BY <1>2, ViewIsFine DEF TabOK, SameBasis
  <2>2. tab' = Refresh(u, Here) /\ Here' = Here
    BY <1>3 DEF Remount, Here
  <2> HIDE DEF u
  <2>3. TabIsRead
    BY <2>1, <2>2, RefreshReads DEF TabIsRead
  <2> QED BY <1>1, <2>3 DEF Moves, RecordsStay
<1>4. CASE MoveFolder
  <2>1. PICK f \in Folders : folder' = f /\ tab' = Refresh(tab, disk[f])
    BY <1>4 DEF MoveFolder, MovesTo
  <2>2. Here' = disk[f]
    BY <1>1, <2>1 DEF Here
  <2>3. TabIsRead
    BY <1>2, <2>1, <2>2, RefreshReads DEF TabIsRead, TabOK
  <2> QED BY <1>1, <2>3 DEF Moves, RecordsStay
<1>5. CASE SettingsFail
  BY <1>1, <1>5 DEF SettingsFail, Moves, TabIsRead, RecordsStay
<1>6. CASE Restart
  <2>1. tab' = Mounted(disk[saved]) /\ Here' = disk[saved] /\ IsFolder(disk[saved], PartsIn(game))
    BY <1>1, <1>2, <1>6 DEF Restart, Here, RecInv, Inv, DiskInv
  <2>2. TabIsRead
    BY <1>2, <2>1, MountReads DEF TabIsRead
  <2> QED BY <1>1, <2>2 DEF Moves, RecordsStay
<1> QED BY <1>3, <1>4, <1>5, <1>6

\* Every step does one of these to the records.
LEMMA EveryStepPlaces == RecInv /\ game # "Magic" /\ [Next]_vars => Moves
<1> SUFFICES ASSUME RecInv, game # "Magic", [Next]_vars PROVE Moves
  OBVIOUS
<1>1. CASE OnAddCard \/ OnEditCard \/ OnDeleteCard
  BY <1>1, AddPlaces, EditPlaces, DeletePlaces
<1>2. CASE OnUpdateSets
  <2>1. UNCHANGED <<game, folder, saved>> /\ ~OnUpdateMagicSets
    BY <1>2 DEF OnUpdateSets, OnUpdateMagicSets
  <2>2. OnUpdatePokemonSets \/ OnePartIsUpdated
    BY <1>2, <2>1, YuGiOhIsUpdated, DigiIsUpdated, BandaiIsUpdated DEF OnUpdateSets, RecInv
  <2> QED BY <2>1, <2>2, PokemonPlaces, PartUpdatePlaces
<1>3. CASE OnChooseRegion \/ OnChooseLanguage \/ OpenTile \/ Back
  BY <1>3, PanelPlaces
<1>4. CASE TypeDeck \/ Analyze \/ Clear
  BY <1>4 DEF TypeDeck, Analyze, Clear
<1>5. CASE Remount \/ MoveFolder \/ SettingsFail \/ Restart
  BY <1>5, OtherPlaces
<1>6. CASE UNCHANGED vars
  BY <1>6 DEF vars, Moves, TabIsRead, RecordsStay
<1> QED BY <1>1, <1>2, <1>3, <1>4, <1>5, <1>6 DEF Next

-----------------------------------------------------------------------------

\* The records are records of the game's parts, at first,
LEMMA InitHasRecords == Init => RecInv
<1> SUFFICES ASSUME Init PROVE RecInv
  OBVIOUS
<1>1. Inv
  BY InitHasInv
<1>2. PICK d \in Contents[game] : disk = [f \in Folders |-> d]
  BY DEF Init
<1>3. game \in DOMAIN Contents /\ tab = Mounted(Here) /\ Here = d
  BY <1>2 DEF Init, Here, Folders
<1>4. ASSUME game # "Magic"
      PROVE  /\ Records(tab.cards)
             /\ \A f \in Folders : Readable(disk[f].cards) => Records(disk[f].cards)
  <2>1. Readable(d.cards) => Records(d.cards)
    BY <1>2, <1>3, <1>4, TabsAssumption DEF Records, Parts
  <2>2. Readable(d.cards) => Records(LoadCards(d))
    BY <2>1, RecordsAreRead DEF LoadCards, AsRead
  <2>3. game \in Games /\ Parts = PartsIn(game) /\ IsFolder(d, PartsIn(game))
    BY <1>1, <1>2, <1>3, GameIsOne DEF Inv, DiskInv, Folders
  <2>4. Records(tab.cards)
    BY <1>3, <1>4, <2>2, <2>3, MountReads, FS_EmptySet DEF Records
  <2> QED BY <1>2, <2>1, <2>4
<1> QED BY <1>1, <1>4 DEF RecInv

\* and after every step.
LEMMA NextKeepsRecords == RecInv /\ [Next]_vars => RecInv'
<1> SUFFICES ASSUME RecInv, [Next]_vars PROVE RecInv'
  OBVIOUS
<1>1. Inv' /\ game' = game /\ Parts' = Parts
  <2>1. Inv'
    BY NextKeepsInv DEF RecInv
  <2>2. game' = game
    BY DEF Next, vars, OnAddCard, OnEditCard, DialogOpens, OnDeleteCard, OnUpdateSets,
           OnChooseRegion, OnChooseLanguage, OpenTile, Back, TypeDeck, Analyze, Clear, InTab,
           Remount, MoveFolder, SettingsFail, Restart
  <2> QED BY <2>1, <2>2 DEF Parts
<1>2. ASSUME game # "Magic"
      PROVE  /\ Records(tab'.cards)
             /\ \A f \in Folders : Readable(disk'[f].cards) => Records(disk'[f].cards)
  <2>1. Moves
    BY <1>2, EveryStepPlaces
  <2>2. \A f \in Folders : Readable(disk[f].cards) => Records(disk[f].cards)
    BY <1>2 DEF RecInv
  <2>3. \A f \in Folders : Readable(disk'[f].cards) => Records(disk'[f].cards)
    <3>1. CASE RecordsStay
      BY <2>2, <3>1 DEF RecordsStay
    <3>2. CASE OneIsPlaced
      BY <2>2, <3>2 DEF OneIsPlaced, Here
    <3> QED BY <2>1, <3>1, <3>2 DEF Moves
  <2>4. Records(tab'.cards)
    <3>1. CASE tab'.cards \in {tab.cards, {}}
      BY <1>2, <3>1, FS_EmptySet DEF RecInv, Records
    <3>2. CASE Readable(Here'.cards) /\ tab'.cards = LoadCards(Here')
      <4>1. folder' \in Folders /\ Here' = disk'[folder']
        BY <1>1 DEF Inv, DiskInv, Here
      <4>2. Records(Here'.cards)
        BY <2>3, <3>2, <4>1
      <4> QED BY <3>2, <4>2, RecordsAreRead DEF LoadCards, AsRead
    <3> QED BY <2>1, <3>1, <3>2 DEF Moves, TabIsRead
  <2> QED BY <2>3, <2>4
<1> QED BY <1>1, <1>2 DEF RecInv, Records

\* A step that gives at most one record a new place, and one that is offered.
LEMMA PlacesAreKept ==
    RecInv /\ [Next]_vars =>
      (game # "Magic" /\ folder' = folder /\ Readable(Here.cards) /\ Readable(Here'.cards) =>
         /\ Cardinality(NewPlaces) <= 1
         /\ NewPlaces \subseteq OfferedPlaces(view'.cache, tab.cards))
<1> SUFFICES ASSUME RecInv, [Next]_vars, game # "Magic", folder' = folder,
                    Readable(Here.cards), Readable(Here'.cards)
             PROVE  /\ Cardinality(NewPlaces) <= 1
                    /\ NewPlaces \subseteq OfferedPlaces(view'.cache, tab.cards)
  OBVIOUS
<1>1. NewPlaces = {} \/ \E x \in OfferedPlaces(view'.cache, tab.cards) : NewPlaces \subseteq {x}
  <2>1. RecordsStay \/ OneIsPlaced
    BY EveryStepPlaces DEF Moves
  <2>2. CASE RecordsStay
    <3>1. folder \in Folders /\ Here' = disk'[folder]
      BY DEF RecInv, Inv, DiskInv, Here
    <3>2. Here'.cards = Here.cards
      BY <2>2, <3>1 DEF RecordsStay, Here
    <3> QED BY <3>2 DEF NewPlaces, LoadCards
  <2>3. CASE OneIsPlaced
    BY <2>3 DEF OneIsPlaced, NewPlaces
  <2> QED BY <2>1, <2>2, <2>3
<1>2. Cardinality(NewPlaces) <= 1
  <2>1. CASE NewPlaces = {}
    BY <2>1, FS_EmptySet
  <2>2. ASSUME NEW x, NewPlaces = {x} PROVE Cardinality(NewPlaces) <= 1
    BY <2>2, FS_Singleton
  <2> QED BY <1>1, <2>1, <2>2
<1> QED BY <1>1, <1>2

\* GameTabs.RecordsKeepTheirPlace, for any tables, contents, drafts, answers and failures.
THEOREM RecordsStayInPlace == Spec => RecordsKeepTheirPlace
<1>1. Spec => []RecInv
  BY InitHasRecords, NextKeepsRecords, PTL DEF Spec
<1> QED BY <1>1, PlacesAreKept, PTL DEF Spec, RecordsKeepTheirPlace

-----------------------------------------------------------------------------
(***************************************************************************)
(* Set completion counts: a tile and its checklist.                        *)
(***************************************************************************)

\* The keys of the numbers in a catalogue, as a part computes them.
KeysAreOf(keysOf, p, packs) ==
    \A x \in packs : \A e \in x.cards : keysOf[e.no] = KeysOf(p, e.no)

\* What records count as, and those that count for a set.
KeysFrom(p, cards) == UNION {KeysOf(p, c.no) : c \in cards}
CountedFor(id, cards, setOf) == {c \in cards : setOf[c] = id}

\* What a part counts of an id: as many keys as its records have, one each at most.
LEMMA OneKeyEach ==
    ASSUME NEW p, NEW no
    PROVE  \A a, b \in KeysOf(p, no) : a = b
<1>1. \A a, b \in WestKeys(no) : a = b
  BY DEF WestKeys
<1>2. \A a, b \in YgoSlotKeys(no) : a = b
  BY DEF YgoSlotKeys
<1>3. \A a, b \in BandaiKeys(no) : a = b
  BY DEF BandaiKeys
<1>4. \A a, b \in DigiKeys(no) : a = b
  BY DEF DigiKeys
<1> QED BY <1>1, <1>2, <1>3, <1>4 DEF KeysOf

\* The keys owned of a set are those of its records.
LEMMA OwnedOfASet ==
    ASSUME NEW cards, NEW setOf, NEW keysOf, NEW id \in DOMAIN OwnedBySet(cards, setOf, keysOf)
    PROVE  OwnedBySet(cards, setOf, keysOf)[id]
             = UNION {keysOf[c.no] : c \in {d \in cards : setOf[d] = id}}
<1> DEFINE counted == {c \in cards : setOf[c] # "" /\ keysOf[c.no] # {}}
<1>1. PICK c \in counted : setOf[c] = id
  BY DEF OwnedBySet
<1>2. OwnedBySet(cards, setOf, keysOf)[id]
        = UNION {keysOf[d.no] : d \in {e \in counted : setOf[e] = id}}
  BY <1>1 DEF OwnedBySet
<1>3. id # ""
  BY <1>1
<1>4. \A d \in cards : setOf[d] = id /\ keysOf[d.no] # {} => d \in counted
  BY <1>3
<1>5. counted \subseteq cards
  OBVIOUS
<1> HIDE DEF counted
<1> QED BY <1>2, <1>4, <1>5

\* A tile counts the cards of its pack, and those of them that are owned.
Had(x, keys, keysOf) == {e \in x.cards : keysOf[e.no] \cap keys # {}}
TileOf(x, keys, keysOf) ==
    [id |-> x.id, name |-> x.name, total |-> Cardinality(x.cards), owned |-> Cardinality(Had(x, keys, keysOf))]

LEMMA TileOfAPack ==
    ASSUME NEW owned, NEW packs, NEW keysOf, NEW t \in Tiles(owned, packs, keysOf)
    PROVE  \E x \in packs : t = TileOf(x, owned[x.id], keysOf) /\ x.id \in DOMAIN owned
<1>1. Tiles(owned, packs, keysOf)
        = {TileOf(x, owned[x.id], keysOf) : x \in {y \in packs : y.id \in DOMAIN owned /\ y.cards # {}}}
  BY DEF Tiles, TileOf, Had
<1>2. t \in {TileOf(x, owned[x.id], keysOf) : x \in {y \in packs : y.id \in DOMAIN owned /\ y.cards # {}}}
  BY <1>1
<1> HIDE DEF TileOf
<1> QED BY <1>2

\* The checklist of a set has a line for each card of its pack.
LineOf(e, keys, keysOf) == [no |-> e.no, name |-> e.name, owned |-> keysOf[e.no] \cap keys # {}]
LinesOf(x, keys, keysOf) == {LineOf(e, keys, keysOf) : e \in x.cards}

LEMMA ListOfAPack ==
    ASSUME NEW packs, NEW x \in packs, \A y \in packs : y.id = x.id => y = x, NEW keys, NEW keysOf
    PROVE  Checklist(packs, x.id, keys, keysOf) = LinesOf(x, keys, keysOf)
<1>1. {y \in packs : y.id = x.id} = {x}
  OBVIOUS
<1>2. Checklist(packs, x.id, keys, keysOf) = UNION {LinesOf(q, keys, keysOf) : q \in {x}}
  BY <1>1 DEF Checklist, LinesOf, LineOf
<1> QED BY <1>2

\* A set that another maps onto, one to one, has its size.
LEMMA SameSize ==
    ASSUME NEW S, IsFiniteSet(S), NEW T, NEW f \in [S -> T],
           \A a, b \in S : f[a] = f[b] => a = b, \A y \in T : \E x \in S : f[x] = y
    PROVE  IsFiniteSet(T) /\ Cardinality(T) = Cardinality(S)
<1>1. f \in Bijection(S, T)
  BY Fun_IsBij
<1> QED BY <1>1, FS_Bijection DEF ExistsBijection

\* As many lines as cards of the pack, as many ticked as are owned, and no record ticks two.
CountsAgree(t, lines, mine) ==
    LET ticked == {l \in lines : l.owned}
    IN  /\ t.total = Cardinality(lines)
        /\ t.owned = Cardinality(ticked)
        /\ Cardinality(ticked) <= Cardinality(mine)

LEMMA TileIsItsChecklist ==
    ASSUME NEW p, NEW packs, IsCatalogue(p, packs), NEW keysOf, KeysAreOf(keysOf, p, packs),
           NEW owned, NEW t \in Tiles(owned, packs, keysOf),
           NEW mine, IsFiniteSet(mine), owned[t.id] = KeysFrom(p, mine)
    PROVE  CountsAgree(t, Checklist(packs, t.id, owned[t.id], keysOf), mine)
<1>0. PICK x \in packs : t = TileOf(x, owned[x.id], keysOf)
  BY TileOfAPack
<1>1. t.id = x.id /\ t.total = Cardinality(x.cards) /\ t.owned = Cardinality(Had(x, owned[x.id], keysOf))
  BY <1>0 DEF TileOf
<1> DEFINE keys == owned[x.id]
           Line(e) == LineOf(e, keys, keysOf)
           lines == LinesOf(x, keys, keysOf)
           ticked == {l \in lines : l.owned}
           have == Had(x, keys, keysOf)
           f == [e \in x.cards |-> Line(e)]
           g == [e \in have |-> Line(e)]
           h == [e \in have |-> CHOOSE c \in mine : KeysOf(p, e.no) \cap KeysOf(p, c.no) # {}]
<1>2. Checklist(packs, t.id, owned[t.id], keysOf) = lines
  <2>1. \A y \in packs : y.id = x.id => y = x
    BY DEF IsCatalogue
  <2>2. Checklist(packs, x.id, keys, keysOf) = lines
    BY <2>1, ListOfAPack
  <2> QED BY <1>1, <2>2
<1>3. /\ IsFiniteSet(x.cards)
      /\ \A d, e \in x.cards : d.no = e.no \/ KeysOf(p, d.no) \cap KeysOf(p, e.no) # {} => d = e
  BY DEF IsCatalogue
<1>4. \A e \in x.cards : keysOf[e.no] = KeysOf(p, e.no)
  BY DEF KeysAreOf
<1>5. keys = UNION {KeysOf(p, c.no) : c \in mine}
  BY <1>1 DEF KeysFrom
<1>6. \A d, e \in x.cards : Line(d) = Line(e) => d = e
  BY <1>3 DEF LineOf
<1>7. \A e \in x.cards : Line(e).owned <=> e \in have
  BY DEF Had, LineOf
<1>8. /\ lines = {Line(e) : e \in x.cards}
      /\ ticked = {Line(e) : e \in have} /\ have \subseteq x.cards
  BY <1>7 DEF Had, LinesOf
<1> HIDE DEF Line
<1>9. IsFiniteSet(have) /\ IsFiniteSet(x.cards)
  BY <1>3, <1>8, FS_Subset
<1>10. Cardinality(lines) = Cardinality(x.cards)
  <2>1. f \in [x.cards -> lines] /\ \A l \in lines : \E e \in x.cards : f[e] = l
    BY <1>8
  <2>2. \A d, e \in x.cards : f[d] = f[e] => d = e
    BY <1>6
  <2> HIDE DEF f, lines
  <2> QED BY <1>9, <2>1, <2>2, SameSize
<1>11. Cardinality(ticked) = Cardinality(have) /\ IsFiniteSet(ticked)
  <2>1. g \in [have -> ticked] /\ \A l \in ticked : \E e \in have : g[e] = l
    BY <1>8
  <2>2. \A d, e \in have : g[d] = g[e] => d = e
    BY <1>6, <1>8
  <2> HIDE DEF g, have, ticked
  <2> QED BY <1>9, <2>1, <2>2, SameSize
<1>12. Cardinality(have) <= Cardinality(mine)
  <2>1. ASSUME NEW e \in have
        PROVE  \E c \in mine : KeysOf(p, e.no) \cap KeysOf(p, c.no) # {}
    BY <1>4, <1>5 DEF Had
  <2>2. \A e \in have : h[e] \in mine /\ KeysOf(p, e.no) \cap KeysOf(p, h[e].no) # {}
    BY <2>1
  <2>3. h \in [have -> mine]
    BY <2>2
  <2>4. ASSUME NEW d \in have, NEW e \in have, h[d] = h[e] PROVE d = e
    <3>1. \A a, b \in KeysOf(p, h[d].no) : a = b
      BY OneKeyEach
    <3>2. /\ KeysOf(p, d.no) \cap KeysOf(p, h[d].no) # {}
          /\ KeysOf(p, e.no) \cap KeysOf(p, h[d].no) # {}
      BY <2>2, <2>4
    <3>3. KeysOf(p, d.no) \cap KeysOf(p, e.no) # {}
      BY <3>1, <3>2
    <3>4. d \in x.cards /\ e \in x.cards
      BY DEF Had
    <3> QED BY <1>3, <3>3, <3>4
  <2> HIDE DEF h, have
  <2>5. h \in Injection(have, mine)
    BY <2>3, <2>4, Fun_IsInj
  <2> QED BY <2>5, FS_Injection
<1> HIDE DEF lines, have, ticked
<1> QED BY <1>1, <1>2, <1>10, <1>11, <1>12 DEF CountsAgree, have, ticked

\* So do the tile and the checklist of the records that count for a set.
LEMMA CountsOfASet ==
    ASSUME NEW p, NEW packs, IsCatalogue(p, packs), NEW keysOf, KeysAreOf(keysOf, p, packs),
           NEW cards, IsFiniteSet(cards), NEW setOf, NEW keysOfCards,
           \A c \in cards : keysOfCards[c.no] = KeysOf(p, c.no),
           NEW t \in Tiles(OwnedBySet(cards, setOf, keysOfCards), packs, keysOf),
           NEW mine, mine = CountedFor(t.id, cards, setOf)
    PROVE  CountsAgree(t, Checklist(packs, t.id, KeysFrom(p, mine), keysOf), mine)
<1> DEFINE owned == OwnedBySet(cards, setOf, keysOfCards)
<1>1. PICK x \in packs : t = TileOf(x, owned[x.id], keysOf) /\ x.id \in DOMAIN owned
  BY TileOfAPack
<1>2. t.id \in DOMAIN owned /\ t \in Tiles(owned, packs, keysOf)
  BY <1>1 DEF TileOf
<1>3. owned[t.id] = UNION {keysOfCards[c.no] : c \in mine}
  BY <1>2, OwnedOfASet DEF CountedFor
<1>4. owned[t.id] = KeysFrom(p, mine)
  BY <1>3 DEF KeysFrom, CountedFor
<1>5. IsFiniteSet(mine)
  BY FS_Subset DEF CountedFor
<1> HIDE DEF owned
<1>6. CountsAgree(t, Checklist(packs, t.id, owned[t.id], keysOf), mine)
  BY <1>2, <1>4, <1>5, TileIsItsChecklist
<1> QED BY <1>4, <1>6

-----------------------------------------------------------------------------
\* A tab that counts by catalogues, and holds records as they are read.
CanCount(t) ==
    /\ t.game \in Games \ {"Magic"} /\ IsFiniteSet(t.cards)
    /\ \A c \in t.cards : IsRecord(c, PartsIn(t.game)) /\ LoadCard(c) = c
    /\ \A p \in PartsIn(t.game) : IsCatalogue(p, Packs(t)[p])

\* The records of the tab that may tick a line of the set.
Mine(t, row) ==
    {c \in t.cards : c.region = row[1] /\ c.set = row[2].id /\ t.lang \in {All, c.lang}}

RowCounts(t, row) == CountsAgree(row[2], Lines(t, row[1], row[2].id), Mine(t, row))

\* So do a row and its checklist, where the tab computes them from the same cards.
LEMMA RowOfAPart ==
    ASSUME NEW t, NEW p, NEW row, row = <<p, row[2]>>,
           IsCatalogue(p, Packs(t)[p]), IsFiniteSet(t.cards),
           NEW keysOf, KeysAreOf(keysOf, p, Packs(t)[p]),
           NEW cards, cards \subseteq t.cards, NEW setOf, NEW keysOfCards,
           \A c \in cards : keysOfCards[c.no] = KeysOf(p, c.no),
           row[2] \in Tiles(OwnedBySet(cards, setOf, keysOfCards), Packs(t)[p], keysOf),
           Mine(t, row) = CountedFor(row[2].id, cards, setOf),
           Lines(t, p, row[2].id)
             = Checklist(Packs(t)[p], row[2].id, KeysFrom(p, Mine(t, row)), keysOf)
    PROVE  RowCounts(t, row)
<1>1. row[1] = p
  OBVIOUS
<1>2. IsFiniteSet(cards)
  BY FS_Subset
<1>3. CountsAgree(row[2], Checklist(Packs(t)[p], row[2].id, KeysFrom(p, Mine(t, row)), keysOf), Mine(t, row))
  BY <1>2, CountsOfASet
<1> QED BY <1>1, <1>3 DEF RowCounts

\* The tabs of one part.
LEMMA YuGiOhCounts ==
    ASSUME NEW t, CanCount(t), t.game = "YuGiOh", NEW row \in RowsOfTab(t) PROVE RowCounts(t, row)
<1> DEFINE p == "YuGiOh"
           packs == Packs(t)[p]
           cards == Passing(t.cards, t.lang)
           keysOf == YgoKeysOf(NumbersIn(packs))
<1>1. row = <<p, row[2]>> /\ row[2] \in YuGiOhTiles(t.cards, packs, t.lang)
  BY DEF RowsOfTab, YuGiOhRows
<1>2. \A c \in t.cards : c.region = p
  BY PartsOfGames DEF CanCount, IsRecord
<1>3. IsCatalogue(p, packs) /\ IsFiniteSet(t.cards)
  BY PartsOfGames DEF CanCount
<1>4. cards \subseteq t.cards
  BY DEF Passing
<1>5. KeysAreOf(keysOf, p, packs)
  BY DEF KeysAreOf, YgoKeysOf, NumbersIn, NumbersOf, KeysOf
<1>6. \A c \in cards : YgoKeysOf(NumbersOf(cards))[c.no] = KeysOf(p, c.no)
  BY DEF YgoKeysOf, NumbersOf, KeysOf
<1>7. row[2] \in Tiles(OwnedBySet(cards, OwnSet(cards), YgoKeysOf(NumbersOf(cards))), packs, keysOf)
  BY <1>1 DEF YuGiOhTiles
<1>8. Mine(t, row) = OfSet(cards, row[2].id)
  BY <1>1, <1>2 DEF Mine, OfSet, Passing
<1>9. OfSet(cards, row[2].id) = CountedFor(row[2].id, cards, OwnSet(cards))
  BY DEF CountedFor, OfSet, OwnSet
<1>10. Lines(t, p, row[2].id)
         = Checklist(packs, row[2].id, KeysFrom(p, OfSet(cards, row[2].id)), keysOf)
  BY DEF Lines, YuGiOhLines, YuGiOhChecklist, KeysOf, KeysFrom
<1> HIDE DEF keysOf, cards
<1> QED BY <1>1, <1>3, <1>4, <1>5, <1>6, <1>7, <1>8, <1>9, <1>10, RowOfAPart

LEMMA BandaiCounts ==
    ASSUME NEW t, CanCount(t), t.game = "Bandai", NEW row \in RowsOfTab(t) PROVE RowCounts(t, row)
<1> DEFINE p == "Bandai"
           packs == Packs(t)[p]
           cards == Passing(t.cards, t.lang)
           keysOf == BandaiKeysOf(NumbersIn(packs))
<1>1. row = <<p, row[2]>> /\ row[2] \in BandaiTiles(t.cards, packs, t.lang)
  BY DEF RowsOfTab, BandaiRows
<1>2. \A c \in t.cards : c.region = p
  BY PartsOfGames DEF CanCount, IsRecord
<1>3. IsCatalogue(p, packs) /\ IsFiniteSet(t.cards)
  BY PartsOfGames DEF CanCount
<1>4. cards \subseteq t.cards
  BY DEF Passing
<1>5. KeysAreOf(keysOf, p, packs)
  BY DEF KeysAreOf, BandaiKeysOf, NumbersIn, NumbersOf, KeysOf
<1>6. \A c \in cards : BandaiKeysOf(NumbersOf(cards))[c.no] = KeysOf(p, c.no)
  BY DEF BandaiKeysOf, NumbersOf, KeysOf
<1>7. row[2] \in Tiles(OwnedBySet(cards, OwnSet(cards), BandaiKeysOf(NumbersOf(cards))), packs, keysOf)
  BY <1>1 DEF BandaiTiles
<1>8. Mine(t, row) = OfSet(cards, row[2].id)
  BY <1>1, <1>2 DEF Mine, OfSet, Passing
<1>9. OfSet(cards, row[2].id) = CountedFor(row[2].id, cards, OwnSet(cards))
  BY DEF CountedFor, OfSet, OwnSet
<1>10. Lines(t, p, row[2].id)
         = Checklist(packs, row[2].id, KeysFrom(p, OfSet(cards, row[2].id)), keysOf)
  BY DEF Lines, BandaiLines, BandaiChecklist, KeysOf, KeysFrom
<1> HIDE DEF keysOf, cards
<1> QED BY <1>1, <1>3, <1>4, <1>5, <1>6, <1>7, <1>8, <1>9, <1>10, RowOfAPart

LEMMA DigiCounts ==
    ASSUME NEW t, CanCount(t), t.game = "Digi", NEW row \in RowsOfTab(t) PROVE RowCounts(t, row)
<1> DEFINE p == "Digi"
           packs == Packs(t)[p]
           cards == Passing(t.cards, t.lang)
           keysOf == DigiKeysOf(NumbersIn(packs))
<1>1. row = <<p, row[2]>> /\ row[2] \in DigiTiles(t.cards, packs, t.lang)
  BY DEF RowsOfTab, DigiRows
<1>2. \A c \in t.cards : c.region = p
  BY PartsOfGames DEF CanCount, IsRecord
<1>3. IsCatalogue(p, packs) /\ IsFiniteSet(t.cards)
  BY PartsOfGames DEF CanCount
<1>4. cards \subseteq t.cards
  BY DEF Passing
<1>5. KeysAreOf(keysOf, p, packs)
  BY DEF KeysAreOf, DigiKeysOf, NumbersIn, NumbersOf, KeysOf
<1>6. \A c \in cards : DigiKeysOf(NumbersOf(cards))[c.no] = KeysOf(p, c.no)
  BY DEF DigiKeysOf, NumbersOf, KeysOf
<1>7. row[2] \in Tiles(OwnedBySet(cards, OwnSet(cards), DigiKeysOf(NumbersOf(cards))), packs, keysOf)
  BY <1>1 DEF DigiTiles
<1>8. Mine(t, row) = OfSet(cards, row[2].id)
  BY <1>1, <1>2 DEF Mine, OfSet, Passing
<1>9. OfSet(cards, row[2].id) = CountedFor(row[2].id, cards, OwnSet(cards))
  BY DEF CountedFor, OfSet, OwnSet
<1>10. Lines(t, p, row[2].id)
         = Checklist(packs, row[2].id, KeysFrom(p, OfSet(cards, row[2].id)), keysOf)
  BY DEF Lines, DigiLines, DigiChecklist, KeysOf, KeysFrom
<1> HIDE DEF keysOf, cards
<1> QED BY <1>1, <1>3, <1>4, <1>5, <1>6, <1>7, <1>8, <1>9, <1>10, RowOfAPart

\* The regions apart, western sets by their present ids.
LEMMA PokemonCounts ==
    ASSUME NEW t, CanCount(t), t.game = "Pokemon", NEW row \in RowsOfTab(t) PROVE RowCounts(t, row)
<1>1. PICK p \in {"West", "Asia"} : row \in {<<p, x>> : x \in PokemonTiles(t.cards, Packs(t), p, t.lang)}
  BY DEF RowsOfTab, PokemonRows
<1> DEFINE packs == Packs(t)[p]
           cards == OfRegion(Passing(t.cards, t.lang), p)
           keysOf == WestKeysOf(NumbersIn(packs))
           setOf == PokemonSetOf(cards, p)
           keysOfCards == WestKeysOf(NumbersOf(cards))
           owned == OwnedBySet(cards, setOf, keysOfCards)
           want == IF p = "West" THEN CanonicalizeWestSetId(row[2].id) ELSE row[2].id
<1>2. row = <<p, row[2]>> /\ row[2] \in Tiles(owned, packs, keysOf)
  BY <1>1 DEF PokemonTiles, PokemonOwned
<1>3. IsCatalogue(p, packs) /\ IsFiniteSet(t.cards)
  BY PartsOfGames DEF CanCount
<1>4. cards = {c \in Passing(t.cards, t.lang) : c.region = p} /\ cards \subseteq t.cards
  BY AllAssumption DEF OfRegion, Passing
<1>5. KeysAreOf(keysOf, p, packs)
  BY DEF KeysAreOf, WestKeysOf, NumbersIn, NumbersOf, KeysOf
<1>6. \A c \in cards : keysOfCards[c.no] = KeysOf(p, c.no)
  BY DEF WestKeysOf, NumbersOf, KeysOf
<1>7. \A c \in cards : setOf[c] = c.set
  <2>1. ASSUME NEW c \in cards, p = "West" PROVE CanonicalizeWestSetId(c.set) = c.set
    <3>1. c.region = "West" /\ LoadCard(c) = c /\ IsRecord(c, PartsIn(t.game))
      BY <1>4, <2>1 DEF CanCount
    <3>2. c = [c EXCEPT !.set = CanonicalizeWestSetId(c.set)]
      BY <3>1 DEF LoadCard
    <3> QED BY <3>1, <3>2 DEF IsRecord
  <2> QED BY <2>1 DEF PokemonSetOf, WestSet, OwnSet
<1>8. \A c \in cards : PokemonSetOf({c}, p)[c] = setOf[c]
  BY DEF PokemonSetOf, WestSet, OwnSet
<1>9. want = row[2].id
  <2>1. PICK x \in packs : row[2] = TileOf(x, owned[x.id], keysOf) /\ x.id \in DOMAIN owned
    BY <1>2, TileOfAPack
  <2>2. row[2].id \in DOMAIN owned
    BY <2>1 DEF TileOf
  <2>3. PICK c \in cards : setOf[c] = row[2].id
    BY <2>2 DEF OwnedBySet
  <2>4. p = "West" => row[2].id = CanonicalizeWestSetId(c.set)
    BY <2>3 DEF PokemonSetOf, WestSet
  <2>5. p = "West" => CanonicalizeWestSetId(row[2].id) = row[2].id
    BY <2>4, AliasesAssumption DEF CanonicalizeWestSetId
  <2> QED BY <2>5
<1>10. Mine(t, row) = OfSet(cards, row[2].id)
  BY <1>2, <1>4 DEF Mine, OfSet, Passing
<1>11. OfSet(cards, row[2].id) = CountedFor(row[2].id, cards, setOf)
  BY <1>7 DEF OfSet, CountedFor
<1>12. {c \in cards : PokemonSetOf({c}, p)[c] = want} = OfSet(cards, row[2].id)
  BY <1>7, <1>8, <1>9 DEF OfSet
<1>13. Lines(t, p, row[2].id)
         = Checklist(packs, row[2].id, KeysFrom(p, OfSet(cards, row[2].id)), keysOf)
  BY <1>9, <1>12 DEF Lines, PokemonLines, PokemonChecklist, KeysOf, KeysFrom
<1> HIDE DEF keysOf, cards, setOf, keysOfCards, want
<1>14. row[2] \in Tiles(OwnedBySet(cards, setOf, keysOfCards), packs, keysOf)
  BY <1>2
<1>15. Mine(t, row) = CountedFor(row[2].id, cards, setOf)
  BY <1>10, <1>11
<1>16. Lines(t, p, row[2].id) = Checklist(packs, row[2].id, KeysFrom(p, Mine(t, row)), keysOf)
  BY <1>10, <1>13
<1> HIDE DEF owned
<1> QED BY <1>2, <1>3, <1>4, <1>5, <1>6, <1>14, <1>15, <1>16, RowOfAPart

\* So do the rows of any tab.
LEMMA CountsOfATab == ASSUME NEW t, CanCount(t), NEW row \in RowsOfTab(t) PROVE RowCounts(t, row)
BY YuGiOhCounts, BandaiCounts, DigiCounts, PokemonCounts DEF CanCount, Games

-----------------------------------------------------------------------------
(***************************************************************************)
(* What the sources fetch: catalogues to count by.                         *)
(***************************************************************************)

\* What a list holds is finite.
LEMMA ListIsFinite == ASSUME NEW X, NEW s \in Seq(X) PROVE IsFiniteSet(ToSet(s))
<1>1. DOMAIN s = 1 .. Len(s) /\ Len(s) \in Nat
  OBVIOUS
<1>2. IsFiniteSet(DOMAIN s)
  BY <1>1, FS_Interval
<1> QED BY <1>2, ValuesAreFinite DEF ToSet, Range

\* The cards of a pack, and packs of such cards with each set once, are a catalogue.
Countable(p, cards) ==
    /\ IsFiniteSet(cards)
    /\ \A d, e \in cards : d.no = e.no \/ KeysOf(p, d.no) \cap KeysOf(p, e.no) # {} => d = e
LEMMA PacksAreACatalogue ==
    ASSUME NEW p, NEW packs, \A x, y \in packs : x.id = y.id => x = y, \A x \in packs : Countable(p, x.cards)
    PROVE  IsCatalogue(p, packs)
BY DEF IsCatalogue, Countable

\* Cards whose numbers differ and are what they count by.
Numbered(p, cards) ==
    /\ IsFiniteSet(cards)
    /\ \A e \in cards : KeysOf(p, e.no) \subseteq {e.no}
    /\ \A d, e \in cards : d.no = e.no => d = e
LEMMA NumberedAreCountable == ASSUME NEW p, NEW cards, Numbered(p, cards) PROVE Countable(p, cards)
BY DEF Numbered, Countable

\* Each number once, of entries that were there.
LEMMA NumbersAreOnce ==
    ASSUME NEW X, NEW s \in Seq(X)
    PROVE  /\ IsFiniteSet(ToSet(EachNumberOnce(s))) /\ ToSet(EachNumberOnce(s)) \subseteq ToSet(s)
           /\ \A d, e \in ToSet(EachNumberOnce(s)) : d.no = e.no => d = e
<1> DEFINE S == {e \in ToSet(s) : e.no # NoNumber}
           kept == KeepIn(s, S)
           K == [n \in DOMAIN kept |-> kept[n].no]
           t == Firsts(kept, K)
<1>1. kept \in Seq(X) /\ \A i \in DOMAIN kept : kept[i] \in S
  BY KeptWasThere
<1>2. EachNumberOnce(s) = FirstOfEach(kept, NoOf)
  BY DEF EachNumberOnce
<1>3. S \subseteq ToSet(s)
  OBVIOUS
<1> HIDE DEF kept, S
<1>4. FirstOfEach(kept, NoOf) = t
  <2>1. \A n \in DOMAIN kept : \A m \in 1 .. n - 1 : m \in DOMAIN kept
    BY <1>1
  <2>2. {n \in DOMAIN kept : \A m \in 1 .. n - 1 : K[m] # K[n]} =
          {n \in DOMAIN kept : \A m \in 1 .. n - 1 : NoOf(kept[m]) # NoOf(kept[n])}
    BY <2>1 DEF NoOf
  <2> QED BY <2>2 DEF Firsts, FirstOfEach
<1>5. \A n \in DOMAIN kept : K[n] = kept[n].no
  OBVIOUS
<1> HIDE DEF K
<1>6. /\ t \in Seq(X)
      /\ \A i \in DOMAIN t : \E m \in DOMAIN kept : t[i] = kept[m]
      /\ \A i, j \in DOMAIN t :
           i # j => \E m, n \in DOMAIN kept : t[i] = kept[m] /\ t[j] = kept[n] /\ K[m] # K[n]
  BY <1>1, FirstsDiffer
<1> HIDE DEF t
<1>7. ASSUME NEW i \in DOMAIN t, NEW j \in DOMAIN t, t[i].no = t[j].no PROVE t[i] = t[j]
  <2> SUFFICES ASSUME i # j PROVE FALSE
    OBVIOUS
  <2>1. PICK m, n \in DOMAIN kept : t[i] = kept[m] /\ t[j] = kept[n] /\ K[m] # K[n]
    BY <1>6
  <2> QED BY <1>5, <1>7, <2>1
<1>8. \A d, e \in ToSet(t) : d.no = e.no => d = e
  BY <1>7 DEF ToSet, Range
<1>9. ToSet(t) \subseteq ToSet(s)
  <2> SUFFICES ASSUME NEW i \in DOMAIN t PROVE t[i] \in ToSet(s)
    BY DEF ToSet, Range
  <2> QED BY <1>1, <1>3, <1>6
<1> QED BY <1>2, <1>4, <1>6, <1>8, <1>9, ListIsFinite

-----------------------------------------------------------------------------
\* Pokémon.

IsEntry(e) == e = [no |-> e.no, name |-> e.name, rarity |-> e.rarity]

\* A number that was cut counts as it stands.
LEMMA CutOnce == ASSUME NEW n PROVE WithoutTotal(WithoutTotal(n)) = WithoutTotal(n)
BY DEF WithoutTotal

LEMMA CutNumbersCount ==
    ASSUME NEW p \in {"West", "Asia"}, NEW n PROVE KeysOf(p, WithoutTotal(n)) \subseteq {WithoutTotal(n)}
BY CutOnce DEF KeysOf, WestKeys

LEMMA RowsAreNumbered ==
    ASSUME NEW rows, IsList(rows)
    PROVE  LET cards == ToSet(NumberedOnce(rows))
           IN  /\ IsFiniteSet(cards) /\ \A d, e \in cards : d.no = e.no => d = e
               /\ \A e \in cards : IsEntry(e) /\ \E n : e.no = WithoutTotal(n)
<1> DEFINE Cut(r) == Entry(r, WithoutTotal(r.no))
           X == {Cut(r) : r \in ToSet(rows)}
           s == [i \in DOMAIN rows |-> Cut(rows[i])]
<1>1. DOMAIN rows = 1 .. Len(rows) /\ Len(rows) \in Nat /\ \A i \in DOMAIN rows : rows[i] \in ToSet(rows)
  BY DEF IsList
<1>2. s \in Seq(X)
  <2>1. \A i \in 1 .. Len(rows) : s[i] \in X
    BY <1>1
  <2>2. s = [i \in 1 .. Len(rows) |-> s[i]]
    BY <1>1
  <2> HIDE DEF s, X
  <2> QED BY <1>1, <2>1, <2>2
<1>3. \A e \in ToSet(s) : e \in X
  BY <1>1 DEF ToSet, Range
<1>4. \A e \in X : IsEntry(e) /\ \E n : e.no = WithoutTotal(n)
  BY DEF IsEntry, Entry
<1>5. NumberedOnce(rows) = EachNumberOnce(s)
  BY DEF NumberedOnce
<1> HIDE DEF s, X
<1> QED BY <1>2, <1>3, <1>4, <1>5, NumbersAreOnce

LEMMA WestIsACatalogue ==
    ASSUME NEW list, NEW details,
           Answered(list) => /\ EachSetOnce(ParseListResponse(list))
                             /\ \A s \in ParseListResponse(list) : HasRows(details[s.id])
    PROVE  IsCatalogue("West", PokemonFetch(list, details).packs)
<1> DEFINE sets == ParseListResponse(list)
           Pack(s) == ParseCatalogPackFromSetDetail(details[s.id], s)
           packs == {x \in {Pack(s) : s \in {y \in sets : Answered(details[y.id])}} : x.cards # {}}
<1>1. CASE ~ Answered(list)
  BY <1>1 DEF PokemonFetch, Failed, IsCatalogue
<1>2. CASE Answered(list)
  <2>1. PokemonFetch(list, details).packs = packs
    BY <1>2 DEF PokemonFetch, Fetched, NonEmpty
  <2>2. \A s : Pack(s).id = s.id /\ Pack(s).cards = ToSet(NumberedOnce(details[s.id].rows))
    BY DEF ParseCatalogPackFromSetDetail
  <2>3. ASSUME NEW x \in packs
        PROVE  \E s \in sets : x = Pack(s) /\ Answered(details[s.id])
    OBVIOUS
  <2> HIDE DEF sets, Pack, packs
  <2>4. ASSUME NEW x \in packs PROVE Countable("West", x.cards)
    <3>1. PICK s \in sets : x = Pack(s) /\ Answered(details[s.id])
      BY <2>3
    <3>2. IsList(details[s.id].rows)
      BY <1>2, <3>1 DEF HasRows, sets
    <3>3. x.cards = ToSet(NumberedOnce(details[s.id].rows))
      BY <2>2, <3>1
    <3>4. Numbered("West", x.cards)
      BY <3>2, <3>3, RowsAreNumbered, CutNumbersCount DEF Numbered
    <3> QED BY <3>4, NumberedAreCountable
  <2>5. ASSUME NEW x \in packs, NEW y \in packs, x.id = y.id PROVE x = y
    <3>1. PICK s \in sets : x = Pack(s)
      BY <2>3
    <3>2. PICK t \in sets : y = Pack(t)
      BY <2>3
    <3>3. s = t
      BY <1>2, <2>2, <2>5, <3>1, <3>2 DEF EachSetOnce, sets
    <3> QED BY <3>1, <3>2, <3>3
  <2> QED BY <2>1, <2>4, <2>5, PacksAreACatalogue
<1> QED BY <1>1, <1>2

\* The bundled catalogue has no print of a set twice.
LEMMA PrintsAreNumbered ==
    ASSUME NEW id
    PROVE  LET cards == CatalogPackFromEnCatalog(id)
           IN  /\ IsFiniteSet(cards) /\ \A d, e \in cards : d.no = e.no => d = e
               /\ \A e \in cards : IsEntry(e) /\ \E n : e.no = WithoutTotal(n)
<1> DEFINE S == {p \in Entries : p.set = id}
           s == PrintsForSet(id)
           f == [p \in ToSet(s) |-> EnEntry(p)]
           all == {f[p] : p \in DOMAIN f}
           cards == CatalogPackFromEnCatalog(id)
<1>1. s \in Seq(Entries) /\ \A i \in DOMAIN s : s[i] \in S
  <2>1. s = KeepIn(CatalogPrints, S)
    BY DEF PrintsForSet
  <2>2. CatalogPrints \in Seq(Entries)
    BY SourcesAssumption
  <2> HIDE DEF S, s
  <2>3. s \in Seq(Entries) /\ \A i \in 1 .. Len(s) : s[i] \in S
    BY <2>1, <2>2, KeptWasThere
  <2> QED BY <2>3
<1>2. ToSet(s) \subseteq S
  BY <1>1 DEF ToSet, Range
<1>3. IsFiniteSet(ToSet(s))
  BY <1>1, ListIsFinite
<1>4. \A p : EnEntry(p).no = WithoutTotal(p.no) /\ IsEntry(EnEntry(p))
  BY DEF EnEntry, IsEntry
<1>5. all = {EnEntry(p) : p \in ToSet(s)}
  OBVIOUS
<1>6. IsFiniteSet(all)
  <2>1. DOMAIN f = ToSet(s)
    OBVIOUS
  <2> HIDE DEF f
  <2> QED BY <1>3, <2>1, ValuesAreFinite
<1>7. cards = {e \in {EnEntry(p) : p \in ToSet(s)} : e.no # NoNumber}
  BY DEF CatalogPackFromEnCatalog
<1> HIDE DEF s, all, cards
<1>8. IsFiniteSet(cards)
  <2>1. cards \subseteq all
    BY <1>5, <1>7
  <2> QED BY <1>6, <2>1, FS_Subset
<1>9. \A e \in cards : \E p \in S : e = EnEntry(p)
  BY <1>2, <1>7
<1>10. ASSUME NEW d \in cards, NEW e \in cards, d.no = e.no PROVE d = e
  <2>1. PICK p \in S : d = EnEntry(p)
    BY <1>9
  <2>2. PICK q \in S : e = EnEntry(q)
    BY <1>9
  <2>3. p \in Entries /\ q \in Entries /\ p.set = q.set /\ WithoutTotal(p.no) = WithoutTotal(q.no)
    BY <1>4, <1>10, <2>1, <2>2
  <2>4. p = q
    BY <2>3, SourcesAssumption
  <2> QED BY <2>1, <2>2, <2>4
<1>11. \A e \in cards : IsEntry(e) /\ \E n : e.no = WithoutTotal(n)
  BY <1>4, <1>9
<1> QED BY <1>8, <1>10, <1>11 DEF cards

\* The pack of an Asian set: what is listed, in English, with the catalogue's besides.
LEMMA AsiaPackIsNumbered ==
    ASSUME NEW detail, HasRows(detail), NEW id
    PROVE  Countable("Asia", AsiaPackCards(detail, id))
<1> DEFINE listed == ToSet(NumberedOnce(detail.rows))
           f == [e \in listed |-> InEnglish(e, id)]
           cards == {f[e] : e \in DOMAIN f}
           more == CatalogPackFromEnCatalog(id)
           both == cards \cup {e \in more : \A c \in cards : c.no # e.no}
<1>1. /\ IsFiniteSet(more) /\ \A d, e \in more : d.no = e.no => d = e
      /\ \A e \in more : \E n : e.no = WithoutTotal(n)
  BY PrintsAreNumbered
<1> HIDE DEF more
<1>2. CASE Answered(detail) /\ detail.rows # <<>>
  <2>1. /\ IsFiniteSet(listed) /\ \A d, e \in listed : d.no = e.no => d = e
        /\ \A e \in listed : IsEntry(e) /\ \E n : e.no = WithoutTotal(n)
    BY <1>2, RowsAreNumbered DEF HasRows
  <2>2. AsiaPackCards(detail, id) = both
    BY <1>2 DEF AsiaPackCards, GapFillFromEnCatalog, more
  <2> HIDE DEF listed
  <2>3. \A e \in listed : f[e] = InEnglish(e, id)
    OBVIOUS
  <2>4. \A e \in listed : f[e].no = e.no
    BY <2>1, <2>3 DEF InEnglish, IsEntry
  <2>5. DOMAIN f = listed
    OBVIOUS
  <2> HIDE DEF f
  <2>6. IsFiniteSet(cards)
    BY <2>1, <2>5, ValuesAreFinite
  <2>7. \A e \in cards : \E x \in listed : e = f[x] /\ e.no = x.no
    BY <2>4, <2>5
  <2> HIDE DEF cards
  <2>8. \A d, e \in cards : d.no = e.no => d = e
    BY <2>1, <2>7
  <2>9. IsFiniteSet(both)
    <3>1. IsFiniteSet({e \in more : \A c \in cards : c.no # e.no})
      BY <1>1, FS_Subset
    <3> QED BY <2>6, <3>1, FS_Union
  <2>10. \A d, e \in both : d.no = e.no => d = e
    BY <1>1, <2>8
  <2>11. \A e \in both : KeysOf("Asia", e.no) \subseteq {e.no}
    <3>1. \A e \in both : \E n : e.no = WithoutTotal(n)
      BY <1>1, <2>1, <2>7
    <3> QED BY <3>1, CutNumbersCount
  <2> HIDE DEF both
  <2> QED BY <2>2, <2>9, <2>10, <2>11, NumberedAreCountable DEF Numbered
<1>3. CASE ~ (Answered(detail) /\ detail.rows # <<>>)
  <2>1. AsiaPackCards(detail, id) = more
    BY <1>3 DEF AsiaPackCards, more
  <2>2. Numbered("Asia", more)
    BY <1>1, CutNumbersCount DEF Numbered
  <2> QED BY <2>1, <2>2, NumberedAreCountable
<1> QED BY <1>2, <1>3

\* The Asian sets have one entry each, the added ones too.
LEMMA AsiaListsOnce ==
    ASSUME NEW list, EachSetOnce(ParseListResponse(list))
    PROVE  EachSetOnce(ParseAsiaList(list)) /\ \A s \in ParseAsiaList(list) : IsSet(s)
<1> DEFINE Named(s) == [s EXCEPT !.name = IF s.id \in DOMAIN NameOverrides THEN NameOverrides[s.id] ELSE @]
           raw == ParseListResponse(list)
           kept == {Named(s) : s \in {x \in raw : x.id \notin ChineseIds}}
           parsed == ParseAsiaList(list)
           M == MissingClassicProducts
<1>1. parsed = {s \in kept : \A p \in M : p.id # s.id} \cup M
  BY DEF ParseAsiaList, AppendMissingClassicProducts
<1>2. ASSUME NEW s \in raw PROVE IsSet(s)
  <2>1. PICK r \in ToSet(list) : s = [id |-> r.id, name |-> r.name, date |-> 0]
    BY DEF ParseListResponse
  <2> QED BY <2>1 DEF IsSet
<1>3. \A s : IsSet(s) => IsSet(Named(s)) /\ Named(s).id = s.id
  BY DEF IsSet
<1>4. \A s, t \in raw : s.id = t.id => s = t
  BY DEF EachSetOnce
<1> HIDE DEF raw, Named
<1>5. \A s \in kept : \E x \in raw : s = Named(x) /\ s.id = x.id /\ IsSet(s)
  BY <1>2, <1>3
<1> HIDE DEF kept, parsed
<1>6. \A s, t \in kept : s.id = t.id => s = t
  BY <1>4, <1>5
<1>7. \A s, t \in M : s.id = t.id => s = t
  BY SourcesAssumption
<1>8. \A s, t \in parsed : s.id = t.id => s = t
  BY <1>1, <1>6, <1>7
<1>9. \A s \in parsed : IsSet(s)
  BY <1>1, <1>5, TabsAssumption
<1> QED BY <1>8, <1>9 DEF EachSetOnce, parsed

LEMMA AsiaIsACatalogue ==
    ASSUME NEW list, NEW details,
           Answered(list) => /\ EachSetOnce(ParseListResponse(list))
                             /\ \A s \in ParseAsiaList(list) : HasRows(details[s.id])
    PROVE  IsCatalogue("Asia", JapanesePokemonFetch(list, details).packs)
<1> DEFINE parsed == ParseAsiaList(list)
           sets == {ApplyEnglishSetName(s) : s \in parsed}
           Pack(s) == [id |-> s.id, name |-> s.name, cards |-> AsiaPackCards(details[s.id], s.id)]
           packs == {x \in {Pack(s) : s \in sets} : x.cards # {}}
<1>1. CASE ~ Answered(list)
  BY <1>1 DEF JapanesePokemonFetch, Failed, IsCatalogue
<1>2. CASE Answered(list)
  <2>1. JapanesePokemonFetch(list, details).packs = packs
    BY <1>2 DEF JapanesePokemonFetch, Fetched, NonEmpty
  <2>2. \A s : Pack(s).id = s.id /\ Pack(s).cards = AsiaPackCards(details[s.id], s.id)
    OBVIOUS
  <2>3. \A x \in packs : \E s \in parsed : x = Pack(ApplyEnglishSetName(s))
    OBVIOUS
  <2>4. EachSetOnce(parsed) /\ \A s \in parsed : IsSet(s) /\ HasRows(details[s.id])
    BY <1>2, AsiaListsOnce
  <2> HIDE DEF parsed, Pack, packs
  <2>5. \A s \in parsed : ApplyEnglishSetName(s).id = s.id
    BY <2>4, EnglishNames
  <2>6. \A x \in packs : \E s \in parsed :
          x = Pack(ApplyEnglishSetName(s)) /\ x.id = s.id /\ x.cards = AsiaPackCards(details[s.id], s.id)
    BY <2>2, <2>3, <2>5
  <2>7. \A x \in packs : Countable("Asia", x.cards)
    BY <2>4, <2>6, AsiaPackIsNumbered
  <2>8. ASSUME NEW x \in packs, NEW y \in packs, x.id = y.id PROVE x = y
    <3>1. PICK s \in parsed : x = Pack(ApplyEnglishSetName(s)) /\ x.id = s.id
      BY <2>6
    <3>2. PICK t \in parsed : y = Pack(ApplyEnglishSetName(t)) /\ y.id = t.id
      BY <2>6
    <3>3. s = t
      BY <2>4, <2>8, <3>1, <3>2 DEF EachSetOnce
    <3> QED BY <3>1, <3>2, <3>3
  <2> QED BY <2>1, <2>7, <2>8, PacksAreACatalogue
<1> QED BY <1>1, <1>2

-----------------------------------------------------------------------------
\* Bandai.

\* A number that was normalised counts as it stands.
LEMMA BandaiNumbersCount ==
    ASSUME NEW n \in Numbers PROVE KeysOf("Bandai", NormalizeCardNumber(n)) \subseteq {NormalizeCardNumber(n)}
<1>1. n \in [pre : STRING, val : Nat, pad : BOOLEAN, total : BOOLEAN]
  BY DEF Numbers
<1>2. NormalizeCardNumber(NormalizeCardNumber(n)) = NormalizeCardNumber(n)
  BY <1>1 DEF NormalizeCardNumber
<1> QED BY <1>2 DEF KeysOf, BandaiKeys

LEMMA GalleryIsNumbered ==
    ASSUME NEW rows, IsList(rows), HasNumbers(rows)
    PROVE  Numbered("Bandai", ToSet(ParseGalleryWikitext(rows)))
<1> DEFINE X == {Entry(rows[i], NormalizeCardNumber(rows[i].no)) : i \in DOMAIN rows}
           s == [i \in DOMAIN rows |-> Entry(rows[i], NormalizeCardNumber(rows[i].no))]
           S == {e \in ToSet(s) : e.name # ""}
           named == KeepIn(s, S)
           cards == ToSet(EachNumberOnce(named))
<1>1. DOMAIN rows = 1 .. Len(rows) /\ Len(rows) \in Nat
  BY DEF IsList
<1>2. s \in Seq(X)
  <2>1. \A i \in 1 .. Len(rows) : s[i] \in X
    BY <1>1
  <2>2. s = [i \in 1 .. Len(rows) |-> s[i]]
    BY <1>1
  <2> HIDE DEF s, X
  <2> QED BY <1>1, <2>1, <2>2
<1>3. \A e \in X : \E n \in Numbers : e.no = NormalizeCardNumber(n)
  BY DEF Entry, HasNumbers
<1>4. ParseGalleryWikitext(rows) = EachNumberOnce(named)
  BY DEF ParseGalleryWikitext
<1> HIDE DEF s, X, S
<1>5. named \in Seq(X)
  BY <1>2, KeptWasThere
<1>6. ToSet(named) \subseteq X
  BY <1>5 DEF ToSet, Range
<1> HIDE DEF named
<1>7. IsFiniteSet(cards) /\ cards \subseteq X /\ \A d, e \in cards : d.no = e.no => d = e
  BY <1>5, <1>6, NumbersAreOnce
<1> HIDE DEF cards
<1>8. Numbered("Bandai", cards)
  BY <1>3, <1>7, BandaiNumbersCount DEF Numbered
<1> QED BY <1>4, <1>8 DEF cards

LEMMA BandaiIsACatalogue ==
    ASSUME NEW pages,
           \A e \in SetManifest : Answered(pages[e.page]) => IsList(pages[e.page]) /\ HasNumbers(pages[e.page])
    PROVE  IsCatalogue("Bandai", BandaiFetch(pages).packs)
<1> DEFINE Cards(e) == {c \in ToSet(ParseGalleryWikitext(pages[e.page])) : e.prefix = "" \/ c.no.pre = e.prefix}
           Pack(e) == [id |-> e.id, name |-> e.name, cards |-> Cards(e)]
           packs == {Pack(e) : e \in SetManifest}
<1>1. CASE \E e \in SetManifest : ~ Answered(pages[e.page])
  BY <1>1 DEF BandaiFetch, Failed, IsCatalogue
<1>2. CASE \A e \in SetManifest : Answered(pages[e.page])
  <2>1. BandaiFetch(pages).packs = packs
    BY <1>2 DEF BandaiFetch, Fetched
  <2>2. \A e : Pack(e).id = e.id /\ Pack(e).cards = Cards(e)
    OBVIOUS
  <2>3. ASSUME NEW e \in SetManifest PROVE Countable("Bandai", Cards(e))
    <3> DEFINE all == ToSet(ParseGalleryWikitext(pages[e.page]))
    <3>1. Numbered("Bandai", all)
      BY <1>2, GalleryIsNumbered
    <3>2. Cards(e) \subseteq all
      OBVIOUS
    <3> HIDE DEF all, Cards
    <3>3. Numbered("Bandai", Cards(e))
      BY <3>1, <3>2, FS_Subset DEF Numbered
    <3> QED BY <3>3, NumberedAreCountable
  <2> HIDE DEF Cards, Pack
  <2>4. \A x \in packs : Countable("Bandai", x.cards)
    BY <2>2, <2>3
  <2>5. \A x, y \in packs : x.id = y.id => x = y
    <3>1. \A s, t \in SetManifest : s.id = t.id => s = t
      BY SourcesAssumption
    <3> QED BY <2>2, <3>1
  <2> HIDE DEF packs
  <2> QED BY <2>1, <2>4, <2>5, PacksAreACatalogue
<1> QED BY <1>1, <1>2

-----------------------------------------------------------------------------
\* Digi-Battle.

LEMMA DigiNumbersCount ==
    ASSUME NEW n \in Numbers PROVE KeysOf("Digi", DigiNormalize(n)) \subseteq {DigiNormalize(n)}
<1>1. n = [pre |-> n.pre, val |-> n.val, pad |-> n.pad, total |-> n.total]
  BY DEF Numbers
<1>2. DigiNormalize(DigiNormalize(n)) = DigiNormalize(n)
  <2>1. CASE n.pre \in DOMAIN UpperCase
    <3>1. DigiNormalize(n) = [pre |-> UpperCase[n.pre], val |-> n.val, pad |-> n.pad, total |-> n.total]
      BY <1>1, <2>1 DEF DigiNormalize
    <3>2. \A pre \in DOMAIN UpperCase : UpperCase[pre] \notin DOMAIN UpperCase
      BY SourcesAssumption
    <3>3. DigiNormalize(n).pre \notin DOMAIN UpperCase
      BY <2>1, <3>1, <3>2
    <3> QED BY <3>3 DEF DigiNormalize
  <2>2. CASE n.pre \notin DOMAIN UpperCase
    BY <2>2 DEF DigiNormalize
  <2> QED BY <2>1, <2>2
<1> QED BY <1>2 DEF KeysOf, DigiKeys

LEMMA DigiIsACatalogue ==
    ASSUME NEW reply,
           Answered(reply) => IsList(reply) /\ HasNumbers(reply) /\ PackNames(reply) \subseteq DOMAIN Slugs
    PROVE  IsCatalogue("Digi", DigiFetch(reply).packs)
<1> DEFINE E(i) == [Entry(reply[i], DigiNormalize(reply[i].no)) EXCEPT !.rarity = ""]
           entries == [i \in DOMAIN reply |-> E(i)]
           InPack(name) == {i \in DOMAIN reply : name \in reply[i].packs /\ reply[i].no # NoNumber}
           First(name) == {i \in InPack(name) : \A j \in InPack(name) : j < i => entries[j].no # entries[i].no}
           Pack(name) == [id |-> Slugs[name], name |-> name, cards |-> {entries[i] : i \in First(name)}]
           names == {x \in PackNames(reply) : InPack(x) # {} /\ Slugs[x] # ""}
           packs == {Pack(name) : name \in names}
<1>1. CASE ~ Answered(reply)
  BY <1>1 DEF DigiFetch, Failed, IsCatalogue
<1>2. CASE Answered(reply)
  <2>1. DigiFetch(reply).packs = packs
    BY <1>2 DEF DigiFetch, Fetched, DigiParseCatalog
  <2>2. \A name : Pack(name).id = Slugs[name] /\ Pack(name).cards = {entries[i] : i \in First(name)}
    OBVIOUS
  <2>3. names \subseteq DOMAIN Slugs /\ \A x \in names : Slugs[x] # ""
    BY <1>2
  <2>4. DOMAIN reply = 1 .. Len(reply) /\ Len(reply) \in Nat
    BY <1>2 DEF IsList
  <2>5. \A i \in DOMAIN reply : entries[i].no = DigiNormalize(reply[i].no) /\ reply[i].no \in Numbers
    BY <1>2 DEF HasNumbers, Entry
  <2>6. \A name : First(name) \subseteq DOMAIN reply
    OBVIOUS
  <2>7. \A name : \A i, j \in First(name) : j < i => entries[j].no # entries[i].no
    OBVIOUS
  <2> HIDE DEF entries, First, names
  <2>8. ASSUME NEW name PROVE Countable("Digi", Pack(name).cards)
    <3> DEFINE cards == {entries[i] : i \in First(name)}
               f == [i \in First(name) |-> entries[i]]
    <3>1. IsFiniteSet(First(name))
      <4>1. IsFiniteSet(DOMAIN reply)
        BY <2>4, FS_Interval
      <4> QED BY <2>6, <4>1, FS_Subset
    <3>2. IsFiniteSet(cards)
      <4>1. DOMAIN f = First(name) /\ cards = {f[i] : i \in DOMAIN f}
        OBVIOUS
      <4> HIDE DEF f
      <4> QED BY <3>1, <4>1, ValuesAreFinite
    <3>3. \A d, e \in cards : d.no = e.no => d = e
      <4> SUFFICES ASSUME NEW i \in First(name), NEW j \in First(name), entries[i].no = entries[j].no
                   PROVE  entries[i] = entries[j]
        OBVIOUS
      <4>1. i \in Nat /\ j \in Nat
        BY <2>4, <2>6
      <4>2. ~ (i < j) /\ ~ (j < i)
        BY <2>7
      <4>3. i = j
        BY <4>1, <4>2
      <4> QED BY <4>3
    <3>4. \A e \in cards : KeysOf("Digi", e.no) \subseteq {e.no}
      BY <2>5, <2>6, DigiNumbersCount
    <3> HIDE DEF cards
    <3>5. Numbered("Digi", cards)
      BY <3>2, <3>3, <3>4 DEF Numbered
    <3> QED BY <2>2, <3>5, NumberedAreCountable DEF cards
  <2> HIDE DEF Pack
  <2>9. \A x \in packs : Countable("Digi", x.cards)
    BY <2>8
  <2>10. \A x, y \in packs : x.id = y.id => x = y
    <3>1. \A x, y \in DOMAIN Slugs : Slugs[x] = Slugs[y] /\ Slugs[x] # "" => x = y
      BY SourcesAssumption
    <3>2. ASSUME NEW m \in names, NEW n \in names, Pack(m).id = Pack(n).id PROVE Pack(m) = Pack(n)
      BY <2>2, <2>3, <3>1, <3>2
    <3> QED BY <3>2
  <2> HIDE DEF packs
  <2> QED BY <2>1, <2>9, <2>10, PacksAreACatalogue
<1> QED BY <1>1, <1>2

-----------------------------------------------------------------------------
\* Yu-Gi-Oh!

\* The entries some printings may have: a number, a name and a rarity of theirs.
EntriesOf(printings) ==
    [no : {r.no : r \in ToSet(printings)}, name : {r.name : r \in ToSet(printings)},
     rarity : {r.rarity : r \in ToSet(printings)}]

\* Rows of which each has a slot, and no two the same.
SlotsDiffer(cards, X) ==
    /\ cards \in Seq(X)
    /\ \A i \in DOMAIN cards : YgoSlotKeys(cards[i].no) # {}
    /\ \A i, j \in DOMAIN cards : YgoSlotKeys(cards[i].no) = YgoSlotKeys(cards[j].no) => i = j

LEMMA PrintingIsMerged ==
    ASSUME NEW printings, NEW p \in ToSet(printings), YgoSlotKeys(p.no) # {},
           NEW cards, SlotsDiffer(cards, EntriesOf(printings))
    PROVE  SlotsDiffer(MergePrinting(cards, p), EntriesOf(printings))
<1> DEFINE X == EntriesOf(printings)
           same == {i \in DOMAIN cards : YgoSlotKeys(cards[i].no) = YgoSlotKeys(p.no)}
           k == CHOOSE j \in same : TRUE
           prev == cards[k]
           Rated(e, r) == [no |-> e.no, name |-> e.name, rarity |-> r]
           merged == MergePrinting(cards, p)
<1>1. /\ cards \in Seq(X) /\ \A i \in DOMAIN cards : YgoSlotKeys(cards[i].no) # {} /\ cards[i] \in X
      /\ \A i, j \in DOMAIN cards : YgoSlotKeys(cards[i].no) = YgoSlotKeys(cards[j].no) => i = j
  BY DEF SlotsDiffer
<1>2. \A e \in X : e = Rated(e, e.rarity) /\ \E b \in ToSet(printings) : e.rarity = b.rarity
  BY DEF EntriesOf
<1>3. ASSUME NEW e \in X, NEW b \in ToSet(printings) PROVE Rated(e, b.rarity) \in X
  BY DEF EntriesOf
<1>4. Entry(p, p.no) = Rated(p, p.rarity) /\ \A b \in ToSet(printings) : Rated(p, b.rarity) \in X
  BY DEF EntriesOf, Entry
<1>5. \A e, r : Rated(e, r).no = e.no
  OBVIOUS
<1>6. CASE same = {}
  <2>1. merged = Append(cards, Rated(p, p.rarity))
    BY <1>4, <1>6 DEF MergePrinting
  <2> HIDE DEF X, Rated, merged
  <2>2. \A i \in DOMAIN cards : YgoSlotKeys(cards[i].no) # YgoSlotKeys(p.no)
    BY <1>6
  <2>3. merged \in Seq(X) /\ DOMAIN merged = 1 .. Len(cards) + 1 /\ Len(cards) \in Nat
        /\ DOMAIN cards = 1 .. Len(cards)
    BY <1>1, <1>4, <2>1
  <2>4. merged[Len(cards) + 1] = Rated(p, p.rarity) /\ \A i \in DOMAIN cards : merged[i] = cards[i]
    BY <1>1, <1>4, <2>1, <2>3
  <2>5. \A i \in DOMAIN merged : i \in DOMAIN cards \/ i = Len(cards) + 1
    BY <2>3
  <2>6. \A i \in DOMAIN merged : YgoSlotKeys(merged[i].no) # {}
    BY <1>1, <1>5, <2>4, <2>5
  <2>7. \A i, j \in DOMAIN merged : YgoSlotKeys(merged[i].no) = YgoSlotKeys(merged[j].no) => i = j
    BY <1>1, <1>5, <2>2, <2>4, <2>5
  <2> QED BY <2>3, <2>6, <2>7 DEF SlotsDiffer, X, merged
<1>7. CASE same # {}
  <2>1. k \in same
    BY <1>7
  <2>2. k \in DOMAIN cards /\ YgoSlotKeys(prev.no) = YgoSlotKeys(p.no) /\ prev \in X
    BY <1>1, <2>1
  <2>3. \E e \in X : merged = [cards EXCEPT ![k] = e] /\ YgoSlotKeys(e.no) = YgoSlotKeys(prev.no)
    <3>1. CASE ~ HasEnRegionInfix(prev.no) /\ HasEnRegionInfix(p.no)
      <4> DEFINE r == IF p.rarity # "" THEN p.rarity ELSE prev.rarity
      <4>1. merged = [cards EXCEPT ![k] = [Entry(p, p.no) EXCEPT !.rarity = r]]
        BY <1>7, <3>1 DEF MergePrinting
      <4>2. [Entry(p, p.no) EXCEPT !.rarity = r] = Rated(p, r)
        <5> HIDE DEF r
        <5> QED BY <1>4
      <4>3. \E b \in ToSet(printings) : r = b.rarity
        BY <1>2, <2>2
      <4> HIDE DEF r
      <4>4. Rated(p, r) \in X /\ Rated(p, r).no = p.no
        BY <1>4, <4>3
      <4> QED BY <2>2, <4>1, <4>2, <4>4
    <3>2. CASE ~ (~ HasEnRegionInfix(prev.no) /\ HasEnRegionInfix(p.no)) /\ prev.rarity = ""
      <4>1. merged = [cards EXCEPT ![k].rarity = p.rarity]
        BY <1>7, <3>2 DEF MergePrinting
      <4>2. merged = [cards EXCEPT ![k] = [prev EXCEPT !.rarity = p.rarity]]
        BY <4>1
      <4>3. [prev EXCEPT !.rarity = p.rarity] = Rated(prev, p.rarity)
        <5>1. prev = Rated(prev, prev.rarity)
          BY <1>2, <2>2
        <5> HIDE DEF prev
        <5> QED BY <5>1
      <4>4. Rated(prev, p.rarity) \in X /\ Rated(prev, p.rarity).no = prev.no
        BY <1>3, <2>2
      <4> QED BY <4>2, <4>3, <4>4
    <3>3. CASE ~ (~ HasEnRegionInfix(prev.no) /\ HasEnRegionInfix(p.no)) /\ prev.rarity # ""
      <4>1. merged = cards
        BY <1>7, <3>3 DEF MergePrinting
      <4>2. cards = [cards EXCEPT ![k] = prev]
        BY <1>1, <2>2
      <4> QED BY <2>2, <4>1, <4>2
    <3> QED BY <3>1, <3>2, <3>3
  <2>4. PICK e \in X : merged = [cards EXCEPT ![k] = e] /\ YgoSlotKeys(e.no) = YgoSlotKeys(prev.no)
    BY <2>3
  <2> HIDE DEF X, k, merged
  <2>5. merged \in Seq(X) /\ DOMAIN merged = DOMAIN cards
    BY <1>1, <2>2, <2>4
  <2>6. \A i \in DOMAIN cards : YgoSlotKeys(merged[i].no) = YgoSlotKeys(cards[i].no)
    BY <1>1, <2>2, <2>4
  <2> QED BY <1>1, <2>5, <2>6 DEF SlotsDiffer, X, merged
<1> QED BY <1>6, <1>7

\* The rows of a pack, as the table they are computed from.
RowsTable(f, printings, n) ==
    f = [i \in 0 .. n |-> IF i = 0 THEN <<>> ELSE MergePrinting(f[i - 1], printings[i])]

LEMMA RowsUnfold ==
    ASSUME NEW printings, NEW n \in Nat PROVE \E f : RowsTable(f, printings, n)
<1> DEFINE T == {b \in Nat : \E f : RowsTable(f, printings, b)}
<1>1. 0 \in T
  <2> DEFINE f == [i \in 0 .. 0 |-> <<>>]
  <2>1. f = [i \in 0 .. 0 |-> IF i = 0 THEN <<>> ELSE MergePrinting(f[i - 1], printings[i])]
    OBVIOUS
  <2> HIDE DEF f
  <2> QED BY <2>1 DEF RowsTable
<1>2. ASSUME NEW b \in T PROVE b + 1 \in T
  <2>0. b \in Nat /\ b + 1 \in 0 .. b + 1 /\ (b + 1) - 1 = b /\ b \in 0 .. b
    OBVIOUS
  <2>1. PICK g : RowsTable(g, printings, b)
    OBVIOUS
  <2> DEFINE last == MergePrinting(g[b], printings[b + 1])
             h == [i \in 0 .. b + 1 |-> IF i = b + 1 THEN last ELSE g[i]]
  <2>2. \A i \in 0 .. b : h[i] = g[i] /\ i # b + 1
    BY <2>0
  <2>3. h[b + 1] = last
    BY <2>0
  <2>4. h = [i \in 0 .. b + 1 |-> h[i]]
    OBVIOUS
  <2> HIDE DEF h
  <2>5. ASSUME NEW i \in 0 .. b + 1
        PROVE  h[i] = IF i = 0 THEN <<>> ELSE MergePrinting(h[i - 1], printings[i])
    <3>1. CASE i = b + 1
      BY <2>0, <2>2, <2>3, <3>1
    <3>2. CASE i # b + 1
      <4>1. i \in 0 .. b /\ (i # 0 => i - 1 \in 0 .. b)
        BY <2>0, <3>2
      <4>2. g[i] = IF i = 0 THEN <<>> ELSE MergePrinting(g[i - 1], printings[i])
        BY <2>1, <4>1 DEF RowsTable
      <4> QED BY <2>2, <4>1, <4>2
    <3> QED BY <3>1, <3>2
  <2>6. RowsTable(h, printings, b + 1)
    BY <2>4, <2>5 DEF RowsTable
  <2> QED BY <2>0, <2>6
<1>3. T = Nat
  <2>1. T \in SUBSET Nat
    OBVIOUS
  <2> HIDE DEF T
  <2> QED BY <1>1, <1>2, <2>1, SetInduction
<1> QED BY <1>3

\* Whatever the printings are, no two rows of a pack have the same slot.
LEMMA MergedSlotsDiffer ==
    ASSUME NEW X, NEW printings \in Seq(X), \A p \in ToSet(printings) : YgoSlotKeys(p.no) # {}
    PROVE  SlotsDiffer(Merged(printings), EntriesOf(printings))
<1> DEFINE n == Len(printings)
           rows == CHOOSE c : RowsTable(c, printings, n)
           T == {b \in Nat : b \in 0 .. n => SlotsDiffer(rows[b], EntriesOf(printings))}
<1>1. n \in Nat /\ \A i \in 1 .. n : printings[i] \in ToSet(printings)
  BY DEF ToSet, Range
<1>2. RowsTable(rows, printings, n)
  BY <1>1, RowsUnfold
<1>3. Merged(printings) = rows[n]
  BY DEF Merged, RowsTable
<1> HIDE DEF rows, n
<1>4. /\ rows[0] = <<>>
      /\ \A b \in Nat : b + 1 \in 0 .. n => rows[b + 1] = MergePrinting(rows[b], printings[b + 1])
  <2>1. \A i \in 0 .. n : rows[i] = IF i = 0 THEN <<>> ELSE MergePrinting(rows[i - 1], printings[i])
    BY <1>2 DEF RowsTable
  <2>2. rows[0] = <<>>
    BY <1>1, <2>1
  <2>3. \A b \in Nat : b + 1 \in 0 .. n => rows[b + 1] = MergePrinting(rows[(b + 1) - 1], printings[b + 1])
    BY <1>1, <2>1
  <2> QED BY <2>2, <2>3
<1>5. 0 \in T
  <2>1. <<>> \in Seq(EntriesOf(printings)) /\ DOMAIN <<>> = {}
    OBVIOUS
  <2>2. SlotsDiffer(<<>>, EntriesOf(printings))
    BY <2>1 DEF SlotsDiffer
  <2> QED BY <1>4, <2>2
<1>6. ASSUME NEW b \in T PROVE b + 1 \in T
  <2> SUFFICES ASSUME b + 1 \in 0 .. n PROVE SlotsDiffer(rows[b + 1], EntriesOf(printings))
    OBVIOUS
  <2>1. b \in Nat /\ b \in 0 .. n /\ b + 1 \in 1 .. n
    BY <1>1
  <2>2. SlotsDiffer(rows[b], EntriesOf(printings))
    BY <2>1
  <2>3. printings[b + 1] \in ToSet(printings)
    BY <1>1, <2>1
  <2> QED BY <1>4, <2>1, <2>2, <2>3, PrintingIsMerged
<1>7. T = Nat
  <2>1. T \in SUBSET Nat
    OBVIOUS
  <2> HIDE DEF T
  <2> QED BY <1>5, <1>6, <2>1, SetInduction
<1>8. n \in 0 .. n
  BY <1>1
<1> QED BY <1>1, <1>3, <1>7, <1>8

\* So they can be counted by slots.
LEMMA SlotsAreCountable ==
    ASSUME NEW X, NEW cards, SlotsDiffer(cards, X) PROVE Countable("YuGiOh", ToSet(cards))
<1>1. IsFiniteSet(ToSet(cards))
  BY ListIsFinite DEF SlotsDiffer
<1>2. \A n : KeysOf("YuGiOh", n) = YgoSlotKeys(n)
  BY DEF KeysOf
<1>3. \A m, n : YgoSlotKeys(m) \cap YgoSlotKeys(n) # {} => YgoSlotKeys(m) = YgoSlotKeys(n)
  BY DEF YgoSlotKeys
<1>4. ASSUME NEW d \in ToSet(cards), NEW e \in ToSet(cards),
             d.no = e.no \/ YgoSlotKeys(d.no) \cap YgoSlotKeys(e.no) # {}
      PROVE  d = e
  <2>1. PICK i \in DOMAIN cards : d = cards[i]
    BY DEF ToSet, Range
  <2>2. PICK j \in DOMAIN cards : e = cards[j]
    BY DEF ToSet, Range
  <2>3. YgoSlotKeys(d.no) = YgoSlotKeys(e.no)
    BY <1>3, <1>4
  <2>4. i = j
    BY <2>1, <2>2, <2>3 DEF SlotsDiffer
  <2> QED BY <2>1, <2>2, <2>4
<1> QED BY <1>1, <1>2, <1>4 DEF Countable

LEMMA YuGiOhIsACatalogue ==
    ASSUME NEW list, NEW dump, Answered(dump) => IsList(dump)
    PROVE  IsCatalogue("YuGiOh", YuGiOhFetch(list, dump).packs)
<1> DEFINE sets == AppendMissingSetAliases(ToSet(list))
           listed == {p \in ToSet(dump) : Catalogued(p)}
           Of(id) == {p \in listed : ResolvePackId(sets, p) = id}
           Pack(id) == [id |-> id, name |-> Head(KeepIn(dump, Of(id))).set, cards |-> ToSet(Merged(KeepIn(dump, Of(id))))]
           ids == {ResolvePackId(sets, p) : p \in listed}
           packs == {Pack(id) : id \in ids}
<1>1. CASE ~ Answered(list) \/ ~ Answered(dump)
  BY <1>1 DEF YuGiOhFetch, Failed, IsCatalogue
<1>2. CASE Answered(list) /\ Answered(dump)
  <2>1. YuGiOhFetch(list, dump).packs = packs
    BY <1>2 DEF YuGiOhFetch, Fetched, ParseCatalog
  <2>2. \A id : Pack(id).id = id /\ Pack(id).cards = ToSet(Merged(KeepIn(dump, Of(id))))
    OBVIOUS
  <2>3. ASSUME NEW id PROVE Countable("YuGiOh", Pack(id).cards)
    <3> DEFINE printings == KeepIn(dump, Of(id))
    <3>1. dump \in Seq(ToSet(dump))
      BY <1>2 DEF IsList
    <3>2. \A p \in Of(id) : YgoSlotKeys(p.no) # {}
      BY DEF Catalogued
    <3> HIDE DEF Of
    <3>3. printings \in Seq(ToSet(dump)) /\ \A i \in 1 .. Len(printings) : printings[i] \in Of(id)
      BY <3>1, KeptWasThere
    <3> HIDE DEF printings
    <3>4. \A p \in ToSet(printings) : YgoSlotKeys(p.no) # {}
      BY <3>2, <3>3 DEF ToSet, Range
    <3>5. SlotsDiffer(Merged(printings), EntriesOf(printings))
      BY <3>3, <3>4, MergedSlotsDiffer
    <3>6. Countable("YuGiOh", ToSet(Merged(printings)))
      BY <3>5, SlotsAreCountable
    <3> QED BY <2>2, <3>6 DEF printings
  <2> HIDE DEF Pack, ids
  <2>4. \A x \in packs : Countable("YuGiOh", x.cards)
    BY <2>3
  <2>5. \A x, y \in packs : x.id = y.id => x = y
    BY <2>2
  <2> HIDE DEF packs
  <2> QED BY <2>1, <2>4, <2>5, PacksAreACatalogue
<1> QED BY <1>1, <1>2

\* Whatever an upstream answers, what is saved of it is a catalogue.
LEMMA FetchedAreCatalogues ==
    ASSUME NEW p \in DOMAIN Replies, p \in {"West", "Asia", "YuGiOh", "Bandai", "Digi"}, NEW a \in Upstream[p]
    PROVE  IsCatalogue(p, a.all.packs)
<1>1. PICK r \in Replies[p] : a = [list |-> FetchAll(p, r), all |-> FetchAllWithCatalog(p, r)]
  BY DEF Upstream
<1>2. a.all = FetchAllWithCatalog(p, r)
  BY <1>1
<1>3. CASE p = "West"
  <2>1. Answered(r.list) => /\ EachSetOnce(ParseListResponse(r.list))
                            /\ \A s \in ParseListResponse(r.list) : HasRows(r.details[s.id])
    BY <1>3, RepliesAssumption
  <2> QED BY <1>2, <1>3, <2>1, WestIsACatalogue DEF FetchAllWithCatalog
<1>4. CASE p = "Asia"
  <2>1. Answered(r.list) => /\ EachSetOnce(ParseListResponse(r.list))
                            /\ \A s \in ParseAsiaList(r.list) : HasRows(r.details[s.id])
    BY <1>4, RepliesAssumption
  <2> QED BY <1>2, <1>4, <2>1, AsiaIsACatalogue DEF FetchAllWithCatalog
<1>5. CASE p = "YuGiOh"
  <2>1. Answered(r.dump) => IsList(r.dump)
    BY <1>5, RepliesAssumption
  <2> QED BY <1>2, <1>5, <2>1, YuGiOhIsACatalogue DEF FetchAllWithCatalog
<1>6. CASE p = "Bandai"
  <2>1. \A e \in SetManifest : Answered(r.pages[e.page]) => IsList(r.pages[e.page]) /\ HasNumbers(r.pages[e.page])
    BY <1>6, RepliesAssumption
  <2> QED BY <1>2, <1>6, <2>1, BandaiIsACatalogue DEF FetchAllWithCatalog
<1>7. CASE p = "Digi"
  <2>1. Answered(r.list) => IsList(r.list) /\ HasNumbers(r.list) /\ PackNames(r.list) \subseteq DOMAIN Slugs
    BY <1>7, RepliesAssumption
  <2> QED BY <1>2, <1>7, <2>1, DigiIsACatalogue DEF FetchAllWithCatalog
<1> QED BY <1>3, <1>4, <1>5, <1>6, <1>7

-----------------------------------------------------------------------------
(***************************************************************************)
(* Catalogues stay catalogues, on the disk and in the tab.                 *)
(***************************************************************************)

\* What a folder has to count by, and what the tab loaded of it.
Stocked(d) == \A p \in Parts : Readable(d.packs[p]) => IsCatalogue(p, d.packs[p])
Loaded(t) == \A p \in Parts : t.packs[p] # Missing => IsCatalogue(p, t.packs[p])

CountInv ==
    RecInv /\ (game # "Magic" => /\ \A f \in Folders : Stocked(disk[f])
                                 /\ Loaded(tab)
                                 /\ \A c \in tab.cards : LoadCard(c) = c)

\* The same after a step.
Stocks == (\A f \in Folders : Stocked(disk'[f])) /\ Loaded(tab')

\* The tab shows what it can count of the records.
LEMMA InvCounts == CountInv => CountsAreHonest
<1> SUFFICES ASSUME CountInv, game # "Magic" PROVE CountsAreHonest
  BY DEF CountsAreHonest
<1>1. /\ IsTab(tab) /\ tab.game = game /\ game \in Games \ {"Magic"} /\ Parts = PartsIn(game)
      /\ Records(tab.cards)
  BY GameIsOne DEF CountInv, RecInv, Inv, TabInv, Holds, Follows, TabOK
<1>2. ASSUME NEW p \in PartsIn(game) PROVE IsCatalogue(p, Packs(tab)[p])
  <2>1. p \in DOMAIN tab.packs
    BY <1>1 DEF IsTab
  <2>2. CASE tab.packs[p] = Missing
    BY <2>1, <2>2 DEF Packs, IsCatalogue
  <2>3. CASE tab.packs[p] # Missing
    BY <1>1, <2>1, <2>3 DEF Packs, CountInv, Loaded
  <2> QED BY <2>2, <2>3
<1>3. CanCount(tab)
  BY <1>1, <1>2 DEF CanCount, CountInv, Records
<1> QED BY <1>3, CountsOfATab DEF CountsAreHonest, RowCounts, CountsAgree, Mine

-----------------------------------------------------------------------------
\* Tabs that were refreshed, reloaded or mounted.

\* Refreshing loads no catalogue.
LEMMA RefreshLoads ==
    ASSUME game # "Magic", NEW t, IsTab(t), PagesOK(t), NEW d PROVE Refresh(t, d).packs = t.packs
<1> DEFINE u == SetCollection(t, LoadCards(d))
<1>1. u.packs = t.packs
  BY CollectionIsShown
<1>2. Refresh(t, d) = IF Readable(d.cards) THEN u ELSE t
  BY DEF Refresh, SetCards, u
<1> HIDE DEF u
<1> QED BY <1>1, <1>2

\* Reloading loads those of the folder.
LEMMA ReloadLoads ==
    ASSUME game # "Magic", Parts = PartsIn(game), NEW t, TabOK(t), t.game = game,
           NEW d, IsFolder(d, Parts), Stocked(d)
    PROVE  Loaded(Reloaded(t, d))
<1> DEFINE v == ReloadFromStore(t, d)
<1>1. DOMAIN d.packs = Parts
  BY DEF IsFolder
<1>2. TabOK(v) /\ v.packs = Catalogs(d)
  BY <1>1, StoreIsReloaded
<1> HIDE DEF v
<1>3. Reloaded(t, d).packs = Catalogs(d)
  BY <1>2, RefreshLoads DEF Reloaded, v, TabOK
<1>4. \A p \in Parts : Catalogs(d)[p] # Missing => Readable(d.packs[p]) /\ Catalogs(d)[p] = d.packs[p]
  BY <1>1 DEF Catalogs
<1> QED BY <1>3, <1>4 DEF Loaded, Stocked

LEMMA MountLoads ==
    ASSUME game # "Magic", game \in Games, Parts = PartsIn(game), NEW d, IsFolder(d, Parts), Stocked(d)
    PROVE  Loaded(Mounted(d))
<1> DEFINE t == CompletionPanel(game, Parts)
<1>1. t = [game |-> game, cards |-> {}, packs |-> [p \in PartsIn(game) |-> Missing], region |-> All,
           lang |-> All, open |-> {}, tiles |-> {}, list |-> {}]
  BY DEF CompletionPanel
<1>2. t.game = game /\ t.lang = All /\ t.open = {} /\ t.tiles = {} /\ t.list = {}
  BY <1>1
<1>3. IsTab(t)
  BY <1>1 DEF IsTab
<1> HIDE DEF t
<1>4. TabOK(t)
  BY <1>2, <1>3 DEF TabOK, PagesOK, LangOK, ListOK
<1>5. Mounted(d) = Reloaded(t, d)
  BY DEF Mounted, Reloaded, t
<1> QED BY <1>2, <1>4, <1>5, ReloadLoads

-----------------------------------------------------------------------------
\* What a step makes of the catalogues.

\* The facts the steps below start from.
LEMMA StockedNow ==
    ASSUME CountInv, game # "Magic"
    PROVE  /\ Inv /\ DiskInv /\ TabOK(tab) /\ tab.game = game /\ game \in Games /\ Parts = PartsIn(game)
           /\ IsFolder(Here, Parts) /\ Stocked(Here) /\ Loaded(tab)
           /\ \A f \in Folders : Stocked(disk[f]) /\ IsFolder(disk[f], Parts)
BY GameIsOne DEF CountInv, RecInv, Inv, DiskInv, TabInv, Holds, Follows, Here

\* A write of one folder, whose catalogues can be counted by.
LEMMA FolderIsStocked ==
    ASSUME CountInv, game # "Magic", NEW d, IsFolder(d, Parts), Stocked(d), Writes(d),
           UNCHANGED <<game, folder, saved>>, catalogOf' \in {catalogOf, folder}
    PROVE  \A f \in Folders : Stocked(disk'[f])
<1>1. \A f \in Folders : disk'[f] = IF f = folder THEN d ELSE disk[f]
  BY StockedNow, DiskIsWritten
<1> QED BY <1>1, StockedNow

\* Neither a dialog nor what it saves writes a catalogue.
LEMMA DialogStocks ==
    ASSUME CountInv, game # "Magic", NEW s, LeavesAlone(s, Here, Parts), NEW w, DialogOpens(s, w)
    PROVE  /\ Cancels(s) => Stocks
           /\ \A cards, end : Save(s.d, cards, end) => Stocks
<1> DEFINE d == s.d
<1>1. IsFolder(d, Parts) /\ d.packs = Here.packs
  BY DEF LeavesAlone
<1>2. UNCHANGED <<game, folder, saved, catalogOf>>
  BY DEF DialogOpens
<1> HIDE DEF d
<1>3. Stocked(d)
  BY <1>1, StockedNow DEF Stocked
<1>4. ASSUME Writes(d), UNCHANGED tab PROVE Stocks
  BY <1>1, <1>2, <1>3, <1>4, FolderIsStocked, StockedNow DEF Stocks
<1>5. ASSUME NEW cards, NEW end, Save(d, cards, end) PROVE Stocks
  <2> DEFINE new == Write(end, d.cards, cards)
             after == [d EXCEPT !.cards = new]
  <2>1. Writes(after) /\ (tab' = Refresh(tab, after) \/ UNCHANGED tab)
    BY <1>5 DEF Save
  <2> HIDE DEF new
  <2>2. Becomes(d, after, Parts, new, d.sets, d.packs)
    BY <1>1, RecordsAreWritten
  <2> HIDE DEF after
  <2>3. IsFolder(after, Parts) /\ Stocked(after)
    BY <1>3, <2>2 DEF Becomes, Stocked
  <2>4. tab'.packs = tab.packs
    BY <2>1, RefreshLoads, StockedNow DEF TabOK
  <2> QED BY <1>2, <2>1, <2>3, <2>4, FolderIsStocked, StockedNow DEF Stocks, Loaded
<1> QED BY <1>4, <1>5 DEF Cancels, d

LEMMA AddStocks == CountInv /\ game # "Magic" /\ OnAddCard => Stocks
<1> SUFFICES ASSUME CountInv, game # "Magic", OnAddCard PROVE Stocks
  OBVIOUS
<1>1. PICK w, answers : /\ DialogOpens(Offered(answers, w), w)
                        /\ Cancels(Offered(answers, w)) \/ Add(Offered(answers, w), w["cards"])
  BY DEF OnAddCard
<1> DEFINE s == Offered(answers, w)
<1>2. LeavesAlone(s, Here, Parts)
  BY OfferIsFine, StockedNow
<1>3. DialogOpens(s, w) /\ (Cancels(s) \/ Add(s, w["cards"]))
  BY <1>1
<1> HIDE DEF s
<1>4. Add(s, w["cards"]) => \E cards : Save(s.d, cards, w["cards"])
  BY DEF Add
<1> QED BY <1>2, <1>3, <1>4, DialogStocks

LEMMA EditStocks == CountInv /\ game # "Magic" /\ OnEditCard => Stocks
<1> SUFFICES ASSUME CountInv, game # "Magic", OnEditCard PROVE Stocks
  OBVIOUS
<1>1. PICK w, answers : /\ DialogOpens(Offered(answers, w), w)
                        /\ Cancels(Offered(answers, w)) \/ Edit(Offered(answers, w), w["cards"])
  BY DEF OnEditCard
<1> DEFINE s == Offered(answers, w)
<1>2. LeavesAlone(s, Here, Parts)
  BY OfferIsFine, StockedNow
<1>3. DialogOpens(s, w) /\ (Cancels(s) \/ Edit(s, w["cards"]))
  BY <1>1
<1> HIDE DEF s
<1>4. Edit(s, w["cards"]) => \E cards : Save(s.d, cards, w["cards"])
  BY DEF Edit
<1> QED BY <1>2, <1>3, <1>4, DialogStocks

LEMMA DeleteStocks == CountInv /\ game # "Magic" /\ OnDeleteCard => Stocks
<1> SUFFICES ASSUME CountInv, game # "Magic", OnDeleteCard PROVE Stocks
  OBVIOUS
<1>1. UNCHANGED <<game, folder, saved, catalogOf>>
  BY DEF OnDeleteCard
<1>2. \/ \E x : /\ Writes([Here EXCEPT !.cards = x])
                /\ tab' = Refresh(tab, [Here EXCEPT !.cards = x])
      \/ tab' = Refresh(tab, Here) /\ UNCHANGED disk
  BY DEF OnDeleteCard
<1>3. ASSUME NEW x, Writes([Here EXCEPT !.cards = x]),
             tab' = Refresh(tab, [Here EXCEPT !.cards = x])
      PROVE  Stocks
  <2> DEFINE d == [Here EXCEPT !.cards = x]
  <2>1. Becomes(Here, d, Parts, x, Here.sets, Here.packs)
    BY StockedNow, RecordsAreWritten
  <2>2. Writes(d) /\ tab' = Refresh(tab, d)
    BY <1>3
  <2> HIDE DEF d
  <2>3. IsFolder(d, Parts) /\ Stocked(d)
    BY <2>1, StockedNow DEF Becomes, Stocked
  <2>4. tab'.packs = tab.packs
    BY <2>2, RefreshLoads, StockedNow DEF TabOK
  <2> QED BY <1>1, <2>2, <2>3, <2>4, FolderIsStocked, StockedNow DEF Stocks, Loaded
<1>4. ASSUME tab' = Refresh(tab, Here), UNCHANGED disk PROVE Stocks
  <2>1. tab'.packs = tab.packs
    BY <1>4, RefreshLoads, StockedNow DEF TabOK
  <2> QED BY <1>4, <2>1, StockedNow DEF Stocks, Loaded
<1> QED BY <1>2, <1>3, <1>4

\* An update stores what was fetched, or what was there.
LEMMA PartIsStocked ==
    ASSUME NEW s, IsState(s), IsFolder(s.d, Parts), Stocked(s.d), NEW p \in Parts,
           NEW f, IsCatalogue(p, f.packs), NEW wSets, NEW wCatalog
    PROVE  Stocked(UpdateRegion(s, p, f, wSets, wCatalog).d)
<1> DEFINE d == s.d
           sets == f.sets
           packs == f.packs
           listed == SaveSets(d, p, sets, wSets)
           stored == SaveCatalog(listed, p, packs, wCatalog)
           u == UpdateRegion(s, p, f, wSets, wCatalog)
<1>1. \/ u = s
      \/ u = [s EXCEPT !.d = listed]
      \/ u.d = stored
  BY DEF UpdateRegion
<1> HIDE DEF d, sets, packs, u
<1>2. Becomes(d, listed, Parts, d.cards, [d.sets EXCEPT ![p] = Write(wSets, d.sets[p], sets)], d.packs)
  BY SetsAreSaved DEF d
<1> HIDE DEF listed
<1>3. IsFolder(listed, Parts) /\ listed.packs = d.packs
  BY <1>2 DEF Becomes
<1>4. Becomes(listed, stored, Parts, listed.cards, listed.sets,
              [listed.packs EXCEPT ![p] = Write(wCatalog, listed.packs[p], packs)])
  BY <1>3, CatalogIsSaved
<1> HIDE DEF stored
<1>5. stored.packs = [d.packs EXCEPT ![p] = Write(wCatalog, d.packs[p], packs)]
  BY <1>3, <1>4 DEF Becomes
<1>6. ASSUME u = [s EXCEPT !.d = listed] PROVE u.d = listed
  BY <1>6, FilesOfAState DEF StateIs
<1>7. Stocked(listed)
  BY <1>3 DEF Stocked, d
<1>8. Stocked(stored)
  <2> SUFFICES ASSUME NEW q \in Parts, Readable(stored.packs[q]) PROVE IsCatalogue(q, stored.packs[q])
    BY DEF Stocked
  <2>1. d.packs = [r \in Parts |-> d.packs[r]]
    BY DEF IsFolder, d
  <2>2. CASE q = p
    <3>1. stored.packs[q] = Write(wCatalog, d.packs[p], packs)
      BY <1>5, <2>1, <2>2
    <3>2. stored.packs[q] = packs \/ stored.packs[q] = d.packs[q]
      BY <2>2, <3>1 DEF Write, Readable
    <3> QED BY <2>2, <3>2 DEF Stocked, d, packs
  <2>3. CASE q # p
    <3>1. stored.packs[q] = d.packs[q]
      BY <1>5, <2>1, <2>3
    <3> QED BY <3>1 DEF Stocked, d
  <2> QED BY <2>2, <2>3
<1> QED BY <1>1, <1>6, <1>7, <1>8 DEF u, d

\* The games of one part.
LEMMA PartUpdateStocks ==
    ASSUME CountInv, OnePartIsUpdated, UNCHANGED <<game, folder, saved>>
    PROVE  Stocks
<1>1. PICK p \in Parts : \E f \in {a.all : a \in Upstream[p]} : \E wSets, wCatalog, d :
        /\ d = UpdateRegion([d |-> Here, cache |-> view.cache], p, f, wSets, wCatalog).d
        /\ Writes(d)
        /\ TabReloads(tab, d) \/ UNCHANGED <<tab, behind, catalogOf>>
  BY DEF OnePartIsUpdated
<1>2. PICK f \in {a.all : a \in Upstream[p]} : \E wSets, wCatalog, d :
        /\ d = UpdateRegion([d |-> Here, cache |-> view.cache], p, f, wSets, wCatalog).d
        /\ Writes(d)
        /\ TabReloads(tab, d) \/ UNCHANGED <<tab, behind, catalogOf>>
  BY <1>1
<1>3. PICK wSets, wCatalog, d :
        /\ d = UpdateRegion([d |-> Here, cache |-> view.cache], p, f, wSets, wCatalog).d
        /\ Writes(d)
        /\ TabReloads(tab, d) \/ UNCHANGED <<tab, behind, catalogOf>>
  BY <1>2
<1>4. game # "Magic" /\ catalogOf' \in {catalogOf, folder}
  BY <1>3 DEF OnePartIsUpdated, TabReloads
<1>5. IsCatalogue(p, f.packs)
  <2>1. p \in {"West", "Asia", "YuGiOh", "Bandai", "Digi"} /\ p \in DOMAIN Replies
    BY <1>4, StockedNow, PartsOfGames, TabsAssumption DEF Games, DiskInv, PartsIn
  <2> QED BY <1>2, <2>1, FetchedAreCatalogues
<1>6. IsFolder(d, Parts)
  BY <1>3, <1>4, OneIsUpdated, StockedNow
<1>7. Stocked(d)
  <2> DEFINE s == [d |-> Here, cache |-> view.cache]
  <2>1. IsState(s) /\ s.d = Here
    BY DEF IsState
  <2>2. d = UpdateRegion(s, p, f, wSets, wCatalog).d
    BY <1>3
  <2> HIDE DEF s
  <2> QED BY <1>4, <1>5, <2>1, <2>2, PartIsStocked, StockedNow
<1>8. Loaded(tab')
  <2>1. CASE TabReloads(tab, d)
    BY <1>4, <1>6, <1>7, <2>1, ReloadLoads, StockedNow DEF TabReloads
  <2>2. CASE UNCHANGED tab
    BY <1>4, <2>2, StockedNow
  <2> QED BY <1>3, <2>1, <2>2
<1> QED BY <1>3, <1>4, <1>6, <1>7, <1>8, FolderIsStocked DEF Stocks

\* Pokémon, whose regions are updated one after the other.
LEMMA PokemonStocks ==
    ASSUME CountInv, OnUpdatePokemonSets, UNCHANGED <<game, folder, saved>>
    PROVE  Stocks
<1>1. PICK answers \in Answers : \E w :
        LET after == FollowLists(UpdateRegions(answers, w), w["cards"])
        IN  /\ Writes(after.d)
            /\ TabReloads(IF after.saved THEN Refresh(tab, after.d) ELSE tab, after.d)
  BY DEF OnUpdatePokemonSets
<1>2. PICK w :
        LET after == FollowLists(UpdateRegions(answers, w), w["cards"])
        IN  /\ Writes(after.d)
            /\ TabReloads(IF after.saved THEN Refresh(tab, after.d) ELSE tab, after.d)
  BY <1>1
<1>3. game = "Pokemon" /\ game # "Magic"
  BY DEF OnUpdatePokemonSets
<1>4. "West" \in Parts /\ "Asia" \in Parts /\ Parts \subseteq DOMAIN Replies
  BY <1>3, StockedNow, PartsOfGames, TabsAssumption DEF DiskInv, PartsIn
<1> DEFINE start == [d |-> Here, cache |-> view.cache]
           fw == answers["West"].all
           fa == answers["Asia"].all
           west == UpdateRegion(start, "West", fw, w["West"], w["WestCatalog"])
           both == UpdateRegions(answers, w)
           e == both.d
           x == Write(w["cards"], e.cards, SyncPokemonCollectionSets(LoadCards(e), both.cache["West"], both.cache["Asia"]))
           g == [e EXCEPT !.cards = x]
           d == FollowLists(both, w["cards"]).d
           t == IF FollowLists(both, w["cards"]).saved THEN Refresh(tab, d) ELSE tab
<1>5. Writes(d) /\ TabReloads(t, d) /\ (t = tab \/ t = Refresh(tab, d))
  BY <1>2
<1>6. d = e \/ d = g
  BY DEF FollowLists
<1>7. IsCatalogue("West", fw.packs) /\ IsCatalogue("Asia", fa.packs)
  <2>1. answers["West"] \in Upstream["West"] /\ answers["Asia"] \in Upstream["Asia"]
    BY <1>1, <1>4 DEF Answers
  <2> QED BY <1>4, <2>1, FetchedAreCatalogues
<1>8. both = UpdateRegion(west, "Asia", fa, w["Asia"], w["AsiaCatalog"])
  BY DEF UpdateRegions
<1> HIDE DEF fw, fa, t, d
<1>9. IsState(start) /\ start.d = Here
  BY DEF IsState
<1> HIDE DEF start
<1>10. Updates(start, west, Parts, w["West"], w["WestCatalog"]) /\ Stocked(west.d)
  BY <1>3, <1>4, <1>7, <1>9, PartIsUpdated, PartIsStocked, StockedNow
<1> HIDE DEF west, both
<1>11. IsFolder(e, Parts) /\ Stocked(e)
  <2>1. IsState(west) /\ IsFolder(west.d, Parts)
    BY <1>10 DEF Updates
  <2>2. Updates(west, both, Parts, w["Asia"], w["AsiaCatalog"]) /\ Stocked(both.d)
    BY <1>4, <1>7, <1>8, <1>10, <2>1, PartIsUpdated, PartIsStocked
  <2> QED BY <2>2 DEF Updates
<1> HIDE DEF e, x
<1>12. Becomes(e, g, Parts, x, e.sets, e.packs)
  BY <1>11, RecordsAreWritten
<1> HIDE DEF g
<1>13. IsFolder(d, Parts) /\ Stocked(d)
  BY <1>6, <1>11, <1>12 DEF Becomes, Stocked
<1>14. TabOK(t) /\ t.game = game
  <2> DEFINE k == disk[catalogOf]
             u == Refresh(tab, d)
  <2>1. Follows(tab, game, k)
    BY <1>3, StockedNow DEF Inv, TabInv, Holds
  <2> HIDE DEF k
  <2>2. Holds(u, game, d, k, Readable(d.cards))
    BY <1>3, <2>1, Refreshed
  <2> HIDE DEF u
  <2> QED BY <1>5, <2>1, <2>2 DEF Holds, Follows, u
<1>15. Loaded(tab')
  BY <1>3, <1>5, <1>13, <1>14, ReloadLoads, StockedNow DEF TabReloads
<1> QED BY <1>3, <1>5, <1>13, <1>15, FolderIsStocked DEF Stocks, TabReloads

\* The tab's own steps.
LEMMA PanelStocks ==
    ASSUME CountInv, OnChooseRegion \/ OnChooseLanguage \/ OpenTile \/ Back
    PROVE  Stocks
<1>1. InTab /\ game # "Magic"
  BY DEF OnChooseRegion, OnChooseLanguage, OpenTile, Back
<1>2. TabOK(tab)
  BY <1>1, StockedNow
<1>3. tab'.packs = tab.packs
  <2>1. CASE OnChooseRegion
    BY <1>2, <2>1, RegionIsChosen DEF OnChooseRegion
  <2>2. CASE OnChooseLanguage
    BY <1>2, <2>2, LanguageIsChosen DEF OnChooseLanguage
  <2>3. CASE OpenTile
    BY <1>2, <2>3, TileIsOpened DEF OpenTile
  <2>4. CASE Back
    BY <1>2, <2>4, PageIsLeft DEF Back
  <2> QED BY <2>1, <2>2, <2>3, <2>4
<1> QED BY <1>1, <1>3, StockedNow DEF Stocks, Loaded, InTab

\* Other folders, other runs of the program.
LEMMA OtherStocks ==
    ASSUME CountInv, game # "Magic", Remount \/ MoveFolder \/ SettingsFail \/ Restart
    PROVE  Stocks
<1>1. \A f \in Folders : Stocked(disk'[f])
  BY StockedNow DEF Remount, MoveFolder, SettingsFail, Restart
<1>2. CASE Remount
  <2> DEFINE u == RebuildCurrentView(tab)
  <2>1. IsTab(u) /\ PagesOK(u) /\ u.packs = tab.packs
    BY StockedNow, ViewIsFine DEF TabOK, SameBasis
  <2>2. tab' = Refresh(u, Here)
    BY <1>2 DEF Remount
  <2> HIDE DEF u
  <2>3. tab'.packs = tab.packs
    BY <2>1, <2>2, RefreshLoads
  <2> QED BY <1>1, <2>3, StockedNow DEF Stocks, Loaded
<1>3. CASE MoveFolder
  <2>1. PICK f \in Folders : tab' = Refresh(tab, disk[f])
    BY <1>3 DEF MoveFolder
  <2>2. tab'.packs = tab.packs
    BY <2>1, RefreshLoads, StockedNow DEF TabOK
  <2> QED BY <1>1, <2>2, StockedNow DEF Stocks, Loaded
<1>4. CASE SettingsFail
  BY <1>1, <1>4, StockedNow DEF SettingsFail, Stocks
<1>5. CASE Restart
  <2>1. tab' = Mounted(disk[saved]) /\ saved \in Folders
    BY <1>5, StockedNow DEF Restart, DiskInv
  <2>2. Loaded(tab')
    BY <2>1, StockedNow, MountLoads
  <2> QED BY <1>1, <2>2 DEF Stocks
<1> QED BY <1>2, <1>3, <1>4, <1>5

\* Every step.
LEMMA EveryStepStocks == CountInv /\ game # "Magic" /\ [Next]_vars => Stocks
<1> SUFFICES ASSUME CountInv, game # "Magic", [Next]_vars PROVE Stocks
  OBVIOUS
<1>1. CASE OnAddCard \/ OnEditCard \/ OnDeleteCard
  BY <1>1, AddStocks, EditStocks, DeleteStocks
<1>2. CASE OnUpdateSets
  <2>1. UNCHANGED <<game, folder, saved>> /\ ~OnUpdateMagicSets
    BY <1>2 DEF OnUpdateSets, OnUpdateMagicSets
  <2>2. OnUpdatePokemonSets \/ OnePartIsUpdated
    BY <1>2, <2>1, StockedNow, YuGiOhIsUpdated, DigiIsUpdated, BandaiIsUpdated DEF OnUpdateSets
  <2> QED BY <2>1, <2>2, PokemonStocks, PartUpdateStocks
<1>3. CASE OnChooseRegion \/ OnChooseLanguage \/ OpenTile \/ Back
  BY <1>3, PanelStocks
<1>4. CASE TypeDeck \/ Analyze \/ Clear
  BY <1>4 DEF TypeDeck, Analyze, Clear
<1>5. CASE Remount \/ MoveFolder \/ SettingsFail \/ Restart
  BY <1>5, OtherStocks
<1>6. CASE UNCHANGED vars
  BY <1>6, StockedNow DEF vars, Stocks
<1> QED BY <1>1, <1>2, <1>3, <1>4, <1>5, <1>6 DEF Next

-----------------------------------------------------------------------------

\* What the tab read was read once and for all.
LEMMA ReadOnce == ASSUME NEW cards, Records(cards) PROVE \A c \in AsRead(cards) : LoadCard(c) = c
BY RecordIsRead DEF AsRead, Records

\* The catalogues and what is read, at first,
LEMMA InitCounts == Init => CountInv
<1> SUFFICES ASSUME Init PROVE CountInv
  OBVIOUS
<1>1. RecInv
  BY InitHasRecords
<1>2. PICK d \in Contents[game] : disk = [f \in Folders |-> d]
  BY DEF Init
<1>3. /\ game \in DOMAIN Contents /\ tab = Mounted(d)
      /\ \A f \in Folders : disk[f] = d
  BY <1>2 DEF Init, Here, Folders
<1>4. ASSUME game # "Magic"
      PROVE  /\ \A f \in Folders : Stocked(disk[f])
             /\ Loaded(tab)
             /\ \A c \in tab.cards : LoadCard(c) = c
  <2>1. Stocked(d)
    BY <1>2, <1>3, TabsAssumption DEF Stocked, Parts
  <2>2. game \in Games /\ Parts = PartsIn(game) /\ IsFolder(d, Parts)
    BY <1>1, <1>3, GameIsOne DEF RecInv, Inv, DiskInv, Folders
  <2>3. Loaded(tab)
    BY <1>3, <1>4, <2>1, <2>2, MountLoads
  <2>4. tab.cards = {} \/ (Readable(d.cards) /\ tab.cards = LoadCards(d))
    BY <1>3, <1>4, <2>2, MountReads
  <2>5. Readable(d.cards) => Records(d.cards)
    BY <1>1, <1>3, <1>4 DEF RecInv, Folders
  <2>6. \A c \in tab.cards : LoadCard(c) = c
    BY <2>4, <2>5, ReadOnce DEF LoadCards, AsRead
  <2> QED BY <1>3, <2>1, <2>3, <2>6
<1> QED BY <1>1, <1>4 DEF CountInv

\* and after every step.
LEMMA NextCounts == CountInv /\ [Next]_vars => CountInv'
<1> SUFFICES ASSUME CountInv, [Next]_vars PROVE CountInv'
  OBVIOUS
<1>1. RecInv' /\ game' = game /\ Parts' = Parts
  <2>1. RecInv'
    BY NextKeepsRecords DEF CountInv
  <2>2. game' = game
    BY DEF Next, vars, OnAddCard, OnEditCard, DialogOpens, OnDeleteCard, OnUpdateSets,
           OnChooseRegion, OnChooseLanguage, OpenTile, Back, TypeDeck, Analyze, Clear, InTab,
           Remount, MoveFolder, SettingsFail, Restart
  <2> QED BY <2>1, <2>2 DEF Parts
<1>2. ASSUME game # "Magic"
      PROVE  /\ \A f \in Folders : \A p \in Parts : Readable(disk'[f].packs[p]) => IsCatalogue(p, disk'[f].packs[p])
             /\ \A p \in Parts : tab'.packs[p] # Missing => IsCatalogue(p, tab'.packs[p])
             /\ \A c \in tab'.cards : LoadCard(c) = c
  <2>1. Stocks
    BY <1>2, EveryStepStocks
  <2>2. TabIsRead
    BY <1>2, EveryStepPlaces DEF CountInv, Moves
  <2>3. ASSUME Readable(Here'.cards), tab'.cards = LoadCards(Here')
        PROVE  \A c \in tab'.cards : LoadCard(c) = c
    <3>1. IsFiniteSet(Here'.cards) /\ \A c \in Here'.cards : IsRecord(c, Parts)
      BY <1>1, <1>2, <2>3 DEF RecInv, Records, Inv, DiskInv, Here
    <3>2. Records(Here'.cards)
      BY <3>1 DEF Records
    <3> QED BY <2>3, <3>2, ReadOnce DEF LoadCards, AsRead
  <2>4. \A c \in tab'.cards : LoadCard(c) = c
    BY <1>2, <2>2, <2>3 DEF TabIsRead, CountInv
  <2> QED BY <2>1, <2>4 DEF Stocks, Stocked, Loaded
<1> QED BY <1>1, <1>2 DEF CountInv, Stocked, Loaded

\* GameTabs.CountsAreHonest, for any tables, contents, replies, drafts and failures.
THEOREM CountsAreTheLists == Spec => []CountsAreHonest
<1>1. Spec => []CountInv
  BY InitCounts, NextCounts, PTL DEF Spec
<1> QED BY <1>1, InvCounts, PTL

-----------------------------------------------------------------------------
(***************************************************************************)
(* The deck check: what a list asks for, line by line.                     *)
(***************************************************************************)

Required(text, lines) == MapThenSumSet(LAMBDA j : text[j].qty, lines)
Owned(cards) == MapThenSumSet(LAMBDA c : c.amount, cards)

\* What the lines ask for, as a table over the sets of lines,
LEMMA QuantitiesUnfold ==
    ASSUME NEW text, NEW S, IsFiniteSet(S)
    PROVE  \E g : Required(text, S) = g[S] /\ SumTable(g, [j \in S |-> text[j].qty], S)
<1> DEFINE f == [j \in S |-> text[j].qty]
           Table(g) == g = [s \in SUBSET S |-> IF s = {} THEN 0
                            ELSE text[CHOOSE x \in s : TRUE].qty + g[s \ {CHOOSE x \in s : TRUE}]]
           h == CHOOSE g : Table(g)
<1>1. PICK g : SumTable(g, f, S)
  BY SumUnfolds
<1>2. ASSUME NEW s \in SUBSET S, s # {} PROVE f[CHOOSE x \in s : TRUE] = text[CHOOSE x \in s : TRUE].qty
  <2>1. (CHOOSE x \in s : TRUE) \in S
    BY <1>2
  <2> QED BY <2>1
<1>3. Table(g)
  BY <1>1, <1>2 DEF SumTable
<1>4. Table(h)
  BY <1>3
<1>5. Required(text, S) = h[S]
  BY DEF Required, MapThenSumSet, MapThenFoldSet
<1> HIDE DEF h
<1>6. SumTable(h, f, S)
  BY <1>2, <1>4 DEF SumTable
<1> QED BY <1>5, <1>6

\* and what the records have.
LEMMA AmountsUnfold ==
    ASSUME NEW S, IsFiniteSet(S)
    PROVE  \E g : Owned(S) = g[S] /\ SumTable(g, [c \in S |-> c.amount], S)
<1> DEFINE f == [c \in S |-> c.amount]
           Table(g) == g = [s \in SUBSET S |-> IF s = {} THEN 0
                            ELSE (CHOOSE x \in s : TRUE).amount + g[s \ {CHOOSE x \in s : TRUE}]]
           h == CHOOSE g : Table(g)
<1>1. PICK g : SumTable(g, f, S)
  BY SumUnfolds
<1>2. ASSUME NEW s \in SUBSET S, s # {} PROVE f[CHOOSE x \in s : TRUE] = (CHOOSE x \in s : TRUE).amount
  <2>1. (CHOOSE x \in s : TRUE) \in S
    BY <1>2
  <2> QED BY <2>1
<1>3. Table(g)
  BY <1>1, <1>2 DEF SumTable
<1>4. Table(h)
  BY <1>3
<1>5. Owned(S) = h[S]
  BY DEF Owned, MapThenSumSet, MapThenFoldSet
<1> HIDE DEF h
<1>6. SumTable(h, f, S)
  BY <1>2, <1>4 DEF SumTable
<1> QED BY <1>5, <1>6

Amounts(cards) == IsFiniteSet(cards) /\ \A c \in cards : IsMagicRecord(c)

LEMMA OwnedIsANumber == ASSUME NEW cards, Amounts(cards) PROVE Owned(cards) \in Nat
<1> DEFINE f == [c \in cards |-> c.amount]
<1>1. f \in [cards -> Nat]
  BY DEF Amounts, IsMagicRecord
<1>2. PICK g : Owned(cards) = g[cards] /\ SumTable(g, f, cards)
  BY AmountsUnfold DEF Amounts
<1> HIDE DEF f
<1>3. cards \in SUBSET cards
  OBVIOUS
<1> QED BY <1>1, <1>2, <1>3, SumIsANumber DEF Amounts

\* A line more asks for its own quantity more.
LEMMA QuantitiesAdd ==
    ASSUME NEW text, NEW S, IsFiniteSet(S), \A j \in S : text[j].qty \in Nat
    PROVE  /\ Required(text, S) \in Nat
           /\ S = {} => Required(text, S) = 0
           /\ \A x \in S : Required(text, S) = text[x].qty + Required(text, S \ {x})
<1> DEFINE f == [j \in S |-> text[j].qty]
<1>1. f \in [S -> Nat] /\ S \in SUBSET S
  OBVIOUS
<1>2. PICK g : Required(text, S) = g[S] /\ SumTable(g, f, S)
  BY QuantitiesUnfold
<1>3. Required(text, S) \in Nat
  <2> HIDE DEF f
  <2> QED BY <1>1, <1>2, SumIsANumber
<1>4. S = {} => Required(text, S) = 0
  BY <1>2 DEF SumTable
<1>5. ASSUME NEW x \in S PROVE Required(text, S) = text[x].qty + Required(text, S \ {x})
  <2> DEFINE R == S \ {x}
             f2 == [j \in R |-> text[j].qty]
  <2>1. IsFiniteSet(R)
    BY FS_Subset
  <2>2. f2 \in [R -> Nat] /\ (\A y \in R : f[y] = f2[y]) /\ f[x] = text[x].qty
    OBVIOUS
  <2>3. R \in (SUBSET S) \cap SUBSET R
    OBVIOUS
  <2>4. PICK g2 : Required(text, R) = g2[R] /\ SumTable(g2, f2, R)
    BY <2>1, QuantitiesUnfold
  <2> HIDE DEF f, f2
  <2>5. g[S] = f[x] + g[R]
    BY <1>1, <1>2, SumInAnyOrder
  <2> HIDE DEF R
  <2>6. g[R] = g2[R]
    BY <1>1, <1>2, <2>1, <2>2, <2>3, <2>4, SumOfTheSame
  <2>7. Required(text, S) = text[x].qty + Required(text, R)
    BY <1>2, <2>2, <2>4, <2>5, <2>6
  <2> QED BY <2>7 DEF R
<1> QED BY <1>3, <1>4, <1>5

\* The deck after each line, as the table it is computed from.
DeckTable(f, text, n) ==
    f = [i \in 0 .. n |-> IF i = 0 THEN <<>> ELSE AddLine(f[i - 1], text[i])]

LEMMA DecksUnfold ==
    ASSUME NEW text, NEW n \in Nat PROVE \E f : DeckTable(f, text, n)
<1> DEFINE T == {b \in Nat : \E f : DeckTable(f, text, b)}
<1>1. 0 \in T
  <2> DEFINE f == [i \in 0 .. 0 |-> <<>>]
  <2>1. f = [i \in 0 .. 0 |-> IF i = 0 THEN <<>> ELSE AddLine(f[i - 1], text[i])]
    OBVIOUS
  <2> HIDE DEF f
  <2> QED BY <2>1 DEF DeckTable
<1>2. ASSUME NEW b \in T PROVE b + 1 \in T
  <2>0. b \in Nat /\ b + 1 \in 0 .. b + 1 /\ (b + 1) - 1 = b /\ b \in 0 .. b
    OBVIOUS
  <2>1. PICK g : DeckTable(g, text, b)
    OBVIOUS
  <2> DEFINE last == AddLine(g[b], text[b + 1])
             h == [i \in 0 .. b + 1 |-> IF i = b + 1 THEN last ELSE g[i]]
  <2>2. \A i \in 0 .. b : h[i] = g[i] /\ i # b + 1
    BY <2>0
  <2>3. h[b + 1] = last
    BY <2>0
  <2>4. h = [i \in 0 .. b + 1 |-> h[i]]
    OBVIOUS
  <2> HIDE DEF h
  <2>5. ASSUME NEW i \in 0 .. b + 1
        PROVE  h[i] = IF i = 0 THEN <<>> ELSE AddLine(h[i - 1], text[i])
    <3>1. CASE i = b + 1
      BY <2>0, <2>2, <2>3, <3>1
    <3>2. CASE i # b + 1
      <4>1. i \in 0 .. b /\ (i # 0 => i - 1 \in 0 .. b)
        BY <2>0, <3>2
      <4>2. g[i] = IF i = 0 THEN <<>> ELSE AddLine(g[i - 1], text[i])
        BY <2>1, <4>1 DEF DeckTable
      <4> QED BY <2>2, <4>1, <4>2
    <3> QED BY <3>1, <3>2
  <2>6. DeckTable(h, text, b + 1)
    BY <2>4, <2>5 DEF DeckTable
  <2> QED BY <2>0, <2>6
<1>3. T = Nat
  <2>1. T \in SUBSET Nat
    OBVIOUS
  <2> HIDE DEF T
  <2> QED BY <1>1, <1>2, <2>1, SetInduction
<1> QED BY <1>3

KeyOfLine(line) == Lower[DeckName(line)]
NamedLines(text, n, key) == {j \in 1 .. n : KeyOfLine(text[j]) = key}

\* A deck has an entry for each name that the first n lines ask for, and it asks for what
\* they do together.
DeckEntries(text) == [name : {DeckName(text[j]) : j \in DOMAIN text}, required : Nat]
AddsUp(deck, text, n) ==
    /\ deck \in Seq(DeckEntries(text))
    /\ \A i, j \in DOMAIN deck : Lower[deck[i].name] = Lower[deck[j].name] => i = j
    /\ \A i \in DOMAIN deck :
         deck[i].required = Required(text, NamedLines(text, n, Lower[deck[i].name]))
    /\ \A key : Required(text, NamedLines(text, n, key)) > 0 =>
         \E i \in DOMAIN deck : Lower[deck[i].name] = key

\* What the first lines ask for, and one line more.
LEMMA OneLineMore ==
    ASSUME NEW text, IsDeckList(text), NEW n \in Nat, n + 1 <= Len(text), NEW key
    PROVE  LET before == Required(text, NamedLines(text, n, key))
               after == Required(text, NamedLines(text, n + 1, key))
           IN  /\ before \in Nat /\ after \in Nat
               /\ after = IF KeyOfLine(text[n + 1]) = key THEN text[n + 1].qty + before ELSE before
<1> DEFINE A == NamedLines(text, n, key)
           B == NamedLines(text, n + 1, key)
<1>1. DOMAIN text = 1 .. Len(text) /\ Len(text) \in Nat /\ \A j \in DOMAIN text : text[j].qty \in Nat
  BY DEF IsDeckList, IsList
<1>2. A \subseteq B /\ B \subseteq 1 .. Len(text) /\ n + 1 \notin A
  BY <1>1 DEF NamedLines
<1>3. IsFiniteSet(A) /\ IsFiniteSet(B)
  <2>1. 1 \in Int /\ Len(text) \in Int
    BY <1>1
  <2>2. IsFiniteSet(1 .. Len(text))
    BY <2>1, FS_Interval
  <2> HIDE DEF A, B
  <2> QED BY <1>2, <2>2, FS_Subset
<1>4. /\ \A j \in A : text[j].qty \in Nat
      /\ \A j \in B : text[j].qty \in Nat
  BY <1>1, <1>2
<1>5. CASE KeyOfLine(text[n + 1]) = key
  <2>1. n + 1 \in B /\ A = B \ {n + 1}
    BY <1>5 DEF NamedLines
  <2> HIDE DEF A, B
  <2>2. Required(text, A) \in Nat /\ Required(text, B) \in Nat
    BY <1>3, <1>4, QuantitiesAdd
  <2>3. Required(text, B) = text[n + 1].qty + Required(text, B \ {n + 1})
    BY <1>3, <1>4, <2>1, QuantitiesAdd
  <2>4. Required(text, B) = text[n + 1].qty + Required(text, A)
    BY <2>1, <2>3
  <2> QED BY <1>5, <2>2, <2>4 DEF A, B
<1>6. CASE KeyOfLine(text[n + 1]) # key
  <2>1. A = B
    BY <1>6 DEF NamedLines
  <2> HIDE DEF A, B
  <2>2. Required(text, A) \in Nat /\ Required(text, B) \in Nat
    BY <1>3, <1>4, QuantitiesAdd
  <2> QED BY <1>6, <2>1, <2>2 DEF A, B
<1> QED BY <1>5, <1>6

\* The first n lines, and one line more.
LEMMA AddingKeepsAddingUp ==
    ASSUME NEW text, IsDeckList(text), NEW n \in Nat, n + 1 <= Len(text),
           NEW deck, AddsUp(deck, text, n)
    PROVE  AddsUp(AddLine(deck, text[n + 1]), text, n + 1)
<1> DEFINE line == text[n + 1]
           k == KeyOfLine(line)
           Asked(key) == Required(text, NamedLines(text, n, key))
           Asks(key) == Required(text, NamedLines(text, n + 1, key))
           same == {i \in DOMAIN deck : Lower[deck[i].name] = k}
           new == AddLine(deck, line)
           E == DeckEntries(text)
<1>1. /\ line.qty \in Nat
      /\ n + 1 \in DOMAIN text
  BY DEF IsDeckList, IsList
<1>2. \A key : /\ Asked(key) \in Nat /\ Asks(key) \in Nat
               /\ Asks(key) = IF k = key THEN line.qty + Asked(key) ELSE Asked(key)
  BY OneLineMore
<1>3. /\ deck \in Seq(E)
      /\ \A i, j \in DOMAIN deck : Lower[deck[i].name] = Lower[deck[j].name] => i = j
      /\ \A i \in DOMAIN deck : deck[i].required = Asked(Lower[deck[i].name])
      /\ \A key : Asked(key) > 0 => \E i \in DOMAIN deck : Lower[deck[i].name] = key
  BY DEF AddsUp
<1> DEFINE Sums(d) == /\ d \in Seq(E)
                      /\ \A i, j \in DOMAIN d : Lower[d[i].name] = Lower[d[j].name] => i = j
                      /\ \A i \in DOMAIN d : d[i].required = Asks(Lower[d[i].name])
                      /\ \A key : Asks(key) > 0 => \E i \in DOMAIN d : Lower[d[i].name] = key
<1>4. DOMAIN deck = 1 .. Len(deck) /\ Len(deck) \in Nat
      /\ \A i \in DOMAIN deck : /\ deck[i] \in E
                                /\ deck[i] = [name |-> deck[i].name, required |-> deck[i].required]
                                /\ deck[i].name \in {DeckName(text[j]) : j \in DOMAIN text}
  <2>1. DOMAIN deck = 1 .. Len(deck) /\ Len(deck) \in Nat /\ \A i \in DOMAIN deck : deck[i] \in E
    <3> HIDE DEF E
    <3> QED BY <1>3
  <2>2. ASSUME NEW e \in E
        PROVE  /\ e = [name |-> e.name, required |-> e.required]
               /\ e.name \in {DeckName(text[j]) : j \in DOMAIN text}
    BY DEF DeckEntries
  <2> HIDE DEF E
  <2> QED BY <2>1, <2>2
<1>5. DeckName(line) \in {DeckName(text[j]) : j \in DOMAIN text}
  BY <1>1
<1>6. k = Lower[DeckName(line)]
  BY DEF KeyOfLine
<1>7. ASSUME line.qty = 0 PROVE Sums(new)
  <2>1. new = deck
    BY <1>7 DEF AddLine
  <2> HIDE DEF Asked, Asks, new, k, line, E
  <2>2. \A key : Asks(key) = Asked(key)
    BY <1>2, <1>7
  <2> QED BY <1>3, <2>1, <2>2 DEF Sums
<1>8. ASSUME line.qty # 0 /\ same = {} PROVE Sums(new)
  <2> DEFINE e == [name |-> DeckName(line), required |-> line.qty]
  <2>1. new = Append(deck, e)
    BY <1>6, <1>8 DEF AddLine
  <2>2. e \in E /\ e.name = DeckName(line) /\ e.required = line.qty
    BY <1>1, <1>5 DEF DeckEntries
  <2> HIDE DEF Asked, Asks, new, k, line, E, e
  <2>3. /\ new \in Seq(E) /\ DOMAIN new = 1 .. Len(deck) + 1
        /\ new[Len(deck) + 1] = e
        /\ \A i \in DOMAIN deck : new[i] = deck[i]
    BY <1>3, <1>4, <2>1, <2>2
  <2>4. Asked(k) = 0
    BY <1>2, <1>3, <1>8
  <2>5. Asks(k) = line.qty
    BY <1>1, <1>2, <2>4
  <2>6. \A i \in DOMAIN deck : Lower[deck[i].name] # k
    BY <1>8
  <2>7. \A i \in DOMAIN new : i \in DOMAIN deck \/ (i = Len(deck) + 1 /\ i \notin DOMAIN deck)
    BY <1>4, <2>3
  <2>8. \A i, j \in DOMAIN new : Lower[new[i].name] = Lower[new[j].name] => i = j
    BY <1>3, <1>6, <2>2, <2>3, <2>6, <2>7
  <2>9. ASSUME NEW i \in DOMAIN new PROVE new[i].required = Asks(Lower[new[i].name])
    <3>1. CASE i \in DOMAIN deck
      <4>1. deck[i].required = Asked(Lower[deck[i].name]) /\ Lower[deck[i].name] # k /\ new[i] = deck[i]
        BY <1>3, <2>3, <2>6, <3>1
      <4>2. Asks(Lower[deck[i].name]) = Asked(Lower[deck[i].name])
        BY <1>2, <4>1
      <4> QED BY <4>1, <4>2
    <3>2. CASE i = Len(deck) + 1
      BY <1>6, <2>2, <2>3, <2>5, <3>2
    <3> QED BY <2>7, <3>1, <3>2
  <2>10. ASSUME NEW key, Asks(key) > 0 PROVE \E i \in DOMAIN new : Lower[new[i].name] = key
    <3>1. CASE key = k
      <4>1. Len(deck) + 1 \in DOMAIN new
        BY <1>4, <2>3
      <4> QED BY <1>6, <2>2, <2>3, <3>1, <4>1
    <3>2. CASE key # k
      <4>1. Asked(key) > 0
        BY <1>2, <2>10, <3>2
      <4>2. PICK i \in DOMAIN deck : Lower[deck[i].name] = key
        BY <1>3, <4>1
      <4>3. i \in DOMAIN new /\ new[i] = deck[i]
        BY <1>4, <2>3
      <4> QED BY <4>2, <4>3
    <3> QED BY <3>1, <3>2
  <2> QED BY <2>3, <2>8, <2>9, <2>10 DEF Sums
<1>9. ASSUME line.qty # 0 /\ same # {} PROVE Sums(new)
  <2> DEFINE m == CHOOSE i \in same : TRUE
             e == [deck[m] EXCEPT !.required = @ + line.qty]
  <2>1. new = [deck EXCEPT ![m] = e]
    BY <1>6, <1>9 DEF AddLine
  <2>2. m \in DOMAIN deck /\ Lower[deck[m].name] = k
    BY <1>9
  <2> HIDE DEF m
  <2>3. e.name = deck[m].name /\ e.required = deck[m].required + line.qty
    BY <1>4, <2>2
  <2>4. e \in E
    BY <1>1, <1>4, <2>2 DEF DeckEntries
  <2> HIDE DEF Asked, Asks, new, k, line, E, e
  <2>5. /\ new \in Seq(E) /\ DOMAIN new = DOMAIN deck
        /\ new[m] = e
        /\ \A i \in DOMAIN deck : i # m => new[i] = deck[i]
    BY <1>3, <1>4, <2>1, <2>2, <2>4
  <2>6. \A i \in DOMAIN deck : new[i].name = deck[i].name
    BY <2>3, <2>5
  <2>7. \A i, j \in DOMAIN new : Lower[new[i].name] = Lower[new[j].name] => i = j
    BY <1>3, <2>5, <2>6
  <2>8. ASSUME NEW i \in DOMAIN new PROVE new[i].required = Asks(Lower[new[i].name])
    <3>1. CASE i # m
      <4>1. Lower[deck[i].name] # k /\ new[i] = deck[i] /\ deck[i].required = Asked(Lower[deck[i].name])
        BY <1>3, <2>2, <2>5, <3>1
      <4>2. Asks(Lower[deck[i].name]) = Asked(Lower[deck[i].name])
        BY <1>2, <4>1
      <4> QED BY <4>1, <4>2
    <3>2. CASE i = m
      <4>1. deck[m].required = Asked(k) /\ Asks(k) = line.qty + Asked(k)
        BY <1>2, <1>3, <2>2
      <4>2. new[i].required = Asked(k) + line.qty /\ Lower[new[i].name] = k
        BY <2>2, <2>3, <2>5, <3>2, <4>1
      <4>3. Asked(k) \in Nat /\ line.qty \in Nat
        BY <1>1, <1>2
      <4> QED BY <4>1, <4>2, <4>3
    <3> QED BY <3>1, <3>2
  <2>9. ASSUME NEW key, Asks(key) > 0 PROVE \E i \in DOMAIN new : Lower[new[i].name] = key
    <3>1. CASE key = k
      BY <2>2, <2>5, <2>6, <3>1
    <3>2. CASE key # k
      <4>1. Asked(key) > 0
        BY <1>2, <2>9, <3>2
      <4>2. PICK i \in DOMAIN deck : Lower[deck[i].name] = key
        BY <1>3, <4>1
      <4> QED BY <2>5, <2>6, <4>2
    <3> QED BY <3>1, <3>2
  <2> QED BY <2>5, <2>7, <2>8, <2>9 DEF Sums
<1>10. Sums(new)
  BY <1>7, <1>8, <1>9
<1> HIDE DEF new
<1>11. AddsUp(new, text, n + 1)
  BY <1>10 DEF AddsUp
<1> QED BY <1>11 DEF new

\* A pasted list, whatever it repeats and however it spells its names.
LEMMA DecksAddUp ==
    ASSUME NEW text, IsDeckList(text) PROVE AddsUp(ParseMagicDeckList(text), text, Len(text))
<1>1. Len(text) \in Nat /\ DOMAIN text = 1 .. Len(text)
  BY DEF IsDeckList, IsList
<1> DEFINE f == CHOOSE f : DeckTable(f, text, Len(text))
<1>2. ParseMagicDeckList(text) = f[Len(text)]
  BY DEF ParseMagicDeckList, DeckTable
<1>3. DeckTable(f, text, Len(text))
  BY <1>1, DecksUnfold
<1> HIDE DEF f
<1> DEFINE T == {n \in Nat : n <= Len(text) => AddsUp(f[n], text, n)}
<1>4. 0 \in T
  <2>1. f[0] = <<>>
    BY <1>1, <1>3 DEF DeckTable
  <2>2. \A key : NamedLines(text, 0, key) = {}
    BY DEF NamedLines
  <2>3. \A key : Required(text, NamedLines(text, 0, key)) = 0
    <3>1. IsFiniteSet({})
      BY FS_EmptySet
    <3>2. Required(text, {}) = 0
      BY <3>1, QuantitiesAdd
    <3> QED BY <2>2, <3>2
  <2>4. DOMAIN <<>> = {} /\ <<>> \in Seq(DeckEntries(text))
    OBVIOUS
  <2>5. AddsUp(<<>>, text, 0)
    BY <2>3, <2>4 DEF AddsUp
  <2> QED BY <2>1, <2>5
<1>5. ASSUME NEW n \in T PROVE n + 1 \in T
  <2>1. n \in Nat /\ n + 1 \in Nat
    OBVIOUS
  <2>2. ASSUME n + 1 <= Len(text) PROVE AddsUp(f[n + 1], text, n + 1)
    <3>1. n + 1 \in 0 .. Len(text) /\ n + 1 # 0 /\ (n + 1) - 1 = n /\ n <= Len(text)
      BY <1>1, <2>1, <2>2
    <3>2. f[n + 1] = AddLine(f[n], text[n + 1])
      BY <1>3, <3>1 DEF DeckTable
    <3>3. AddsUp(f[n], text, n)
      BY <3>1
    <3> QED BY <2>1, <2>2, <3>2, <3>3, AddingKeepsAddingUp
  <2> QED BY <2>1, <2>2
<1>6. T = Nat
  <2>1. T \in SUBSET Nat
    OBVIOUS
  <2> HIDE DEF T
  <2> QED BY <1>4, <1>5, <2>1, SetInduction
<1> QED BY <1>1, <1>2, <1>6

\* What the result says of a name, once per name, and of what is required of it and owned.
Accounts(result, key, required, owned) ==
    /\ {r.missing : r \in {x \in result.missing : Lower[x.name] = key}}
         = {n \in {required - owned} : n > 0}
    /\ {r.owned : r \in {x \in result.owned : Lower[x.name] = key}}
         = {n \in {owned} : n > 0}

OwnedAs(cards, key) == {c \in cards : Lower[c.name] = key}

LEMMA ResultAccounts ==
    ASSUME NEW text, IsDeckList(text), NEW cards, Amounts(cards), NEW key,
           Required(text, NamedLines(text, Len(text), key)) > 0
    PROVE  Accounts(AnalyzeMagicDeckCheck(ParseMagicDeckList(text), cards), key,
                    Required(text, NamedLines(text, Len(text), key)), Owned(OwnedAs(cards, key)))
<1> DEFINE deck == ParseMagicDeckList(text)
           result == AnalyzeMagicDeckCheck(deck, cards)
           Asked(k) == Required(text, NamedLines(text, Len(text), k))
           Has(k) == Owned(OwnedAs(cards, k))
           entries == ToSet(deck)
<1>1. AddsUp(deck, text, Len(text))
  BY DecksAddUp
<1>2. ASSUME NEW k PROVE Has(k) \in Nat
  <2>1. Amounts(OwnedAs(cards, k))
    <3>1. OwnedAs(cards, k) \subseteq cards
      BY DEF OwnedAs
    <3> QED BY <3>1, FS_Subset DEF Amounts
  <2> QED BY <2>1, OwnedIsANumber
<1>3. ASSUME NEW e PROVE OwnedAmount(cards, e.name) = Has(Lower[e.name])
  BY DEF OwnedAmount, Owned, OwnedAs
<1> HIDE DEF deck
<1>4. /\ \A e \in entries : e.required \in Nat /\ e.required = Asked(Lower[e.name])
      /\ \A d, e \in entries : Lower[d.name] = Lower[e.name] => d = e
      /\ \A k : Asked(k) > 0 => \E e \in entries : Lower[e.name] = k
  <2>1. entries = {deck[i] : i \in DOMAIN deck}
    BY DEF ToSet
  <2>2. \A i \in DOMAIN deck : deck[i].required \in Nat
    <3>1. deck \in Seq(DeckEntries(text))
      BY <1>1 DEF AddsUp
    <3>2. \A e \in DeckEntries(text) : e.required \in Nat
      BY DEF DeckEntries
    <3> QED BY <3>1, <3>2
  <2> QED BY <1>1, <2>1, <2>2 DEF AddsUp
<1> DEFINE short == {e \in entries : e.required > Has(Lower[e.name])}
           got == {e \in entries : Has(Lower[e.name]) > 0}
<1>5. /\ result.missing = {[name |-> e.name, required |-> e.required,
                            missing |-> e.required - Has(Lower[e.name])] : e \in short}
      /\ result.owned = {[name |-> e.name, required |-> e.required,
                          owned |-> Has(Lower[e.name])] : e \in got}
  <2>1. short = {x \in entries : x.required > OwnedAmount(cards, x.name)}
    BY <1>3
  <2>2. got = {x \in entries : OwnedAmount(cards, x.name) > 0}
    BY <1>3
  <2> HIDE DEF short, got, Has, entries
  <2> QED BY <1>3, <2>1, <2>2 DEF AnalyzeMagicDeckCheck, entries
<1>6. PICK e \in entries : Lower[e.name] = key
  BY <1>4
<1>7. e.required = Asked(key) /\ Asked(key) \in Nat /\ Has(key) \in Nat
  BY <1>2, <1>4, <1>6
<1> HIDE DEF Asked, Has, entries, result
<1>8. {r.missing : r \in {x \in result.missing : Lower[x.name] = key}}
        = {n \in {Asked(key) - Has(key)} : n > 0}
  <2>1. \A r \in result.missing :
          Lower[r.name] = key => r.missing = Asked(key) - Has(key) /\ Asked(key) > Has(key)
    BY <1>4, <1>5, <1>6, <1>7
  <2>2. Asked(key) > Has(key) => \E r \in result.missing : Lower[r.name] = key
    <3> SUFFICES ASSUME Asked(key) > Has(key) PROVE \E r \in result.missing : Lower[r.name] = key
      OBVIOUS
    <3>1. e \in short
      BY <1>6, <1>7
    <3> DEFINE r == [name |-> e.name, required |-> e.required,
                     missing |-> e.required - Has(Lower[e.name])]
    <3>2. r \in result.missing /\ r.name = e.name
      BY <1>5, <3>1
    <3> HIDE DEF r
    <3> QED BY <1>6, <3>2
  <2>3. Asked(key) - Has(key) > 0 <=> Asked(key) > Has(key)
    BY <1>7
  <2> HIDE DEF short, got
  <2> DEFINE n == Asked(key) - Has(key)
  <2> HIDE DEF n
  <2>4. \A r \in result.missing : Lower[r.name] = key => r.missing = n /\ n > 0
    BY <2>1, <2>3 DEF n
  <2>5. n > 0 => \E r \in result.missing : Lower[r.name] = key
    BY <2>2, <2>3 DEF n
  <2>6. {r.missing : r \in {x \in result.missing : Lower[x.name] = key}} = {i \in {n} : i > 0}
    BY <2>4, <2>5
  <2> QED BY <2>6 DEF n
<1>9. {r.owned : r \in {x \in result.owned : Lower[x.name] = key}}
        = {n \in {Has(key)} : n > 0}
  <2>1. \A r \in result.owned : Lower[r.name] = key => r.owned = Has(key) /\ Has(key) > 0
    BY <1>4, <1>5, <1>6, <1>7
  <2>2. Has(key) > 0 => \E r \in result.owned : Lower[r.name] = key
    <3> SUFFICES ASSUME Has(key) > 0 PROVE \E r \in result.owned : Lower[r.name] = key
      OBVIOUS
    <3>1. e \in got
      BY <1>6, <1>7
    <3> DEFINE r == [name |-> e.name, required |-> e.required, owned |-> Has(Lower[e.name])]
    <3>2. r \in result.owned /\ r.name = e.name
      BY <1>5, <3>1
    <3> HIDE DEF r
    <3> QED BY <1>6, <3>2
  <2> HIDE DEF short, got
  <2> QED BY <2>1, <2>2
<1> QED BY <1>8, <1>9 DEF Accounts, Asked, Has, result, deck

-----------------------------------------------------------------------------
(***************************************************************************)
(* The deck check's tab: its result is of its own text and records.        *)
(***************************************************************************)

IsDeckTab(t) == t = [cards |-> t.cards, text |-> t.text, showing |-> t.showing, result |-> t.result]
DeckOK(t) ==
    /\ IsDeckTab(t) /\ IsDeckList(t.text) /\ Amounts(t.cards)
    /\ t.showing => t.result = AnalyzeMagicDeckCheck(ParseMagicDeckList(t.text), t.cards)

HasAmounts(d) == Readable(d.cards) => Amounts(d.cards)

DeckHolds ==
    /\ \A f \in Folders : HasAmounts(disk[f])
    /\ DeckOK(tab)
    /\ Known => tab.cards = LoadCards(Here)

DeckInv == Inv /\ (game = "Magic" => DeckHolds)

\* Magic's records are read as they were saved.
LEMMA MagicIsRead == ASSUME NEW d, Amounts(d.cards) PROVE LoadCards(d) = d.cards
<1>1. \A c \in d.cards : LoadCard(c) = c
  <2> SUFFICES ASSUME NEW c \in d.cards PROVE LoadCard(c) = c
    OBVIOUS
  <2>1. c.region = "Magic"
    BY DEF Amounts, IsMagicRecord
  <2> QED BY <2>1 DEF LoadCard
<1> QED BY <1>1 DEF LoadCards

\* The invariant is stronger than DeckIsAccountedFor.
LEMMA InvAccounts == DeckInv => DeckIsAccountedFor
<1> SUFFICES ASSUME DeckInv, game = "Magic", Known, tab.showing, NEW i \in DOMAIN tab.text,
                    Required(tab.text, NamedLines(tab.text, Len(tab.text), KeyOfLine(tab.text[i]))) > 0
             PROVE  Accounts(tab.result, KeyOfLine(tab.text[i]),
                             Required(tab.text, NamedLines(tab.text, Len(tab.text), KeyOfLine(tab.text[i]))),
                             Owned(OwnedAs(LoadCards(Here), KeyOfLine(tab.text[i]))))
  <2> SUFFICES ASSUME DeckInv, game = "Magic", Known, tab.showing PROVE DeckIsAccountedFor
    BY DEF DeckIsAccountedFor
  <2>1. DOMAIN tab.text = 1 .. Len(tab.text)
    BY DEF DeckInv, DeckHolds, DeckOK, IsDeckList, IsList
  <2> QED BY <2>1 DEF DeckIsAccountedFor, Required, Owned, OwnedAs, NamedLines, KeyOfLine, Accounts
<1>1. /\ DeckOK(tab) /\ tab.cards = LoadCards(Here)
      /\ tab.result = AnalyzeMagicDeckCheck(ParseMagicDeckList(tab.text), tab.cards)
  BY DEF DeckInv, DeckHolds, DeckOK
<1> QED BY <1>1, ResultAccounts DEF DeckOK

ChangesOfADeck(t, x, r) ==
    /\ [t EXCEPT !.cards = x, !.result = r] =
         [cards |-> x, text |-> t.text, showing |-> t.showing, result |-> r]
    /\ [t EXCEPT !.text = x] =
         [cards |-> t.cards, text |-> x, showing |-> t.showing, result |-> t.result]
    /\ [t EXCEPT !.showing = x, !.result = r] =
         [cards |-> t.cards, text |-> t.text, showing |-> x, result |-> r]

\* Changing a field of the tab leaves the others as they are.
LEMMA FieldsOfADeck == ASSUME NEW t, IsDeckTab(t), NEW x, NEW r PROVE ChangesOfADeck(t, x, r)
<1> DEFINE A == {t.cards, x} B == {t.text, x} C == {t.showing, x} D == {t.result, r}
           R == [cards : A, text : B, showing : C, result : D]
           Whole(u) == u = [cards |-> u.cards, text |-> u.text, showing |-> u.showing, result |-> u.result]
           ce == [t EXCEPT !.cards = x, !.result = r]
           te == [t EXCEPT !.text = x]
           se == [t EXCEPT !.showing = x, !.result = r]
<1>1. t = [cards |-> t.cards, text |-> t.text, showing |-> t.showing, result |-> t.result]
  BY DEF IsDeckTab
<1>2. t \in R /\ x \in A /\ x \in B /\ x \in C /\ r \in D
  BY <1>1
<1>3. \A u \in R : Whole(u)
  OBVIOUS
<1> HIDE DEF A, B, C, D
<1>4. /\ ce \in R /\ ce.cards = x /\ ce.text = t.text /\ ce.showing = t.showing /\ ce.result = r
      /\ te \in R /\ te.cards = t.cards /\ te.text = x /\ te.showing = t.showing /\ te.result = t.result
      /\ se \in R /\ se.cards = t.cards /\ se.text = t.text /\ se.showing = x /\ se.result = r
  BY <1>1, <1>2
<1> HIDE DEF R, ce, te, se
<1>5. Whole(ce) /\ Whole(te) /\ Whole(se)
  BY <1>3, <1>4
<1>6. ce = [cards |-> x, text |-> t.text, showing |-> t.showing, result |-> r]
  BY <1>4, <1>5
<1>7. te = [cards |-> t.cards, text |-> x, showing |-> t.showing, result |-> t.result]
  BY <1>4, <1>5
<1>8. se = [cards |-> t.cards, text |-> t.text, showing |-> x, result |-> r]
  BY <1>4, <1>5
<1> QED BY <1>6, <1>7, <1>8 DEF ChangesOfADeck, ce, te, se

\* A refreshed tab is fine, and has the records if they can be read.
LEMMA DeckIsRefreshed ==
    ASSUME game = "Magic", NEW t, DeckOK(t), NEW d, HasAmounts(d)
    PROVE  DeckOK(Refresh(t, d)) /\ (Readable(d.cards) => Refresh(t, d).cards = LoadCards(d))
<1>1. CASE ~Readable(d.cards)
  BY <1>1 DEF Refresh
<1>2. CASE Readable(d.cards)
  <2> DEFINE cards == LoadCards(d)
             r == IF t.showing THEN AnalyzeMagicDeckCheck(ParseMagicDeckList(t.text), cards) ELSE t.result
             u == [t EXCEPT !.cards = cards, !.result = r]
  <2>1. Refresh(t, d) = u
    BY <1>2 DEF Refresh, SetCards, SetDeckCollection
  <2>2. Amounts(cards)
    BY <1>2, MagicIsRead DEF HasAmounts
  <2>3. t.showing => r = AnalyzeMagicDeckCheck(ParseMagicDeckList(t.text), cards)
    OBVIOUS
  <2> HIDE DEF cards, r
  <2>4. ChangesOfADeck(t, cards, r)
    BY FieldsOfADeck DEF DeckOK
  <2>5. u = [cards |-> cards, text |-> t.text, showing |-> t.showing, result |-> r]
    BY <2>4 DEF ChangesOfADeck
  <2> HIDE DEF u
  <2>6. DeckOK(u) /\ u.cards = cards
    BY <2>2, <2>3, <2>5 DEF DeckOK, IsDeckTab
  <2> QED BY <2>1, <2>6 DEF cards
<1> QED BY <1>1, <1>2

\* A tab that is built anew.
LEMMA DeckIsMounted ==
    ASSUME game = "Magic", NEW d, HasAmounts(d)
    PROVE  DeckOK(Mounted(d)) /\ (Readable(d.cards) => Mounted(d).cards = LoadCards(d))
<1> DEFINE t == DeckPanel({})
<1>1. t = [cards |-> {}, text |-> <<>>, showing |-> FALSE, result |-> NoResult]
  BY DEF DeckPanel
<1>2. IsDeckList(<<>>) /\ Amounts({})
  <2>1. DOMAIN <<>> = {} /\ \A X : <<>> \in Seq(X)
    OBVIOUS
  <2> QED BY <2>1, FS_EmptySet DEF IsDeckList, IsList, Amounts
<1> HIDE DEF t
<1>3. DeckOK(t)
  BY <1>1, <1>2 DEF DeckOK, IsDeckTab
<1>4. Mounted(d) = Refresh(t, d)
  BY DEF Mounted, t
<1> QED BY <1>3, <1>4, DeckIsRefreshed

-----------------------------------------------------------------------------
\* What a step makes of records and tab.

LEMMA DeckNow ==
    ASSUME DeckInv, game = "Magic"
    PROVE  /\ Inv /\ DiskInv /\ Parts = {"Magic"} /\ IsFolder(Here, Parts) /\ folder \in Folders
           /\ HasAmounts(Here) /\ DeckOK(tab) /\ DeckHolds
           /\ \A f \in Folders : HasAmounts(disk[f])
<1>1. Parts = {"Magic"}
  BY GameIsOne, PartsOfGames DEF DeckInv, Inv
<1> QED BY <1>1 DEF DeckInv, Inv, DiskInv, DeckHolds, Here

\* A write of the folder in use, after which the tab is refreshed or left alone.
LEMMA DeckIsWritten ==
    ASSUME DeckInv, game = "Magic", NEW d, IsFolder(d, Parts), HasAmounts(d), Writes(d),
           UNCHANGED <<game, folder, saved, catalogOf>>,
           \/ tab' = Refresh(tab, d)
           \/ UNCHANGED <<tab, behind>> /\ (d.cards = Here.cards \/ ~Readable(d.cards))
    PROVE  DeckHolds'
<1>1. /\ Here' = d
      /\ \A f \in Folders : disk'[f] = IF f = folder THEN d ELSE disk[f]
  BY DiskIsWritten, DeckNow
<1>2. \A f \in Folders : HasAmounts(disk'[f])
  BY <1>1, DeckNow
<1>3. Known' => Readable(d.cards)
  BY <1>1 DEF Known
<1>4. CASE tab' = Refresh(tab, d)
  <2>1. DeckOK(tab') /\ (Readable(d.cards) => tab'.cards = LoadCards(d))
    BY <1>4, DeckIsRefreshed, DeckNow
  <2> QED BY <1>1, <1>2, <1>3, <2>1 DEF DeckHolds, HasAmounts, DeckOK, IsDeckTab
<1>5. CASE UNCHANGED <<tab, behind>> /\ (d.cards = Here.cards \/ ~Readable(d.cards))
  <2>1. Known' => Known /\ LoadCards(d) = LoadCards(Here)
    BY <1>1, <1>5 DEF Known, LoadCards
  <2>2. DeckOK(tab') /\ tab'.cards = tab.cards
    BY <1>5, DeckNow
  <2> QED BY <1>1, <1>2, <2>1, <2>2, DeckNow DEF DeckHolds, HasAmounts, DeckOK, IsDeckTab
<1> QED BY <1>4, <1>5

\* A dialog that is cancelled, or saves records with amounts.
LEMMA DialogAccounts ==
    ASSUME DeckInv, game = "Magic", NEW s, LeavesAlone(s, Here, Parts), NEW w, DialogOpens(s, w)
    PROVE  /\ Cancels(s) => DeckHolds'
           /\ \A cards, end : Amounts(cards) /\ Save(s.d, cards, end) => DeckHolds'
<1> DEFINE d == s.d
<1>1. IsFolder(d, Parts) /\ d.cards = Here.cards
  BY DEF LeavesAlone
<1>2. UNCHANGED <<game, folder, saved, catalogOf>>
  BY DEF DialogOpens
<1> HIDE DEF d
<1>3. HasAmounts(d)
  BY <1>1, DeckNow DEF HasAmounts
<1>4. ASSUME Writes(d), UNCHANGED <<tab, behind>> PROVE DeckHolds'
  BY <1>1, <1>2, <1>3, <1>4, DeckIsWritten
<1>5. ASSUME NEW cards, NEW end, Amounts(cards), Save(d, cards, end) PROVE DeckHolds'
  <2> DEFINE new == Write(end, d.cards, cards)
             after == [d EXCEPT !.cards = new]
  <2>1. /\ Writes(after)
        /\ IF end = "ok" THEN tab' = Refresh(tab, after) /\ behind' = FALSE
                         ELSE UNCHANGED <<tab, behind>>
    BY <1>5 DEF Save
  <2>2. /\ end = "ok" \/ new = d.cards \/ ~Readable(new)
        /\ new = cards \/ new = d.cards \/ ~Readable(new)
    BY DEF Write, Readable
  <2> HIDE DEF new
  <2>3. Becomes(d, after, Parts, new, d.sets, d.packs)
    BY <1>1, RecordsAreWritten
  <2> HIDE DEF after
  <2>4. IsFolder(after, Parts) /\ after.cards = new /\ HasAmounts(after)
    BY <1>3, <1>5, <2>2, <2>3 DEF Becomes, HasAmounts
  <2> QED BY <1>1, <1>2, <2>1, <2>2, <2>4, DeckIsWritten
<1> QED BY <1>4, <1>5 DEF Cancels, d

\* A record more, and perhaps one less.
LEMMA AmountsOfOneMore ==
    ASSUME NEW cards, Amounts(cards), NEW r, IsMagicRecord(r), NEW new \in SUBSET (cards \cup {r})
    PROVE  Amounts(new)
<1>1. IsFiniteSet(cards \cup {r})
  BY FS_AddElement DEF Amounts
<1>2. IsFiniteSet(new)
  BY <1>1, FS_Subset
<1> QED BY <1>2 DEF Amounts

LEMMA DraftsHaveAmounts ==
    ASSUME DeckInv, game = "Magic" PROVE \A draft \in Drafts["Magic"] : draft.amount \in Nat
BY DeckAssumption DEF DeckInv, Inv, DiskInv

\* What the dialog makes of a set and a draft is a record of the deck.
LEMMA ChosenAmounts ==
    ASSUME DeckInv, game = "Magic", NEW p \in Parts, NEW set, NEW draft \in Drafts[p],
           NEW r, r = Record(p, set, draft)
    PROVE  IsMagicRecord(r)
<1>1. p = "Magic" /\ draft.amount \in Nat
  BY DraftsHaveAmounts, DeckNow
<1>2. r = [region |-> "Magic", set |-> set.id, name |-> draft.name, amount |-> draft.amount]
  BY <1>1 DEF Record
<1> QED BY <1>1, <1>2 DEF IsMagicRecord

LEMMA KeptAmounts ==
    ASSUME DeckInv, game = "Magic", NEW c \in tab.cards, NEW draft \in Drafts[c.region],
           NEW r, r = Redraft(c, draft)
    PROVE  IsMagicRecord(r)
<1>1. IsMagicRecord(c)
  BY DeckNow DEF DeckOK, Amounts
<1>2. c.region = "Magic" /\ draft.amount \in Nat
  <2>1. c.region = "Magic"
    BY <1>1 DEF IsMagicRecord
  <2> QED BY <2>1, DraftsHaveAmounts
<1>3. r = [c EXCEPT !.name = draft.name, !.amount = draft.amount]
  BY <1>2 DEF Redraft
<1>4. c = [region |-> "Magic", set |-> c.set, name |-> c.name, amount |-> c.amount]
  BY <1>1 DEF IsMagicRecord
<1>5. r = [region |-> "Magic", set |-> c.set, name |-> draft.name, amount |-> draft.amount]
  <2> DEFINE N == {c.name, draft.name} A == {c.amount, draft.amount} S == {c.set}
             R == [region : {"Magic"}, set : S, name : N, amount : A]
  <2>1. c \in R /\ draft.name \in N /\ draft.amount \in A
    BY <1>4
  <2>2. \A u \in R : u = [region |-> u.region, set |-> u.set, name |-> u.name, amount |-> u.amount]
    OBVIOUS
  <2> HIDE DEF N, A, S
  <2>3. r \in R /\ r.region = "Magic" /\ r.set = c.set /\ r.name = draft.name /\ r.amount = draft.amount
    BY <1>3, <1>4, <2>1
  <2> HIDE DEF R
  <2> QED BY <2>2, <2>3
<1> QED BY <1>2, <1>5 DEF IsMagicRecord

LEMMA AddAccounts == DeckInv /\ game = "Magic" /\ OnAddCard => DeckHolds'
<1> SUFFICES ASSUME DeckInv, game = "Magic", OnAddCard PROVE DeckHolds'
  OBVIOUS
<1>1. PICK w, answers : /\ DialogOpens(Offered(answers, w), w)
                        /\ Cancels(Offered(answers, w)) \/ Add(Offered(answers, w), w["cards"])
  BY DEF OnAddCard
<1> DEFINE s == Offered(answers, w)
<1>2. LeavesAlone(s, Here, Parts)
  BY OfferIsFine, DeckNow
<1>3. DialogOpens(s, w) /\ (Cancels(s) \/ Add(s, w["cards"]))
  BY <1>1
<1> HIDE DEF s
<1>4. ASSUME Add(s, w["cards"]) PROVE \E cards : Amounts(cards) /\ Save(s.d, cards, w["cards"])
  <2>1. PICK p \in Parts : \E set \in s.cache[p], draft \in Drafts[p] :
          Save(s.d, LoadCards(s.d) \cup {Record(p, set, draft)}, w["cards"])
    BY <1>4 DEF Add
  <2>2. PICK set \in s.cache[p], draft \in Drafts[p] :
          Save(s.d, LoadCards(s.d) \cup {Record(p, set, draft)}, w["cards"])
    BY <2>1
  <2> DEFINE r == Record(p, set, draft)
  <2>3. IsMagicRecord(r)
    BY ChosenAmounts
  <2>4. Readable(s.d.cards) /\ s.d.cards = Here.cards
    BY <1>2, <1>4 DEF Add, LeavesAlone
  <2>5. LoadCards(s.d) = Here.cards /\ Amounts(Here.cards)
    BY <2>4, MagicIsRead, DeckNow DEF HasAmounts
  <2> HIDE DEF r
  <2>6. Amounts(LoadCards(s.d) \cup {r})
    BY <2>3, <2>5, AmountsOfOneMore
  <2> QED BY <2>2, <2>6 DEF r
<1> QED BY <1>2, <1>3, <1>4, DialogAccounts

LEMMA EditAccounts == DeckInv /\ game = "Magic" /\ OnEditCard => DeckHolds'
<1> SUFFICES ASSUME DeckInv, game = "Magic", OnEditCard PROVE DeckHolds'
  OBVIOUS
<1>1. PICK w, answers : /\ DialogOpens(Offered(answers, w), w)
                        /\ Cancels(Offered(answers, w)) \/ Edit(Offered(answers, w), w["cards"])
  BY DEF OnEditCard
<1> DEFINE s == Offered(answers, w)
<1>2. LeavesAlone(s, Here, Parts)
  BY OfferIsFine, DeckNow
<1>3. DialogOpens(s, w) /\ (Cancels(s) \/ Edit(s, w["cards"]))
  BY <1>1
<1> HIDE DEF s
<1>4. ASSUME Edit(s, w["cards"]) PROVE \E cards : Amounts(cards) /\ Save(s.d, cards, w["cards"])
  <2>1. PICK c \in tab.cards : \E old \in WithIdOf(c, s.d), r \in Edits(c, s.cache) :
          Save(s.d, (LoadCards(s.d) \ {old}) \cup {r}, w["cards"])
    BY <1>4 DEF Edit
  <2>2. PICK old \in WithIdOf(c, s.d), r \in Edits(c, s.cache) :
          Save(s.d, (LoadCards(s.d) \ {old}) \cup {r}, w["cards"])
    BY <2>1
  <2>3. IsMagicRecord(r)
    <3>1. \/ \E draft \in Drafts[c.region] : r = Redraft(c, draft)
          \/ \E p \in Parts : \E set : \E draft \in Drafts[p] : r = Record(p, set, draft)
      BY DEF Edits
    <3> QED BY <3>1, ChosenAmounts, KeptAmounts
  <2>4. Readable(s.d.cards) /\ s.d.cards = Here.cards
    BY <1>2, <1>4 DEF Edit, LeavesAlone
  <2>5. LoadCards(s.d) = Here.cards /\ Amounts(Here.cards)
    BY <2>4, MagicIsRead, DeckNow DEF HasAmounts
  <2>6. Amounts((LoadCards(s.d) \ {old}) \cup {r})
    BY <2>3, <2>5, AmountsOfOneMore
  <2> QED BY <2>2, <2>6
<1> QED BY <1>2, <1>3, <1>4, DialogAccounts

LEMMA DeleteAccounts == DeckInv /\ game = "Magic" /\ OnDeleteCard => DeckHolds'
<1> SUFFICES ASSUME DeckInv, game = "Magic", OnDeleteCard PROVE DeckHolds'
  OBVIOUS
<1>1. UNCHANGED <<game, folder, saved, catalogOf>>
  BY DEF OnDeleteCard
<1>2. \/ /\ Readable(Here.cards)
         /\ \E old, end : LET x == Write(end, Here.cards, LoadCards(Here) \ {old})
                          IN  /\ Writes([Here EXCEPT !.cards = x])
                              /\ tab' = Refresh(tab, [Here EXCEPT !.cards = x])
      \/ tab' = Refresh(tab, Here) /\ UNCHANGED disk
  BY DEF OnDeleteCard
<1>3. ASSUME Readable(Here.cards), NEW old, NEW end, NEW x, x = Write(end, Here.cards, LoadCards(Here) \ {old}),
             Writes([Here EXCEPT !.cards = x]), tab' = Refresh(tab, [Here EXCEPT !.cards = x])
      PROVE  DeckHolds'
  <2> DEFINE d == [Here EXCEPT !.cards = x]
  <2>1. Becomes(Here, d, Parts, x, Here.sets, Here.packs)
    BY RecordsAreWritten, DeckNow
  <2>2. Writes(d) /\ tab' = Refresh(tab, d)
    BY <1>3
  <2> HIDE DEF d
  <2>3. Amounts(Here.cards) /\ LoadCards(Here) = Here.cards
    BY <1>3, MagicIsRead, DeckNow DEF HasAmounts
  <2>4. Amounts(Here.cards \ {old})
    BY <2>3, FS_Subset DEF Amounts
  <2>5. x = Here.cards \ {old} \/ x = Here.cards \/ ~Readable(x)
    BY <1>3, <2>3 DEF Write, Readable
  <2>6. IsFolder(d, Parts) /\ HasAmounts(d)
    BY <2>1, <2>3, <2>4, <2>5 DEF Becomes, HasAmounts
  <2> QED BY <1>1, <2>2, <2>6, DeckIsWritten
<1>4. ASSUME tab' = Refresh(tab, Here), UNCHANGED disk PROVE DeckHolds'
  <2>1. Writes(Here)
    BY <1>4, DeckNow DEF Writes, DiskInv, Here
  <2> QED BY <1>1, <1>4, <2>1, DeckIsWritten, DeckNow
<1> QED BY <1>2, <1>3, <1>4

\* An update of the sets touches no record.
LEMMA UpdateAccounts == DeckInv /\ game = "Magic" /\ OnUpdateSets => DeckHolds'
<1> SUFFICES ASSUME DeckInv, game = "Magic", OnUpdateSets PROVE DeckHolds'
  OBVIOUS
<1>1. OnUpdateMagicSets /\ UNCHANGED <<game, folder, saved, tab, behind, catalogOf>>
  BY DEF OnUpdateSets, OnUpdateMagicSets, OnUpdatePokemonSets, OnUpdateYuGiOhSets, OnUpdateDigiSets,
         OnUpdateBandaiSets, SelectTab
<1>2. PICK fetched, w : Writes(SaveSets(Here, "Magic", fetched.sets, w["sets"]))
  BY <1>1 DEF OnUpdateMagicSets
<1> DEFINE sets == fetched.sets
           end == w["sets"]
           d == SaveSets(Here, "Magic", sets, end)
<1>3. Writes(d)
  BY <1>2
<1> HIDE DEF sets, end
<1>4. Becomes(Here, d, Parts, Here.cards, [Here.sets EXCEPT !["Magic"] = Write(end, Here.sets["Magic"], sets)],
              Here.packs)
  BY SetsAreSaved, DeckNow
<1> HIDE DEF d
<1>5. IsFolder(d, Parts) /\ d.cards = Here.cards /\ HasAmounts(d)
  BY <1>4, DeckNow DEF Becomes, HasAmounts
<1> QED BY <1>1, <1>3, <1>5, DeckIsWritten

\* The tab's own steps.
LEMMA DeckPageAccounts == DeckInv /\ (TypeDeck \/ Analyze \/ Clear) => DeckHolds'
<1> SUFFICES ASSUME DeckInv, TypeDeck \/ Analyze \/ Clear PROVE DeckHolds'
  OBVIOUS
<1>1. InTab /\ game = "Magic"
  BY DEF TypeDeck, Analyze, Clear
<1>2. DeckOK(tab') /\ tab'.cards = tab.cards
  <2>1. CASE TypeDeck
    <3>1. PICK text \in Texts : tab' = [tab EXCEPT !.text = text]
      BY <2>1 DEF TypeDeck
    <3>2. ~tab.showing /\ IsDeckList(text)
      BY <1>1, <2>1, DeckAssumption DEF TypeDeck, DeckInv, Inv, DiskInv
    <3>3. ChangesOfADeck(tab, text, text)
      BY <1>1, FieldsOfADeck, DeckNow DEF DeckOK
    <3>4. tab' = [cards |-> tab.cards, text |-> text, showing |-> tab.showing, result |-> tab.result]
      BY <3>1, <3>3 DEF ChangesOfADeck
    <3> QED BY <1>1, <3>2, <3>4, DeckNow DEF DeckOK, IsDeckTab
  <2>2. CASE Analyze
    <3> DEFINE deck == ParseMagicDeckList(tab.text)
               r == AnalyzeMagicDeckCheck(deck, tab.cards)
    <3>1. tab' = tab \/ tab' = [tab EXCEPT !.showing = TRUE, !.result = r]
      BY <2>2 DEF Analyze, OnAnalyze
    <3>2. r = AnalyzeMagicDeckCheck(ParseMagicDeckList(tab.text), tab.cards)
      OBVIOUS
    <3> HIDE DEF r
    <3>3. ChangesOfADeck(tab, TRUE, r)
      BY <1>1, FieldsOfADeck, DeckNow DEF DeckOK
    <3>4. CASE tab' = [tab EXCEPT !.showing = TRUE, !.result = r]
      <4>1. tab' = [cards |-> tab.cards, text |-> tab.text, showing |-> TRUE, result |-> r]
        BY <3>3, <3>4 DEF ChangesOfADeck
      <4> QED BY <1>1, <3>2, <4>1, DeckNow DEF DeckOK, IsDeckTab
    <3> QED BY <1>1, <3>1, <3>4, DeckNow
  <2>3. CASE Clear
    <3>1. tab' = [tab EXCEPT !.showing = FALSE, !.result = NoResult]
      BY <2>3 DEF Clear, OnClear
    <3>2. ChangesOfADeck(tab, FALSE, NoResult)
      BY <1>1, FieldsOfADeck, DeckNow DEF DeckOK
    <3>3. tab' = [cards |-> tab.cards, text |-> tab.text, showing |-> FALSE, result |-> NoResult]
      BY <3>1, <3>2 DEF ChangesOfADeck
    <3> QED BY <1>1, <3>3, DeckNow DEF DeckOK, IsDeckTab
  <2> QED BY <2>1, <2>2, <2>3
<1>3. UNCHANGED <<disk, folder, behind>>
  BY <1>1 DEF InTab
<1>4. Known' => Known /\ Here' = Here
  BY <1>3 DEF Known, Here
<1> QED BY <1>1, <1>2, <1>3, <1>4, DeckNow DEF DeckHolds, HasAmounts, DeckOK, IsDeckTab

\* Other folders, other runs of the program.
LEMMA OtherFoldersAccount ==
    DeckInv /\ game = "Magic" /\ (Remount \/ MoveFolder \/ SettingsFail \/ Restart) => DeckHolds'
<1> SUFFICES ASSUME DeckInv, game = "Magic", Remount \/ MoveFolder \/ SettingsFail \/ Restart
             PROVE  DeckHolds'
  OBVIOUS
<1>1. disk' = disk
  BY DEF Remount, MoveFolder, SettingsFail, Restart
<1>2. ASSUME NEW d, HasAmounts(d), Here' = d, tab' = Refresh(tab, d) \/ tab' = Mounted(d)
      PROVE  DeckHolds'
  <2>1. DeckOK(tab') /\ (Readable(d.cards) => tab'.cards = LoadCards(d))
    BY <1>2, DeckIsRefreshed, DeckIsMounted, DeckNow
  <2>2. Known' => Readable(d.cards)
    BY <1>2 DEF Known
  <2> QED BY <1>1, <1>2, <2>1, <2>2, DeckNow DEF DeckHolds, HasAmounts, DeckOK, IsDeckTab
<1>3. CASE Remount
  <2>1. Here' = Here /\ tab' = Refresh(tab, Here)
    BY <1>3 DEF Remount, Here
  <2> QED BY <1>2, <2>1, DeckNow
<1>4. CASE MoveFolder
  <2>1. PICK f \in Folders : folder' = f /\ tab' = Refresh(tab, disk[f])
    BY <1>4 DEF MoveFolder, MovesTo
  <2>2. Here' = disk[f]
    BY <1>1, <2>1 DEF Here
  <2> QED BY <1>2, <2>1, <2>2, DeckNow
<1>5. CASE SettingsFail
  <2>1. behind' /\ tab' = tab
    BY <1>5 DEF SettingsFail
  <2> QED BY <1>1, <2>1, DeckNow DEF DeckHolds, Known, HasAmounts, DeckOK, IsDeckTab
<1>6. CASE Restart
  <2>1. Here' = disk[saved] /\ tab' = Mounted(disk[saved]) /\ saved \in Folders
    BY <1>1, <1>6, DeckNow DEF Restart, Here, DiskInv
  <2> QED BY <1>2, <2>1, DeckNow
<1> QED BY <1>3, <1>4, <1>5, <1>6

\* Records and result, at first,
LEMMA InitAccounts == Init => DeckInv
<1> SUFFICES ASSUME Init, game = "Magic" PROVE DeckHolds
  BY InitHasInv DEF DeckInv
<1>1. PICK d \in Contents[game] : disk = [f \in Folders |-> d]
  BY DEF Init
<1>2. Here = d /\ tab = Mounted(d) /\ \A f \in Folders : disk[f] = d
  BY <1>1 DEF Init, Here, Folders
<1>3. HasAmounts(d)
  BY <1>1, DeckAssumption DEF Init, HasAmounts, Amounts
<1>4. DeckOK(tab) /\ (Readable(d.cards) => tab.cards = LoadCards(d))
  BY <1>2, <1>3, DeckIsMounted
<1> QED BY <1>2, <1>3, <1>4 DEF DeckHolds, Known

\* and after every step.
LEMMA NextAccounts == DeckInv /\ [Next]_vars => DeckInv'
<1> SUFFICES ASSUME DeckInv, [Next]_vars PROVE DeckInv'
  OBVIOUS
<1>1. Inv' /\ game' = game
  <2>1. Inv'
    BY NextKeepsInv DEF DeckInv
  <2>2. game' = game
    BY DEF Next, vars, OnAddCard, OnEditCard, DialogOpens, OnDeleteCard, OnUpdateSets,
           OnChooseRegion, OnChooseLanguage, OpenTile, Back, TypeDeck, Analyze, Clear, InTab,
           Remount, MoveFolder, SettingsFail, Restart
  <2> QED BY <2>1, <2>2
<1>2. ASSUME game = "Magic" PROVE DeckHolds'
  <2>1. CASE OnAddCard \/ OnEditCard \/ OnDeleteCard \/ OnUpdateSets
    BY <1>2, <2>1, AddAccounts, EditAccounts, DeleteAccounts, UpdateAccounts
  <2>2. CASE OnChooseRegion \/ OnChooseLanguage \/ OpenTile \/ Back
    BY <1>2, <2>2 DEF OnChooseRegion, OnChooseLanguage, OpenTile, Back
  <2>3. CASE TypeDeck \/ Analyze \/ Clear
    BY <2>3, DeckPageAccounts
  <2>4. CASE Remount \/ MoveFolder \/ SettingsFail \/ Restart
    BY <1>2, <2>4, OtherFoldersAccount
  <2>5. CASE UNCHANGED vars
    BY <1>2, <2>5, DeckNow DEF vars, DeckHolds, Known, Here, HasAmounts, DeckOK, IsDeckTab
  <2> QED BY <2>1, <2>2, <2>3, <2>4, <2>5 DEF Next
<1> QED BY <1>1, <1>2 DEF DeckInv

\* GameTabs.DeckIsAccountedFor, for any lists, collections and failures.
THEOREM DeckAddsUp == Spec => []DeckIsAccountedFor
<1>1. Spec => []DeckInv
  BY InitAccounts, NextAccounts, PTL DEF Spec
<1> QED BY <1>1, InvAccounts, PTL

-----------------------------------------------------------------------------
(***************************************************************************)
(* The tables: sorting keeps what the click before left, and whatever is    *)
(* shown is found.                                                         *)
(***************************************************************************)

\* What is below something that belongs to it belongs to it: the first few.
LEMMA FirstFew ==
    ASSUME NEW n \in Nat, NEW K \in SUBSET (1 .. n), \A j \in K : \A i \in 1 .. j : i \in K
    PROVE  Cardinality(K) \in 0 .. n /\ K = 1 .. Cardinality(K)
<1>1. CASE K = {}
  BY <1>1, FS_EmptySet
<1>2. CASE K # {}
  <2>1. K \in SUBSET (0 .. n)
    OBVIOUS
  <2>2. PICK m \in K : \A i \in K : i <= m
    BY <1>2, <2>1, BoundedSetsHaveAMaximum
  <2>3. m \in 1 .. n /\ K = 1 .. m
    <3>1. m \in 1 .. n /\ \A i \in K : i \in 1 .. m
      BY <2>2
    <3>2. \A i \in 1 .. m : i \in K
      BY <2>2
    <3> QED BY <3>1, <3>2
  <2>4. 1 \in Int /\ m \in Int /\ m \in Nat /\ 1 <= m
    BY <2>3
  <2>5. Cardinality(1 .. m) = (m - 1) + 1
    BY <2>4, FS_Interval
  <2>6. Cardinality(K) = m
    BY <2>3, <2>4, <2>5
  <2> QED BY <2>3, <2>6
<1> QED BY <1>1, <1>2

\* t is s with c put in at m.
HasPutIn(t, s, m, c, X) ==
    /\ t \in Seq(X) /\ Len(t) = Len(s) + 1
    /\ t[m] = c
    /\ \A i \in 1 .. m - 1 : t[i] = s[i]
    /\ \A i \in m + 1 .. Len(s) + 1 : t[i] = s[i - 1]

\* What is put into a sequence at m.
LEMMA Inserted ==
    ASSUME NEW X, NEW s, s \in Seq(X), NEW m, m \in 1 .. Len(s) + 1, NEW c, c \in X
    PROVE  HasPutIn(InsertAt(s, m, c), s, m, c, X)
<1> DEFINE n == Len(s)
           a == SubSeq(s, 1, m - 1)
           one == <<c>>
           b == SubSeq(s, m, Len(s))
           p == a \o one
           t == InsertAt(s, m, c)
<1>1. n \in Nat /\ m \in Nat /\ 1 <= m /\ m <= n + 1
  OBVIOUS
<1>2. t = p \o b
  BY DEF InsertAt
<1>3. a \in Seq(X) /\ Len(a) = m - 1 /\ \A i \in 1 .. m - 1 : a[i] = s[i]
  BY <1>1
<1>4. b \in Seq(X) /\ Len(b) = (n + 1) - m /\ \A i \in 1 .. (n + 1) - m : b[i] = s[(i + m) - 1]
  BY <1>1
<1>5. one \in Seq(X) /\ Len(one) = 1 /\ one[1] = c
  OBVIOUS
<1>6. \A u, v \in Seq(X) :
        /\ u \o v \in Seq(X) /\ Len(u \o v) = Len(u) + Len(v)
        /\ \A i \in 1 .. Len(u) + Len(v) : (u \o v)[i] = IF i <= Len(u) THEN u[i] ELSE v[i - Len(u)]
  OBVIOUS
<1> HIDE DEF a, b, one, t
<1>7. p \in Seq(X) /\ Len(p) = m /\ p[m] = c /\ \A i \in 1 .. m - 1 : p[i] = s[i]
  <2>1. p \in Seq(X) /\ Len(p) = Len(a) + Len(one)
    BY <1>3, <1>5, <1>6
  <2>2. \A i \in 1 .. Len(a) + Len(one) : p[i] = IF i <= Len(a) THEN a[i] ELSE one[i - Len(a)]
    BY <1>3, <1>5, <1>6
  <2> HIDE DEF p
  <2>3. Len(p) = m /\ Len(a) + Len(one) = m
    BY <1>1, <1>3, <1>5, <2>1
  <2>4. ASSUME NEW i \in 1 .. m - 1 PROVE p[i] = s[i]
    <3>1. i \in 1 .. m /\ i <= Len(a)
      BY <1>1, <1>3
    <3> QED BY <1>3, <2>2, <2>3, <3>1
  <2>5. p[m] = c
    <3>1. m \in 1 .. m /\ ~ (m <= Len(a)) /\ m - Len(a) = 1
      BY <1>1, <1>3
    <3>2. p[m] = one[m - Len(a)]
      BY <2>2, <2>3, <3>1
    <3> QED BY <1>5, <3>1, <3>2
  <2> QED BY <2>1, <2>3, <2>4, <2>5
<1> HIDE DEF p
<1>8. t \in Seq(X) /\ Len(t) = n + 1
  <2>1. t \in Seq(X) /\ Len(t) = Len(p) + Len(b)
    BY <1>2, <1>4, <1>6, <1>7
  <2> QED BY <1>1, <1>4, <1>7, <2>1
<1>9. \A i \in 1 .. n + 1 : t[i] = IF i <= m THEN p[i] ELSE b[i - m]
  <2>1. \A i \in 1 .. Len(p) + Len(b) : t[i] = IF i <= Len(p) THEN p[i] ELSE b[i - Len(p)]
    BY <1>2, <1>4, <1>6, <1>7
  <2>2. Len(p) + Len(b) = n + 1
    BY <1>1, <1>4, <1>7
  <2> QED BY <1>7, <2>1, <2>2
<1>10. ASSUME NEW i \in 1 .. m - 1 PROVE t[i] = s[i]
  <2>1. i \in 1 .. n + 1 /\ i <= m
    BY <1>1
  <2> QED BY <1>7, <1>9, <2>1
<1>11. ASSUME NEW i \in m + 1 .. n + 1 PROVE t[i] = s[i - 1]
  <2>1. i \in 1 .. n + 1 /\ ~ (i <= m) /\ i - m \in 1 .. (n + 1) - m /\ ((i - m) + m) - 1 = i - 1
    BY <1>1
  <2>2. t[i] = b[i - m]
    BY <1>9, <2>1
  <2> QED BY <1>4, <2>1, <2>2
<1>12. t[m] = c
  <2>1. m \in 1 .. n + 1 /\ m <= m
    BY <1>1
  <2> QED BY <1>7, <1>9, <2>1
<1> QED BY <1>8, <1>10, <1>11, <1>12 DEF n, t, HasPutIn

\* The rows after each insertion, as the table they are computed from.
SortTable(f, g, s, column, up, n) ==
    f = [i \in 0 .. n |-> IF i = 0 THEN <<>> ELSE InsertRow(g, f[i - 1], s[i], column, up)]

LEMMA SortsUnfold ==
    ASSUME NEW g, NEW s, NEW column, NEW up, NEW n \in Nat
    PROVE  \E f : SortTable(f, g, s, column, up, n)
<1> DEFINE Insert(r, c) == InsertRow(g, r, c, column, up)
           Table(f, b) == f = [i \in 0 .. b |-> IF i = 0 THEN <<>> ELSE Insert(f[i - 1], s[i])]
           T == {b \in Nat : \E f : Table(f, b)}
<1> HIDE DEF Insert
<1>1. 0 \in T
  <2> DEFINE f == [i \in 0 .. 0 |-> <<>>]
  <2>1. f = [i \in 0 .. 0 |-> IF i = 0 THEN <<>> ELSE Insert(f[i - 1], s[i])]
    OBVIOUS
  <2> HIDE DEF f
  <2> QED BY <2>1
<1>2. ASSUME NEW b \in T PROVE b + 1 \in T
  <2>0. b \in Nat /\ b + 1 \in 0 .. b + 1 /\ (b + 1) - 1 = b /\ b \in 0 .. b
    OBVIOUS
  <2>1. PICK h : Table(h, b)
    OBVIOUS
  <2> DEFINE last == Insert(h[b], s[b + 1])
             f == [i \in 0 .. b + 1 |-> IF i = b + 1 THEN last ELSE h[i]]
  <2>2. \A i \in 0 .. b : f[i] = h[i] /\ i # b + 1
    BY <2>0
  <2>3. f[b + 1] = last
    BY <2>0
  <2>4. f = [i \in 0 .. b + 1 |-> f[i]]
    OBVIOUS
  <2> HIDE DEF f
  <2>5. ASSUME NEW i \in 0 .. b + 1
        PROVE  f[i] = IF i = 0 THEN <<>> ELSE Insert(f[i - 1], s[i])
    <3>1. CASE i = b + 1
      BY <2>0, <2>2, <2>3, <3>1
    <3>2. CASE i # b + 1
      <4>1. i \in 0 .. b /\ (i # 0 => i - 1 \in 0 .. b)
        BY <2>0, <3>2
      <4>2. h[i] = IF i = 0 THEN <<>> ELSE Insert(h[i - 1], s[i])
        BY <2>1, <4>1
      <4> QED BY <2>2, <4>1, <4>2
    <3> QED BY <3>1, <3>2
  <2>6. Table(f, b + 1)
    BY <2>4, <2>5
  <2> QED BY <2>0, <2>6
<1>3. T = Nat
  <2>1. T \in SUBSET Nat
    OBVIOUS
  <2> HIDE DEF T
  <2> QED BY <1>1, <1>2, <2>1, SetInduction
<1>4. \E f : Table(f, n)
  BY <1>3
<1> QED BY <1>4 DEF SortTable, Insert

KeyIn(g, column, c) == SortKeys(g, c)[column]
PlaceOf(s, c) == CHOOSE i \in DOMAIN s : s[i] = c

\* a belongs above b: by the column, or else as they were in s.
GoesAbove(g, s, column, up, a, b) ==
    \/ Directional(KeyIn(g, column, a), KeyIn(g, column, b), up)
    \/ KeyIn(g, column, a) = KeyIn(g, column, b) /\ PlaceOf(s, a) < PlaceOf(s, b)

\* r has the first n rows of s, each above those it belongs above.
RowsAreSorted(r, g, s, column, up, n) ==
    /\ r \in Seq(ToSet(s)) /\ Len(r) = n
    /\ {r[i] : i \in 1 .. n} = {s[i] : i \in 1 .. n}
    /\ \A j \in 1 .. n : \A i \in 1 .. j - 1 : GoesAbove(g, s, column, up, r[i], r[j])

\* Rows of which none is the same, with numbers to sort by.
CanSort(g, s, column) ==
    /\ s \in Seq(ToSet(s))
    /\ \A i, j \in DOMAIN s : s[i] = s[j] => i = j
    /\ \A c \in ToSet(s) : KeyIn(g, column, c) \in Nat

LEMMA PlacesOfRows ==
    ASSUME NEW s, \A i, j \in DOMAIN s : s[i] = s[j] => i = j, NEW i \in DOMAIN s
    PROVE  PlaceOf(s, s[i]) = i
BY DEF PlaceOf

\* One more row.
LEMMA InsertingKeepsSorted ==
    ASSUME NEW g, NEW s, NEW column, NEW up, CanSort(g, s, column),
           NEW n \in Nat, n + 1 <= Len(s), NEW r, RowsAreSorted(r, g, s, column, up, n)
    PROVE  RowsAreSorted(InsertRow(g, r, s[n + 1], column, up), g, s, column, up, n + 1)
<1> DEFINE c == s[n + 1]
           Key(x) == KeyIn(g, column, x)
           X == ToSet(s)
           K == {i \in DOMAIN r : ~Directional(Key(c), Key(r[i]), up)}
           k == Cardinality(K)
           t == InsertRow(g, r, c, column, up)
           Above(a, b) == GoesAbove(g, s, column, up, a, b)
<1>1. /\ Len(s) \in Nat /\ DOMAIN s = 1 .. Len(s) /\ n + 1 \in DOMAIN s
      /\ c \in X /\ \A i \in DOMAIN s : s[i] \in X
      /\ \A x \in X : Key(x) \in Nat
  BY DEF CanSort, ToSet
<1>2. /\ r \in Seq(X) /\ Len(r) = n /\ DOMAIN r = 1 .. n
      /\ \A i \in 1 .. n : r[i] \in X /\ Key(r[i]) \in Nat
      /\ Key(c) \in Nat
  BY <1>1 DEF RowsAreSorted
<1>3. \A j \in 1 .. n : \A i \in 1 .. j - 1 : Above(r[i], r[j])
  BY DEF RowsAreSorted
<1>4. \A i \in 1 .. n : PlaceOf(s, r[i]) \in 1 .. n
  <2> SUFFICES ASSUME NEW i \in 1 .. n PROVE PlaceOf(s, r[i]) \in 1 .. n
    OBVIOUS
  <2>1. r[i] \in {s[j] : j \in 1 .. n}
    BY DEF RowsAreSorted
  <2>2. PICK j \in 1 .. n : r[i] = s[j]
    BY <2>1
  <2>3. j \in DOMAIN s
    BY <1>1
  <2> QED BY <2>2, <2>3, PlacesOfRows DEF CanSort
<1>5. PlaceOf(s, c) = n + 1
  BY <1>1, PlacesOfRows DEF CanSort
<1>6. t = InsertAt(r, 1 + k, c)
  BY DEF InsertRow, KeyIn
<1> HIDE DEF c, Key, X, t
<1>7. k \in 0 .. n /\ K = 1 .. k
  <2>1. ASSUME NEW j \in K, NEW i \in 1 .. j PROVE i \in K
    <3>1. j \in 1 .. n /\ i \in 1 .. n
      BY <1>2
    <3>2. CASE i = j
      BY <3>2
    <3>3. CASE i # j
      <4>1. i \in 1 .. j - 1
        BY <3>1, <3>3
      <4>2. Above(r[i], r[j])
        BY <1>3, <3>1, <4>1
      <4>3. Directional(Key(r[i]), Key(r[j]), up) \/ Key(r[i]) = Key(r[j])
        BY <4>2 DEF GoesAbove, Key
      <4>4. ~Directional(Key(c), Key(r[j]), up)
        OBVIOUS
      <4>5. Key(r[i]) \in Nat /\ Key(r[j]) \in Nat /\ Key(c) \in Nat
        BY <1>2, <3>1
      <4>6. ~Directional(Key(c), Key(r[i]), up)
        BY <4>3, <4>4, <4>5 DEF Directional
      <4> QED BY <1>2, <3>1, <4>6
    <3> QED BY <3>2, <3>3
  <2>2. K \in SUBSET (1 .. n)
    BY <1>2
  <2> HIDE DEF K
  <2> QED BY <2>1, <2>2, FirstFew
<1>8. /\ t \in Seq(X) /\ Len(t) = n + 1
      /\ t[k + 1] = c
      /\ \A i \in 1 .. k : t[i] = r[i]
      /\ \A i \in k + 2 .. n + 1 : t[i] = r[i - 1]
  <2> HIDE DEF k
  <2>1. k \in 0 .. Len(r) /\ c \in X /\ r \in Seq(X)
    BY <1>1, <1>2, <1>7
  <2> DEFINE m == 1 + k
  <2>2. m \in 1 .. Len(r) + 1 /\ m - 1 = k /\ m + 1 = k + 2 /\ m = k + 1
    BY <1>1, <1>2, <1>7
  <2>3. t = InsertAt(r, m, c)
    BY <1>6
  <2> HIDE DEF m
  <2>4. HasPutIn(InsertAt(r, m, c), r, m, c, X)
    BY <2>1, <2>2, Inserted
  <2>5. HasPutIn(t, r, m, c, X)
    BY <2>3, <2>4
  <2> QED BY <1>2, <2>2, <2>5 DEF HasPutIn
<1>9. \A i \in 1 .. k : Above(r[i], c)
  <2> SUFFICES ASSUME NEW i \in 1 .. k PROVE Above(r[i], c)
    OBVIOUS
  <2>1. i \in K /\ i \in 1 .. n
    BY <1>7
  <2>2. ~Directional(Key(c), Key(r[i]), up) /\ Key(c) \in Nat /\ Key(r[i]) \in Nat
    BY <1>2, <2>1
  <2>3. Directional(Key(r[i]), Key(c), up) \/ Key(r[i]) = Key(c)
    BY <2>2 DEF Directional
  <2>4. PlaceOf(s, r[i]) < PlaceOf(s, c)
    BY <1>4, <1>5, <2>1
  <2> QED BY <2>3, <2>4 DEF GoesAbove, Key
<1>10. \A j \in k + 1 .. n : Above(c, r[j])
  <2> SUFFICES ASSUME NEW j \in k + 1 .. n PROVE Above(c, r[j])
    OBVIOUS
  <2>1. j \notin K /\ j \in DOMAIN r
    <3> HIDE DEF K, k
    <3> QED BY <1>2, <1>7
  <2>2. Directional(Key(c), Key(r[j]), up)
    BY <2>1
  <2> QED BY <2>2 DEF GoesAbove, Key
<1> HIDE DEF K, k, Above
<1>11. ASSUME NEW j \in 1 .. n + 1, NEW i \in 1 .. j - 1 PROVE Above(t[i], t[j])
  <2>1. CASE j <= k
    <3>1. j \in 1 .. k /\ i \in 1 .. k /\ j \in 1 .. n
      BY <1>7, <2>1
    <3> QED BY <1>3, <1>8, <3>1
  <2>2. CASE j = k + 1
    <3>1. i \in 1 .. k
      BY <1>7, <2>2
    <3> QED BY <1>8, <1>9, <2>2, <3>1
  <2>3. CASE j > k + 1
    <3>1. j \in k + 2 .. n + 1 /\ j - 1 \in k + 1 .. n /\ j - 1 \in 1 .. n
      BY <1>7, <2>3
    <3>2. t[j] = r[j - 1]
      BY <1>8, <3>1
    <3>3. CASE i <= k
      <4>1. i \in 1 .. k /\ i \in 1 .. (j - 1) - 1
        BY <1>7, <2>3, <3>3
      <4> QED BY <1>3, <1>8, <3>1, <3>2, <4>1
    <3>4. CASE i = k + 1
      BY <1>8, <1>10, <3>1, <3>2, <3>4
    <3>5. CASE i > k + 1
      <4>1. i \in k + 2 .. n + 1 /\ i - 1 \in 1 .. (j - 1) - 1
        BY <1>7, <3>5
      <4> QED BY <1>3, <1>8, <3>1, <3>2, <4>1
    <3>6. i \in Int /\ k \in Int
      BY <1>7
    <3> QED BY <3>3, <3>4, <3>5, <3>6
  <2>4. j \in Int /\ k \in Int
    BY <1>7
  <2> QED BY <2>1, <2>2, <2>3, <2>4
<1>12. {t[i] : i \in 1 .. n + 1} = {s[i] : i \in 1 .. n + 1}
  <2>1. {r[i] : i \in 1 .. n} = {s[i] : i \in 1 .. n}
    BY DEF RowsAreSorted
  <2>2. {s[i] : i \in 1 .. n + 1} = {s[i] : i \in 1 .. n} \cup {c}
    BY DEF c
  <2>3. \A i \in 1 .. n + 1 : t[i] \in {r[j] : j \in 1 .. n} \cup {c}
    <3> SUFFICES ASSUME NEW i \in 1 .. n + 1 PROVE t[i] \in {r[j] : j \in 1 .. n} \cup {c}
      OBVIOUS
    <3>1. CASE i \in 1 .. k
      BY <1>7, <1>8, <3>1
    <3>2. CASE i = k + 1
      BY <1>8, <3>2
    <3>3. CASE i \in k + 2 .. n + 1
      <4>1. i - 1 \in 1 .. n
        BY <1>7, <3>3
      <4> QED BY <1>8, <3>3, <4>1
    <3> QED BY <1>7, <3>1, <3>2, <3>3
  <2>4. \A j \in 1 .. n : r[j] \in {t[i] : i \in 1 .. n + 1}
    <3> SUFFICES ASSUME NEW j \in 1 .. n PROVE r[j] \in {t[i] : i \in 1 .. n + 1}
      OBVIOUS
    <3>1. CASE j \in 1 .. k
      BY <1>8, <3>1
    <3>2. CASE j \in k + 1 .. n
      <4>1. j + 1 \in k + 2 .. n + 1 /\ j + 1 \in 1 .. n + 1 /\ (j + 1) - 1 = j
        BY <1>7, <3>2
      <4>2. t[j + 1] = r[j]
        BY <1>8, <4>1
      <4> QED BY <4>1, <4>2
    <3> QED BY <1>7, <3>1, <3>2
  <2>5. c \in {t[i] : i \in 1 .. n + 1}
    <3>1. k + 1 \in 1 .. n + 1
      BY <1>7
    <3> QED BY <1>8, <3>1
  <2>6. {t[i] : i \in 1 .. n + 1} = {r[i] : i \in 1 .. n} \cup {c}
    BY <2>3, <2>4, <2>5
  <2> QED BY <2>1, <2>2, <2>6
<1> QED BY <1>8, <1>11, <1>12 DEF RowsAreSorted, t, X, c, Above


\* Nothing is sorted, and then one row after the other.
LEMMA SortingSorts ==
    ASSUME NEW g, NEW s, NEW column, NEW up, CanSort(g, s, column)
    PROVE  RowsAreSorted(SortCards(g, s, column, up), g, s, column, up, Len(s))
<1>1. Len(s) \in Nat /\ DOMAIN s = 1 .. Len(s)
  BY DEF CanSort
<1> DEFINE f == CHOOSE f : SortTable(f, g, s, column, up, Len(s))
<1>2. SortCards(g, s, column, up) = f[Len(s)]
  BY DEF SortCards, SortTable
<1>3. SortTable(f, g, s, column, up, Len(s))
  BY <1>1, SortsUnfold
<1> HIDE DEF f
<1> DEFINE T == {n \in Nat : n <= Len(s) => RowsAreSorted(f[n], g, s, column, up, n)}
<1>4. 0 \in T
  <2>1. f[0] = <<>>
    BY <1>1, <1>3 DEF SortTable
  <2>2. RowsAreSorted(<<>>, g, s, column, up, 0)
    BY DEF RowsAreSorted
  <2> QED BY <2>1, <2>2
<1>5. ASSUME NEW n \in T PROVE n + 1 \in T
  <2>1. n \in Nat /\ n + 1 \in Nat
    OBVIOUS
  <2>2. ASSUME n + 1 <= Len(s) PROVE RowsAreSorted(f[n + 1], g, s, column, up, n + 1)
    <3>1. n + 1 \in 0 .. Len(s) /\ n + 1 # 0 /\ (n + 1) - 1 = n /\ n <= Len(s)
      BY <1>1, <2>1, <2>2
    <3>2. f[n + 1] = InsertRow(g, f[n], s[n + 1], column, up)
      BY <1>3, <3>1 DEF SortTable
    <3>3. RowsAreSorted(f[n], g, s, column, up, n)
      BY <3>1
    <3> QED BY <2>1, <2>2, <3>2, <3>3, InsertingKeepsSorted
  <2> QED BY <2>1, <2>2
<1>6. T = Nat
  <2>1. T \in SUBSET Nat
    OBVIOUS
  <2> HIDE DEF T
  <2> QED BY <1>4, <1>5, <2>1, SetInduction
<1> QED BY <1>1, <1>2, <1>6

\* What is sorted has the same rows, none of them twice.
LEMMA SortingKeepsRows ==
    ASSUME NEW g, NEW s, NEW column, NEW up, CanSort(g, s, column)
    PROVE  LET r == SortCards(g, s, column, up)
           IN  /\ r \in Seq(ToSet(s)) /\ Len(r) = Len(s) /\ ToSet(r) = ToSet(s)
               /\ \A i, j \in DOMAIN r : r[i] = r[j] => i = j
<1> DEFINE r == SortCards(g, s, column, up)
           n == Len(s)
<1>1. RowsAreSorted(r, g, s, column, up, n)
  BY SortingSorts
<1> HIDE DEF r
<1>2. /\ n \in Nat /\ DOMAIN s = 1 .. n /\ r \in Seq(ToSet(s)) /\ Len(r) = n /\ DOMAIN r = 1 .. n
      /\ {r[i] : i \in 1 .. n} = {s[i] : i \in 1 .. n}
  <2>1. n \in Nat /\ DOMAIN s = 1 .. n
    BY DEF CanSort
  <2>2. /\ r \in Seq(ToSet(s)) /\ Len(r) = n
        /\ {r[i] : i \in 1 .. n} = {s[i] : i \in 1 .. n}
    BY <1>1 DEF RowsAreSorted
  <2>3. DOMAIN r = 1 .. n
    BY <2>2
  <2> QED BY <2>1, <2>2, <2>3
<1>3. ToSet(r) = ToSet(s)
  BY <1>2 DEF ToSet
<1>4. \A i \in 1 .. n : r[i] \in ToSet(s) /\ KeyIn(g, column, r[i]) \in Nat /\ PlaceOf(s, r[i]) \in Nat
  <2> SUFFICES ASSUME NEW i \in 1 .. n
               PROVE  r[i] \in ToSet(s) /\ KeyIn(g, column, r[i]) \in Nat /\ PlaceOf(s, r[i]) \in Nat
    OBVIOUS
  <2>1. r[i] \in {s[j] : j \in 1 .. n}
    BY <1>2
  <2>2. PICK j \in 1 .. n : r[i] = s[j]
    BY <2>1
  <2>3. s[j] \in ToSet(s)
    BY <1>2 DEF ToSet
  <2>4. PlaceOf(s, s[j]) = j
    BY <1>2, PlacesOfRows DEF CanSort
  <2> QED BY <2>2, <2>3, <2>4 DEF CanSort
<1>5. ASSUME NEW j \in 1 .. n, NEW i \in 1 .. j - 1 PROVE r[i] # r[j]
  <2>1. i \in 1 .. n
    BY <1>2
  <2>2. GoesAbove(g, s, column, up, r[i], r[j])
    BY <1>1 DEF RowsAreSorted
  <2>3. ~GoesAbove(g, s, column, up, r[j], r[j])
    BY <1>4 DEF GoesAbove, Directional
  <2> QED BY <2>2, <2>3
<1>6. ASSUME NEW i \in DOMAIN r, NEW j \in DOMAIN r, r[i] = r[j] PROVE i = j
  <2>1. i \in 1 .. n /\ j \in 1 .. n
    BY <1>2
  <2>2. CASE i < j
    <3>1. i \in 1 .. j - 1
      BY <2>1, <2>2
    <3> QED BY <1>5, <1>6, <2>1, <3>1
  <2>3. CASE j < i
    <3>1. j \in 1 .. i - 1
      BY <2>1, <2>3
    <3> QED BY <1>5, <1>6, <2>1, <3>1
  <2> QED BY <1>2, <2>1, <2>2, <2>3
<1> QED BY <1>2, <1>3, <1>6 DEF r



\* The columns that can be clicked, and what a row shows in them.
ColumnsOf(g) ==
    CASE g = "Magic" -> {"name", "set", "language", "condition", "amount", "foil", "signed",
                         "altered", "note"}
      [] g = "Pokemon" -> {"name", "set", "language", "condition", "amount", "holo", "first",
                           "signed", "altered", "note"}
      [] g = "YuGiOh" -> {"name", "set", "language", "condition", "amount", "rarity", "first",
                          "signed", "altered", "note"}
      [] g = "Bandai" -> {"name", "set", "no", "rarity", "language", "condition", "amount",
                          "holo", "signed", "altered", "note"}
      [] g = "Digi" -> {"name", "set", "language", "condition", "amount", "holo", "first",
                        "signed", "altered", "note"}
ShownIn(g, column, c) ==
    CASE column = "set" -> c.date [] column \in Icons(g) -> Flag(c[column])
      [] OTHER -> LowerCase(Cells(g, c)[column])

LEMMA KeysAreShown ==
    ASSUME NEW g \in Games, NEW c
    PROVE  /\ DOMAIN SortKeys(g, c) = ColumnsOf(g)
           /\ \A column \in ColumnsOf(g) : KeyIn(g, column, c) = ShownIn(g, column, c)
<1>1. CASE g = "Magic"
  <2>1. SortKeys(g, c) = MagicSortKeys(c) /\ Cells(g, c) = MagicCells(c)
    BY <1>1 DEF SortKeys, Cells
  <2> QED BY <1>1, <2>1 DEF MagicSortKeys, MagicCells, KeyIn, ShownIn, ColumnsOf, Icons
<1>2. CASE g = "Pokemon"
  <2>1. SortKeys(g, c) = PokemonSortKeys(c) /\ Cells(g, c) = PokemonCells(c)
    BY <1>2 DEF SortKeys, Cells
  <2> QED BY <1>2, <2>1 DEF PokemonSortKeys, PokemonCells, KeyIn, ShownIn, ColumnsOf, Icons
<1>3. CASE g = "YuGiOh"
  <2>1. SortKeys(g, c) = YuGiOhSortKeys(c) /\ Cells(g, c) = YuGiOhCells(c)
    BY <1>3 DEF SortKeys, Cells
  <2> QED BY <1>3, <2>1 DEF YuGiOhSortKeys, YuGiOhCells, KeyIn, ShownIn, ColumnsOf, Icons
<1>4. CASE g = "Bandai"
  <2>1. SortKeys(g, c) = BandaiSortKeys(c) /\ Cells(g, c) = BandaiCells(c)
    BY <1>4 DEF SortKeys, Cells
  <2> QED BY <1>4, <2>1 DEF BandaiSortKeys, BandaiCells, KeyIn, ShownIn, ColumnsOf, Icons
<1>5. CASE g = "Digi"
  <2>1. SortKeys(g, c) = DigiSortKeys(c) /\ Cells(g, c) = DigiCells(c)
    BY <1>5 DEF SortKeys, Cells
  <2> QED BY <1>5, <2>1 DEF DigiSortKeys, DigiCells, KeyIn, ShownIn, ColumnsOf, Icons
<1> QED BY <1>1, <1>2, <1>3, <1>4, <1>5 DEF Games

LEMMA KeysAreNumbers ==
    ASSUME NEW g \in Games, g \in DOMAIN SampleCards, NEW c \in SampleCards[g],
           NEW column \in ColumnsOf(g)
    PROVE  KeyIn(g, column, c) \in Nat
<1>1. /\ c.date \in Nat /\ (g = "YuGiOh" => IsText(RarityShortCode[c.rarity]))
      /\ \A t \in {c.name, c.set, c.no, c.region, c.rarity, c.amount, c.condition, c.language,
                  c.note} : IsText(t)
  BY SamplesAssumption
<1>2. /\ c.name.low \in Nat /\ c.no.low \in Nat /\ c.rarity.low \in Nat /\ c.amount.low \in Nat
      /\ c.condition.low \in Nat /\ c.language.low \in Nat /\ c.note.low \in Nat
      /\ g = "YuGiOh" => RarityShortCode[c.rarity].low \in Nat
  BY <1>1 DEF IsText
<1>3. \A b : Flag(b) \in Nat
  BY DEF Flag
<1>4. CASE g = "Magic"
  <2>1. SortKeys(g, c) = MagicSortKeys(c)
    BY <1>4 DEF SortKeys
  <2> QED BY <1>1, <1>2, <1>3, <1>4, <2>1 DEF MagicSortKeys, KeyIn, ColumnsOf, LowerCase
<1>5. CASE g = "Pokemon"
  <2>1. SortKeys(g, c) = PokemonSortKeys(c)
    BY <1>5 DEF SortKeys
  <2> QED BY <1>1, <1>2, <1>3, <1>5, <2>1 DEF PokemonSortKeys, KeyIn, ColumnsOf, LowerCase
<1>6. CASE g = "YuGiOh"
  <2>1. SortKeys(g, c) = YuGiOhSortKeys(c)
    BY <1>6 DEF SortKeys
  <2> QED BY <1>1, <1>2, <1>3, <1>6, <2>1 DEF YuGiOhSortKeys, KeyIn, ColumnsOf, LowerCase
<1>7. CASE g = "Bandai"
  <2>1. SortKeys(g, c) = BandaiSortKeys(c)
    BY <1>7 DEF SortKeys
  <2> QED BY <1>1, <1>2, <1>3, <1>7, <2>1 DEF BandaiSortKeys, KeyIn, ColumnsOf, LowerCase
<1>8. CASE g = "Digi"
  <2>1. SortKeys(g, c) = DigiSortKeys(c)
    BY <1>8 DEF SortKeys
  <2> QED BY <1>1, <1>2, <1>3, <1>8, <2>1 DEF DigiSortKeys, KeyIn, ColumnsOf, LowerCase
<1> QED BY <1>4, <1>5, <1>6, <1>7, <1>8 DEF Games

\* A column sorts by what is shown in it, on top of the click before.
LEMMA ClicksSort ==
    ASSUME NEW g \in Games, g \in DOMAIN SampleCards PROVE SortsByWhatIsShown(g)
<1> DEFINE S == SampleCards[g]
           Sorted(s, c1, up1, c2, up2) ==
             LET first == SortCards(g, s, c1, up1)
                 second == SortCards(g, first, c2, up2)
                 Shown(c) == CASE c2 = "set" -> c.date [] c2 \in Icons(g) -> Flag(c[c2])
                               [] OTHER -> LowerCase(Cells(g, c)[c2])
                 Row(c) == CHOOSE i \in DOMAIN first : first[i] = c
             IN  \A j \in DOMAIN second : \A i \in 1 .. j - 1 :
                   LET a == second[i]
                       b == second[j]
                   IN  \/ IF up2 THEN Shown(a) < Shown(b) ELSE Shown(b) < Shown(a)
                       \/ Shown(a) = Shown(b) /\ Row(a) < Row(b)
<1>1. ASSUME NEW s \in SetToSeqs(S), NEW c1 \in ColumnsOf(g), NEW c2 \in ColumnsOf(g),
             NEW up1 \in BOOLEAN, NEW up2 \in BOOLEAN
      PROVE  Sorted(s, c1, up1, c2, up2)
  <2> DEFINE n == Cardinality(S)
             first == SortCards(g, s, c1, up1)
             second == SortCards(g, first, c2, up2)
  <2>1. n \in Nat
    BY SamplesAssumption, FS_CardinalityType
  <2>2. s \in [1 .. n -> S] /\ \A i, j \in 1 .. n : i # j => s[i] # s[j]
    BY DEF SetToSeqs
  <2> HIDE DEF n, S
  <2>3. /\ DOMAIN s = 1 .. n /\ ToSet(s) \subseteq S /\ s \in [1 .. n -> ToSet(s)]
        /\ \A i, j \in DOMAIN s : s[i] = s[j] => i = j
    BY <2>2 DEF ToSet
  <2>4. s \in Seq(ToSet(s))
    BY <2>1, <2>3
  <2>5. \A column \in ColumnsOf(g) : \A c \in ToSet(s) : KeyIn(g, column, c) \in Nat
    BY <2>3, KeysAreNumbers DEF S
  <2>6. CanSort(g, s, c1)
    BY <2>3, <2>4, <2>5 DEF CanSort
  <2>7. /\ first \in Seq(ToSet(s)) /\ ToSet(first) = ToSet(s)
        /\ \A i, j \in DOMAIN first : first[i] = first[j] => i = j
    BY <2>6, SortingKeepsRows
  <2> HIDE DEF first
  <2>8. CanSort(g, first, c2)
    BY <2>5, <2>7 DEF CanSort
  <2>9. RowsAreSorted(second, g, first, c2, up2, Len(first))
    BY <2>8, SortingSorts
  <2> HIDE DEF second
  <2>10. DOMAIN second = 1 .. Len(first)
    BY <2>9 DEF RowsAreSorted
  <2>11. \A j \in DOMAIN second : \A i \in 1 .. j - 1 :
           GoesAbove(g, first, c2, up2, second[i], second[j])
    BY <2>9, <2>10 DEF RowsAreSorted
  <2>12. \A c : KeyIn(g, c2, c) = ShownIn(g, c2, c)
    BY KeysAreShown
  <2>13. ASSUME NEW a, NEW b, GoesAbove(g, first, c2, up2, a, b)
         PROVE  \/ IF up2 THEN ShownIn(g, c2, a) < ShownIn(g, c2, b)
                          ELSE ShownIn(g, c2, b) < ShownIn(g, c2, a)
                \/ ShownIn(g, c2, a) = ShownIn(g, c2, b) /\ PlaceOf(first, a) < PlaceOf(first, b)
    BY <2>12, <2>13 DEF GoesAbove, Directional
  <2>14. \A j \in DOMAIN second : \A i \in 1 .. j - 1 :
           \/ IF up2 THEN ShownIn(g, c2, second[i]) < ShownIn(g, c2, second[j])
                     ELSE ShownIn(g, c2, second[j]) < ShownIn(g, c2, second[i])
           \/ /\ ShownIn(g, c2, second[i]) = ShownIn(g, c2, second[j])
              /\ PlaceOf(first, second[i]) < PlaceOf(first, second[j])
    BY <2>11, <2>13
  <2> QED BY <2>14 DEF first, second, ShownIn, PlaceOf
<1>2. \A x : DOMAIN SortKeys(g, x) = ColumnsOf(g)
  BY KeysAreShown
<1> HIDE DEF Sorted
<1>3. \A s \in SetToSeqs(S) : \A c1, c2 \in DOMAIN SortKeys(g, s[1]), up1, up2 \in BOOLEAN :
        Sorted(s, c1, up1, c2, up2)
  BY <1>1, <1>2
<1> QED BY <1>3 DEF SortsByWhatIsShown, Sorted

\* A text in its other case is the same in lower case.
LEMMA RowsAreFound ==
    ASSUME NEW g \in Games, g \in DOMAIN SampleCards PROVE FindsWhatIsShown(g)
<1> SUFFICES ASSUME NEW c \in SampleCards[g], NEW column \in DOMAIN Cells(g, c), NEW caps \in BOOLEAN
             PROVE  Finds(g, c, [Cells(g, c)[column] EXCEPT !.caps = caps])
  BY DEF FindsWhatIsShown
<1> DEFINE t == Cells(g, c)[column]
<1>1. /\ (g = "YuGiOh" => IsText(RarityShortCode[c.rarity]))
      /\ IsText(c.name) /\ IsText(c.set) /\ IsText(c.no) /\ IsText(c.rarity) /\ IsText(c.amount)
      /\ IsText(c.condition) /\ IsText(c.language) /\ IsText(c.note)
  BY SamplesAssumption
<1>2. t \in Fields(g, c) /\ IsText(t)
  <2>1. CASE g = "Magic"
    <3>1. Cells(g, c) = MagicCells(c) /\ Fields(g, c) = MagicFields(c)
      BY <2>1 DEF Cells, Fields
    <3> QED BY <1>1, <2>1, <3>1 DEF MagicCells, MagicFields
  <2>2. CASE g = "Pokemon"
    <3>1. Cells(g, c) = PokemonCells(c) /\ Fields(g, c) = PokemonFields(c)
      BY <2>2 DEF Cells, Fields
    <3> QED BY <1>1, <2>2, <3>1 DEF PokemonCells, PokemonFields
  <2>3. CASE g = "YuGiOh"
    <3>1. Cells(g, c) = YuGiOhCells(c) /\ Fields(g, c) = YuGiOhFields(c)
      BY <2>3 DEF Cells, Fields
    <3> QED BY <1>1, <2>3, <3>1 DEF YuGiOhCells, YuGiOhFields
  <2>4. CASE g = "Bandai"
    <3>1. Cells(g, c) = BandaiCells(c) /\ Fields(g, c) = BandaiFields(c)
      BY <2>4 DEF Cells, Fields
    <3> QED BY <1>1, <2>4, <3>1 DEF BandaiCells, BandaiFields
  <2>5. CASE g = "Digi"
    <3>1. Cells(g, c) = DigiCells(c) /\ Fields(g, c) = DigiFields(c)
      BY <2>5 DEF Cells, Fields
    <3> QED BY <1>1, <2>5, <3>1 DEF DigiCells, DigiFields
  <2> QED BY <2>1, <2>2, <2>3, <2>4, <2>5 DEF Games
<1>3. LowerCase([t EXCEPT !.caps = caps]) = LowerCase(t)
  BY <1>2 DEF IsText, LowerCase
<1> HIDE DEF t
<1>4. LowerCase(t) \in {LowerCase(u) : u \in Fields(g, c)}
  BY <1>2
<1>5. Finds(g, c, [t EXCEPT !.caps = caps])
  BY <1>3, <1>4 DEF Finds
<1> QED BY <1>5 DEF t

\* GameTabs.TableDoesWhatItShows, for any records whatever.
THEOREM TablesAgree == Spec => []TableDoesWhatItShows
<1>1. Inv => TableDoesWhatItShows
  <2> SUFFICES ASSUME Inv PROVE game \in TablesThatAgree
    BY DEF TableDoesWhatItShows
  <2>1. game \in Games /\ game \in DOMAIN SampleCards
    BY GameIsOne, TablesAssumption DEF Inv, DiskInv
  <2> QED BY <2>1, ClicksSort, RowsAreFound DEF TablesThatAgree
<1>2. Spec => []Inv
  BY InitHasInv, NextKeepsInv, PTL DEF Spec
<1> QED BY <1>1, <1>2, PTL
=============================================================================
