--------------------------------- MODULE SetSources ---------------------------------
(* The six set sources: from the answers of an upstream to the list of sets and,  *)
(* but for Magic, the catalogue of packs that set completion counts by. A set is   *)
(* [id, name, date], a pack [id, name, cards], a card [no, name, rarity]; a date is *)
(* a number, 0 for none. Lists and packs are kept as sets: their order on screen    *)
(* is nobody's concern here.                                                       *)
EXTENDS JapanesePokemonEnCatalog, FiniteSets

CONSTANTS Down, Bad,                \* replies: no answer, one the parser rejects
          CatalogSets,              \* the bundled catalogue's sets: id -> [name, date]
          MissingClassicProducts,   \* sets TCGdex lacks
          ChineseIds,               \* ids that start with CS
          NameOverrides,            \* id -> the Japanese name TCGdex gets wrong
          CjkNames,                 \* names in Japanese script
          MissingReprints,          \* Yu-Gi-Oh! sets YGOPRODeck lacks
          SetCodes,                 \* what precedes the digits of a set code -> [abbrev, infix]
          SetManifest,              \* the Bandai sets: [id, name, date, page, prefix]
          Slugs, PackDates,         \* Digi-Battle pack name -> id, date
          UpperCase                 \* a prefix typed in lower case -> the printed one

\* The tables that come with the program have each print, product and set once, and no
\* printed prefix is also one that is typed in lower case; Digi-Battle packs that differ in
\* name do so in letters or digits.
ASSUME SourcesAssumption ==
  /\ CatalogPrints \in Seq(Entries)
  /\ \A p, q \in Entries : p.set = q.set /\ WithoutTotal(p.no) = WithoutTotal(q.no) => p = q
  /\ \A s, t \in MissingClassicProducts : s.id = t.id => s = t
  /\ \A s, t \in SetManifest : s.id = t.id => s = t
  /\ \A pre \in DOMAIN UpperCase : UpperCase[pre] \notin DOMAIN UpperCase
  /\ \A x, y \in DOMAIN Slugs : Slugs[x] = Slugs[y] /\ Slugs[x] # "" => x = y

Answered(reply) == reply \notin {Down, Bad}
Failed == [ok |-> FALSE, sets |-> {}, packs |-> {}]
Fetched(sets, packs) == [ok |-> TRUE, sets |-> sets, packs |-> packs]
Entry(r, no) == [no |-> no, name |-> r.name, rarity |-> r.rarity]
NoOf(r) == r.no

------------------------------------------------------------------------------------
(* Magic (Scryfall): one list, without the digital sets.                          *)

MagicFetchAll(list) ==
  IF ~Answered(list) THEN Failed
  ELSE Fetched({[id |-> s.id, name |-> s.name, date |-> s.date] :
                  s \in {x \in ToSet(list) : ~x.digital}}, {})

------------------------------------------------------------------------------------
(* Pokémon, west (TCGdex): a list of [id, name], and one detail [date, rows] per   *)
(* set. A set whose detail fails stays, without date and without pack.             *)

ParseListResponse(list) ==
  {[id |-> s.id, name |-> s.name, date |-> 0] : s \in {x \in ToSet(list) : x.id # ""}}

Dated(s, detail) ==
  IF Answered(detail) /\ s.date = 0 THEN [s EXCEPT !.date = detail.date] ELSE s

\* As NumberedOnce, comparing the numbers before they are cut.
NumberedOnceAsSent(rows) ==
  LET once == FirstOfEach(KeepIn(rows, {r \in ToSet(rows) : r.no # NoNumber}), NoOf)
  IN  [i \in DOMAIN once |-> Entry(once[i], WithoutTotal(once[i].no))]

\* The entries that have a number, each number once.
EachNumberOnce(entries) ==
  FirstOfEach(KeepIn(entries, {e \in ToSet(entries) : e.no # NoNumber}), NoOf)

\* The rows with their numbers cut at the slash, each number once.
NumberedOnce(rows) ==
  EachNumberOnce([i \in DOMAIN rows |-> Entry(rows[i], WithoutTotal(rows[i].no))])

ParseCatalogPackFromSetDetail(detail, s) ==
  [id |-> s.id, name |-> s.name, cards |-> ToSet(NumberedOnce(detail.rows))]

NonEmpty(packs) == {p \in packs : p.cards # {}}

PokemonFetch(list, details) ==
  IF ~Answered(list) THEN Failed
  ELSE LET sets == ParseListResponse(list)
       IN  Fetched({Dated(s, details[s.id]) : s \in sets},
                   NonEmpty({ParseCatalogPackFromSetDetail(details[s.id], s) :
                               s \in {x \in sets : Answered(details[x.id])}}))

------------------------------------------------------------------------------------
(* Pokémon, Asia (TCGdex and the bundled catalogue).                              *)

AppendMissingClassicProducts(sets) ==
  {s \in sets : \A p \in MissingClassicProducts : p.id # s.id} \cup MissingClassicProducts

ParseAsiaList(list) ==
  AppendMissingClassicProducts(
    {[s EXCEPT !.name = IF s.id \in DOMAIN NameOverrides THEN NameOverrides[s.id] ELSE @] :
       s \in {x \in ParseListResponse(list) : x.id \notin ChineseIds}})

\* The catalogue's name and date win; Japanese that is left gives way to the id.
ApplyEnglishSetName(s) ==
  LET known == s.id \in DOMAIN CatalogSets
      name == IF known /\ CatalogSets[s.id].name # "" THEN CatalogSets[s.id].name ELSE s.name
  IN  [s EXCEPT !.name = IF name \in CjkNames \cup {""} THEN s.id ELSE name,
                !.date = IF known /\ CatalogSets[s.id].date # 0 THEN CatalogSets[s.id].date
                                                                ELSE @]

\* augmentCachedSets: the same for a list that was saved by an older version.
AugmentCachedSets(sets) == AppendMissingClassicProducts({ApplyEnglishSetName(s) : s \in sets})

\* An entry of the bundled catalogue as a card of a pack: English name first.
EnEntry(p) == [no |-> WithoutTotal(p.no), name |-> IF p.en # "" THEN p.en ELSE p.ja, rarity |-> ""]
CatalogPackFromEnCatalog(id) ==
  {e \in {EnEntry(p) : p \in ToSet(PrintsForSet(id))} : e.no # NoNumber}

GapFillFromEnCatalog(cards, id) ==
  cards \cup {e \in CatalogPackFromEnCatalog(id) : \A c \in cards : c.no # e.no}

\* findPrint: the one entry of the set and number.
InEnglish(e, id) ==
  LET known == {p \in ToSet(FindPrint(id, e.no)) : p.en # "" \/ p.ja # ""}
  IN  IF known = {} THEN e ELSE [e EXCEPT !.name = EnEntry(CHOOSE p \in known : TRUE).name]

\* The detail's cards with the catalogue's filled in, or the catalogue's alone.
AsiaPackCards(detail, id) ==
  IF Answered(detail) /\ detail.rows # <<>>
  THEN GapFillFromEnCatalog({InEnglish(e, id) : e \in ToSet(NumberedOnce(detail.rows))}, id)
  ELSE CatalogPackFromEnCatalog(id)

JapanesePokemonFetch(list, details) ==
  IF ~Answered(list) THEN Failed
  ELSE LET sets == {ApplyEnglishSetName(s) : s \in ParseAsiaList(list)}
       IN  Fetched({Dated(s, details[s.id]) : s \in sets},
                   NonEmpty({[id |-> s.id, name |-> s.name,
                              cards |-> AsiaPackCards(details[s.id], s.id)] : s \in sets}))

------------------------------------------------------------------------------------
(* Yu-Gi-Oh! (YGOPRODeck): the list, and one dump of all printings.               *)

AppendMissingSetAliases(sets) ==
  sets \cup {a \in MissingReprints : \A s \in sets : s.name # a.name}

\* ygoSlotKey of source and completion alike: the abbreviation and the digits as they
\* stand; a number without abbreviation has no slot. Slots and numbers to count by are
\* sets of at most one.
YgoSlotKeys(n) ==
  IF n.pre \in DOMAIN SetCodes THEN {<<SetCodes[n.pre].abbrev, n.val, n.pad>>} ELSE {}

HasEnRegionInfix(n) == SetCodes[n.pre].infix = "EN"
LikelyEuropean(n) == n.pre \in DOMAIN SetCodes /\ SetCodes[n.pre].infix = "E"

ResolvePackId(sets, p) ==
  LET named == {s \in sets : s.name = p.set /\ s.id # ""}
  IN  IF named # {} THEN (CHOOSE s \in named : TRUE).id ELSE SetCodes[p.no.pre].abbrev

\* One row per slot; a code with EN in it replaces one without.
MergePrinting(cards, p) ==
  LET same == {i \in DOMAIN cards : YgoSlotKeys(cards[i].no) = YgoSlotKeys(p.no)}
      i == CHOOSE j \in same : TRUE
      prev == cards[i]
  IN  CASE same = {} -> Append(cards, Entry(p, p.no))
        [] same # {} /\ ~HasEnRegionInfix(prev.no) /\ HasEnRegionInfix(p.no) ->
             [cards EXCEPT ![i] = [Entry(p, p.no) EXCEPT
                                     !.rarity = IF p.rarity # "" THEN p.rarity ELSE prev.rarity]]
        [] OTHER -> IF prev.rarity = "" THEN [cards EXCEPT ![i].rarity = p.rarity] ELSE cards

Catalogued(p) == /\ p.name # "" /\ p.set # ""
                 /\ ~LikelyEuropean(p.no) /\ YgoSlotKeys(p.no) # {}

\* The rows of a pack, printing by printing.
Merged(printings) ==
  LET cards[n \in 0 .. Len(printings)] ==
        IF n = 0 THEN <<>> ELSE MergePrinting(cards[n - 1], printings[n])
  IN  cards[Len(printings)]

ParseCatalog(dump, sets) ==
  LET listed == {p \in ToSet(dump) : Catalogued(p)}
      OfPack(id) == KeepIn(dump, {p \in listed : ResolvePackId(sets, p) = id})
  IN  {[id |-> id, name |-> Head(OfPack(id)).set, cards |-> ToSet(Merged(OfPack(id)))] :
         id \in {ResolvePackId(sets, p) : p \in listed}}

YuGiOhFetch(list, dump) ==
  IF ~Answered(list) \/ ~Answered(dump) THEN Failed
  ELSE LET sets == AppendMissingSetAliases(ToSet(list))
       IN  Fetched(sets, ParseCatalog(dump, sets))

------------------------------------------------------------------------------------
(* Yu-Gi-Oh! (Bandai): a fixed list; the catalogue is one gallery page per set,    *)
(* which the two promo sets share. Any page that fails fails the whole.           *)

BandaiFetchAll ==
  Fetched({[id |-> e.id, name |-> e.name, date |-> e.date] : e \in SetManifest}, {})

ParseGalleryWikitext(rows) ==
  LET entries == [i \in DOMAIN rows |-> Entry(rows[i], NormalizeCardNumber(rows[i].no))]
  IN  EachNumberOnce(KeepIn(entries, {e \in ToSet(entries) : e.name # ""}))

BandaiFetch(pages) ==
  IF \E e \in SetManifest : ~Answered(pages[e.page]) THEN Failed
  ELSE Fetched(BandaiFetchAll.sets,
               {[id |-> e.id, name |-> e.name,
                 cards |-> {c \in ToSet(ParseGalleryWikitext(pages[e.page])) :
                              e.prefix = "" \/ c.no.pre = e.prefix}] : e \in SetManifest})

------------------------------------------------------------------------------------
(* Digi-Battle (digimoncard.io): one search answers both; packs are the names the  *)
(* cards are listed under, and a card may be in several.                           *)

\* DigiBattle99CardPreviewSource::normalizeCardNumber
DigiNormalize(n) == IF n.pre \in DOMAIN UpperCase THEN [n EXCEPT !.pre = UpperCase[@]] ELSE n

PackNames(rows) == UNION {rows[i].packs : i \in DOMAIN rows}

DigiParseCatalog(rows) ==
  LET entries == [i \in DOMAIN rows |-> [Entry(rows[i], DigiNormalize(rows[i].no)) EXCEPT !.rarity = ""]]
      InPack(name) == {i \in DOMAIN rows : name \in rows[i].packs /\ rows[i].no # NoNumber}
      FirstOfNo(name) == {i \in InPack(name) :
                            \A j \in InPack(name) : j < i => entries[j].no # entries[i].no}
  IN  {[id |-> Slugs[name], name |-> name, cards |-> {entries[i] : i \in FirstOfNo(name)}] :
         name \in {x \in PackNames(rows) : InPack(x) # {} /\ Slugs[x] # ""}}

DigiFetch(reply) ==
  IF ~Answered(reply) THEN Failed
  ELSE Fetched({s \in {[id |-> Slugs[name], name |-> name, date |-> PackDates[name]] :
                         name \in PackNames(reply)} : s.id # ""},
               DigiParseCatalog(reply))
====
