-------------------------------- MODULE SetCompletion --------------------------------
(* Set completion of four games: how many cards of a pack are owned (one tile per  *)
(* set) and which (the checklist of a set). Tile and checklist are computed apart  *)
(* from each other. A card is [region, set, no, lang]; amount, edition and rarity  *)
(* do not count.                                                                  *)
EXTENDS SetSources, PokemonCollectionSetSync

CONSTANT All          \* no language, no region chosen

\* No region is called as the choice of none.
ASSUME AllAssumption == All \notin {"West", "Asia"}

\* passesLanguageFilter, passesRegionFilter
Passing(cards, lang) == {c \in cards : lang = All \/ c.lang = lang}
OfRegion(cards, region) == {c \in cards : region = All \/ c.region = region}

\* What a card of a game counts by: at most one key, none for an unusable number.
WestKeys(n) == {WithoutTotal(n)} \ {NoNumber}
BandaiKeys(n) == {NormalizeCardNumber(n)} \ {NoNumber}
DigiKeys(n) == {DigiNormalize(n)} \ {NoNumber}

\* The numbers of cards or of packs with what they count by.
NumbersOf(cards) == {c.no : c \in cards}
NumbersIn(packs) == NumbersOf(UNION {p.cards : p \in packs})
WestKeysOf(nos) == [n \in nos |-> WestKeys(n)]
YgoKeysOf(nos) == [n \in nos |-> YgoSlotKeys(n)]
BandaiKeysOf(nos) == [n \in nos |-> BandaiKeys(n)]
DigiKeysOf(nos) == [n \in nos |-> DigiKeys(n)]

\* ownedSlotsBySetId and its kin: set id -> the keys owned of it.
OwnedBySet(cards, setOf, keysOf) ==
  LET counted == {c \in cards : setOf[c] # "" /\ keysOf[c.no] # {}}
  IN  [id \in {setOf[c] : c \in counted} |->
         UNION {keysOf[c.no] : c \in {d \in counted : setOf[d] = id}}]

\* The tiles: the packs that are known, not empty, and of which something is owned.
Tiles(owned, packs, keysOf) ==
  {[id |-> p.id, name |-> p.name, total |-> Cardinality(p.cards),
    owned |-> Cardinality({e \in p.cards : keysOf[e.no] \cap owned[p.id] # {}})] :
     p \in {x \in packs : x.id \in DOMAIN owned /\ x.cards # {}}}

\* The checklist of one set: its pack's cards, ticked where one of the cards has the key.
Checklist(packs, id, keys, keysOf) ==
  UNION {{[no |-> e.no, name |-> e.name, owned |-> keysOf[e.no] \cap keys # {}] : e \in p.cards} :
           p \in {x \in packs : x.id = id}}

OwnSet(cards) == [c \in cards |-> c.set]
WestSet(cards) == [c \in cards |-> CanonicalizeWestSetId(c.set)]

------------------------------------------------------------------------------------
(* Pokémon: western ids in their present form, the regions apart.                 *)

PokemonSetOf(cards, region) == IF region = "West" THEN WestSet(cards) ELSE OwnSet(cards)

PokemonOwned(cards, region, lang) ==
  LET mine == OfRegion(Passing(cards, lang), region)
  IN  OwnedBySet(mine, PokemonSetOf(mine, region), WestKeysOf(NumbersOf(mine)))

PokemonTiles(cards, packs, region, lang) ==
  Tiles(PokemonOwned(cards, region, lang), packs[region], WestKeysOf(NumbersIn(packs[region])))

PokemonChecklist(cards, packs, region, id, lang) ==
  LET want == IF region = "West" THEN CanonicalizeWestSetId(id) ELSE id
      mine == {c \in OfRegion(Passing(cards, lang), region) : PokemonSetOf({c}, region)[c] = want}
  IN  Checklist(packs[region], want, UNION {WestKeys(c.no) : c \in mine},
                WestKeysOf(NumbersIn(packs[region])))

\* The choices of the two filters.
PokemonLanguagesInCollection(cards, region) == {c.lang : c \in OfRegion(cards, region)}
PokemonRegionsInCollection(cards, packs) ==
  {r \in {"West", "Asia"} : PokemonTiles(cards, packs, r, All) # {}}

------------------------------------------------------------------------------------
(* The games of one region.                                                       *)

LanguagesInCollection(cards) == {c.lang : c \in cards}
OfSet(cards, id) == {c \in cards : c.set = id}

YuGiOhTiles(cards, packs, lang) ==
  LET mine == Passing(cards, lang)
  IN  Tiles(OwnedBySet(mine, OwnSet(mine), YgoKeysOf(NumbersOf(mine))), packs, YgoKeysOf(NumbersIn(packs)))
YuGiOhChecklist(cards, packs, id, lang) ==
  Checklist(packs, id, UNION {YgoSlotKeys(c.no) : c \in OfSet(Passing(cards, lang), id)},
            YgoKeysOf(NumbersIn(packs)))

BandaiTiles(cards, packs, lang) ==
  LET mine == Passing(cards, lang)
  IN  Tiles(OwnedBySet(mine, OwnSet(mine), BandaiKeysOf(NumbersOf(mine))), packs, BandaiKeysOf(NumbersIn(packs)))
BandaiChecklist(cards, packs, id, lang) ==
  Checklist(packs, id, UNION {BandaiKeys(c.no) : c \in OfSet(Passing(cards, lang), id)},
            BandaiKeysOf(NumbersIn(packs)))

DigiTiles(cards, packs, lang) ==
  LET mine == Passing(cards, lang)
  IN  Tiles(OwnedBySet(mine, OwnSet(mine), DigiKeysOf(NumbersOf(mine))), packs, DigiKeysOf(NumbersIn(packs)))
DigiChecklist(cards, packs, id, lang) ==
  Checklist(packs, id, UNION {DigiKeys(c.no) : c \in OfSet(Passing(cards, lang), id)},
            DigiKeysOf(NumbersIn(packs)))
====
