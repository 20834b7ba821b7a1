-------------------------- MODULE PokemonCollectionSetSync --------------------------
(* Ids of western sets: the former ids of the app and those of TCGdex.  After an   *)
(* update of the set lists western records get the present id of their set, and   *)
(* all get its name and date as listed.                                           *)
CONSTANT LegacyAliases   \* former id -> id; the table of PokemonWestSetId.cpp

\* No id is former and present at once.
ASSUME AliasesAssumption == \A id \in DOMAIN LegacyAliases : LegacyAliases[id] \notin DOMAIN LegacyAliases

CanonicalizeWestSetId(id) ==
  IF id \in DOMAIN LegacyAliases THEN LegacyAliases[id] ELSE id

\* indexById, applySetMetadata: a set that is not listed leaves the record alone.
ApplySetMetadata(c, sets) ==
  LET listed == {s \in sets : s.id # "" /\ s.id = c.set}
      s == CHOOSE x \in listed : TRUE
  IN  IF listed = {} THEN c ELSE [c EXCEPT !.name = s.name, !.date = s.date]

\* As SyncCard, with the western ids for all regions.
SyncCardOfAnyRegion(c, west, asia) ==
  LET d == [c EXCEPT !.set = CanonicalizeWestSetId(@)]
  IN  ApplySetMetadata(d, IF c.region = "West" THEN west ELSE asia)

SyncCard(c, west, asia) ==
  CASE c.region = "West" -> ApplySetMetadata([c EXCEPT !.set = CanonicalizeWestSetId(@)], west)
    [] c.region = "Asia" -> ApplySetMetadata(c, asia)
    [] OTHER -> c

SyncPokemonCollectionSets(cards, west, asia) == {SyncCard(c, west, asia) : c \in cards}
====
