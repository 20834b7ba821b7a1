---------------------------------- MODULE SetFiles ----------------------------------
(* The files of a data folder that belong to one game: the collection, a set list  *)
(* and a catalogue per part (Pokémon has the parts West and Asia, the others one),  *)
(* and the set lists former versions left elsewhere. A folder is                   *)
(* [cards, sets, packs, legacy]; each file is its content, Missing or Torn.        *)
EXTENDS SetSources, PokemonCollectionSetSync

CONSTANTS Missing, Torn

ASSUME FilesAssumption == Missing # Torn

Readable(file) == file \notin {Missing, Torn}

\* IFileSystem::writeText truncates before it writes.
Write(w, old, new) == CASE w = "ok" -> new [] w = "fails" -> old [] OTHER -> Torn

------------------------------------------------------------------------------------
(* JsonSetRepository and SetService.                                              *)

\* A file in the present place hides the former one, even when it cannot be read.
LoadSets(d, p) == IF d.sets[p] = Missing THEN d.legacy[p] ELSE d.sets[p]

SaveSets(d, p, sets, w) == [d EXCEPT !.sets[p] = Write(w, @, sets)]

\* What load does besides: a list read in the former place is copied to the present one.
Promote(d, p, w) ==
  IF d.sets[p] = Missing /\ Readable(d.legacy[p]) THEN SaveSets(d, p, d.legacy[p], w) ELSE d

\* As GetSets, with the names as they were saved.
GetSetsAsSaved(d, p) == LoadSets(d, p)

GetSets(d, p) ==
  IF p = "Asia" /\ Readable(LoadSets(d, p)) THEN AugmentCachedSets(LoadSets(d, p))
                                            ELSE LoadSets(d, p)

------------------------------------------------------------------------------------
(* The catalogue services.                                                        *)

SaveCatalog(d, p, packs, w) == [d EXCEPT !.packs[p] = Write(w, @, packs)]

\* exists and load: what a panel holds of a catalogue, Missing unless it is loaded.
Catalogs(d) == [p \in DOMAIN d.packs |-> IF Readable(d.packs[p]) THEN d.packs[p] ELSE Missing]

------------------------------------------------------------------------------------
(* CollectionService::list: records come back with the present ids of their sets.  *)

LoadCard(c) == IF c.region = "West" THEN [c EXCEPT !.set = CanonicalizeWestSetId(@)] ELSE c

LoadCards(d) == {LoadCard(c) : c \in d.cards}

------------------------------------------------------------------------------------
(* ISetSource: the list with its catalogue, and the list alone.                   *)

FetchAllWithCatalog(p, reply) ==
  CASE p = "Magic" -> MagicFetchAll(reply.list)
    [] p = "West" -> PokemonFetch(reply.list, reply.details)
    [] p = "Asia" -> JapanesePokemonFetch(reply.list, reply.details)
    [] p = "YuGiOh" -> YuGiOhFetch(reply.list, reply.dump)
    [] p = "Bandai" -> BandaiFetch(reply.pages)
    [] p = "Digi" -> DigiFetch(reply.list)

FetchAll(p, reply) ==
  CASE p = "Bandai" -> BandaiFetchAll
    [] p = "YuGiOh" -> IF Answered(reply.list)
                       THEN Fetched(AppendMissingSetAliases(ToSet(reply.list)), {}) ELSE Failed
    [] OTHER -> FetchAllWithCatalog(p, reply)
====
