-------------------------------- MODULE PreviewSources --------------------------------
(* The six preview sources behind one port: what CardPreviewService and the edit  *)
(* dialogs may rely on, whatever the upstreams answer. One call at a time: the     *)
(* sources share nothing but the Yu-Gi-Oh! catalogue, which outlives the calls.    *)
EXTENDS PreviewLookup, PokemonCollectionSetSync

CONSTANTS AsksOf,         \* source -> the calls made
          CatalogPrints, Titles, Files, RarityCodes, Reissues,
          YgoCatalogs     \* contents set-catalog.json may have

VARIABLES catalogFile, catalogCache

catalogVars == <<catalogFile, catalogCache>>
sourcesVars == <<lookupVars, catalogVars>>

Magic == INSTANCE MagicCardPreviewSource
Pokemon == INSTANCE PokemonCardPreviewSource
Japanese == INSTANCE JapanesePokemonCardPreviewSource
YuGiOh == INSTANCE YuGiOhCardPreviewSource
Bandai == INSTANCE YuGiOhBandaiCardPreviewSource
Digi == INSTANCE DigiBattle99CardPreviewSource

\* Listings and catalogues are sequences of cards with numbers. No two entries of the
\* bundled catalogue have one set and one number, which a look at the file confirms.
ASSUME SourcesAssumption ==
  /\ \A s \in DOMAIN RowsOf : \A r \in RowsOf[s] : r.no \in Numbers
  /\ \A s \in DOMAIN RowsOf : \A a \in AsksOf[s] : a.no \in Numbers
  /\ \A c \in YgoCatalogs : c = Nothing \/ c \in Seq(ToSet(c))
  /\ CatalogPrints \in Seq(ToSet(CatalogPrints))
  /\ \A i, j \in DOMAIN CatalogPrints :
       CatalogPrints[i].set = CatalogPrints[j].set /\ CatalogPrints[i].no = CatalogPrints[j].no
         => i = j

SourcesInit ==
  /\ source \in DOMAIN RowsOf
  /\ ask \in AsksOf[source]
  /\ at = "Begin" /\ kept = Nothing /\ heard = <<>> /\ result = Nothing
  /\ catalogFile \in (IF source = "yugioh" THEN YgoCatalogs ELSE {Nothing})
  /\ catalogCache = Nothing

\* The next call of the same source.
Call == /\ at = "Idle" /\ at' = "Begin"
        /\ ask' \in AsksOf[source]
        /\ heard' = <<>> /\ result' = Nothing
        /\ UNCHANGED <<source, kept, catalogVars>>

\* Sets > Update Yu-Gi-Oh!, between two calls: the file is written, the source not told.
UpdateCatalog == /\ at = "Idle" /\ source = "yugioh"
                 /\ catalogFile' \in YgoCatalogs \ {catalogFile}
                 /\ result' = Nothing /\ heard' = <<>>
                 /\ UNCHANGED <<source, ask, at, kept, catalogCache>>

Lookup == /\ UNCHANGED source
          /\ \/ /\ UNCHANGED <<catalogFile, catalogCache>>
                /\ \/ source = "magic" /\ Magic!Next
                   \/ source = "pokemon" /\ Pokemon!Next
                   \/ source = "japanese" /\ Japanese!Next
                   \/ source = "bandai" /\ Bandai!Next
                   \/ source = "digi" /\ Digi!Next
             \/ source = "yugioh" /\ YuGiOh!Next

SourcesNext == Call \/ UpdateCatalog \/ Lookup

SourcesSpec == SourcesInit /\ [][SourcesNext]_sourcesVars

------------------------------------------------------------------------------------

Answers(kind) == result # Nothing /\ result.kind = kind
Answered(i) == heard[i] = "ok"

\* docs/caching.md: a verdict "no image", which the service stores for good, needs
\* upstreams that spoke. Magic, Yu-Gi-Oh! and Digi-Battle need all of them, western
\* Pokémon and Bandai the one asked last, Japanese Pokémon the set or the catalogue.
MissesAreConfirmed ==
  Answers("NotFound") /\ heard # <<>> =>
    CASE source \in {"magic", "yugioh", "digi"} -> \A i \in DOMAIN heard : Answered(i)
      [] source \in {"pokemon", "bandai"} -> Answered(Len(heard))
      [] OTHER -> Japanese!HasPrintsForSet(ask.set) \/ \E i \in DOMAIN heard : Answered(i)

\* A Japanese card shown by its number shows that number's picture: neither a namesake
\* of the set nor a neighbour in the catalogue lends its own.
NoBorrowedArt ==
  source = "japanese" /\ Answers("Image") /\ Japanese!No # NoNumber =>
    LocalIdsMatch(result.of[1].no, Japanese!No)

\* Detection by number, which fills in the name, never answers another number,
\* however loosely the upstreams match.
NumbersAreTheAskedOnes ==
  Answers("Prints") /\ ask.op = "byNumber" =>
    \A i \in DOMAIN result.of :
      LET no == result.of[i].no
      IN  CASE source \in {"pokemon", "japanese"} -> LocalIdsMatch(no, WithoutTotal(ask.no))
            [] source = "yugioh" -> DigitsEqual(no, ask.no)
            [] source = "bandai" -> NormalizeCardNumber(no) = NormalizeCardNumber(ask.no)
            [] OTHER -> CardNumbersMatch(ask.no, no)

\* What Next steps through has no print twice: pressing it always shows another one.
PrintsAreDistinct ==
  Answers("Prints") /\ source # "bandai" =>
    \A i, j \in DOMAIN result.of :
      i # j => \/ result.of[i].no # result.of[j].no
               \/ source # "digi" /\ source # "japanese"
                  /\ \/ result.of[i].rarity # result.of[j].rarity
                     \/ ask.op = "byNumber" /\ result.of[i].name # result.of[j].name

\* docs/caching.md: a lookup that reached nobody is transient, never "no image".
UnansweredIsTransient ==
  Answers("NotFound") /\ heard # <<>> => \E i \in DOMAIN heard : Answered(i)
====
