---------------------- MODULE JapanesePokemonCardPreviewSource ----------------------
(* TCGdex, Japanese sets, with the bundled catalogue as the second opinion: for  *)
(* images TCGdex lacks, for sets it does not have and for English names.        *)
EXTENDS PreviewLookup, JapanesePokemonEnCatalog

No == WithoutTotal(ask.no)
Known(no) == FindPrint(ask.set, no) # <<>>

\* catalogPreviewFor: the image of exactly that entry.
CatalogPreviewFor(no) ==
  LET with == KeepIn(FindPrint(ask.set, no), {p \in Entries : p.url # ""})
  IN  IF with = <<>> THEN NotFound ELSE Image(Head(with))

CatalogPreviewByName ==
  LET with == KeepIn(FindPrintsByName(ask.set, ask.name), {p \in Entries : p.url # ""})
  IN  IF with = <<>> THEN NotFound ELSE Image(Head(with))

\* An entry whose Japanese name is another card's was seeded wrongly.
CatalogPrintMatchesRow(p, r) == p.ja = "" \/ p.ja = r.name

NameMatchesRow(r) ==
  \/ Named(r)
  \/ \E i \in DOMAIN CatalogPrints :
       LET p == CatalogPrints[i]
       IN  /\ p.set = ask.set /\ p.no = r.no
           /\ CatalogPrintMatchesRow(p, r)
           /\ p.en = ask.name \/ p.ja = ask.name

\* The card object of an id: TCGdex keys it by set and number.
CardObject(no) == CardReplies({r \in Rows : LocalIdsMatch(r.no, no)})

BeginImage ==
  /\ Starts("image")
  /\ IF ask.set = "" THEN Answer(NotFound)
                     ELSE Ask(IF No # NoNumber THEN "imageCard" ELSE "imageDetail")

\* The card by its number; unreachable, an entry of the catalogue is the answer.
FetchCard ==
  /\ at = "imageCard"
  /\ \E reply \in CardObject(No) :
       /\ Hears(reply)
       /\ CASE reply = Bad -> Answer(Transient)
            [] reply = Down -> IF Known(No) THEN Answer(CatalogPreviewFor(No))
                                            ELSE Ask("imageDetail")
            [] OTHER -> IF Head(reply).img THEN Answer(Image(Head(reply)))
                                           ELSE Ask("imageDetail")

\* No set detail: catalogue-only products; what is not in it stays transient.
NoSetDetail ==
  CASE No # NoNumber -> IF Known(No) THEN CatalogPreviewFor(No) ELSE Transient
    [] No = NoNumber /\ HasPrintsForSet(ask.set) -> CatalogPreviewByName
    [] OTHER -> Transient

\* As ChosenRows without the guard on an empty number: a name stands in for a
\* number that is not listed.
ChosenRowsOrNamesake(rows) ==
  KeepIn(rows, {r \in Rows : LocalIdsMatch(r.no, No) \/ (ask.name # "" /\ NameMatchesRow(r))})

\* The row asked for: by its number if there is one, and only otherwise by name.
ChosenRows(rows) ==
  KeepIn(rows, {r \in Rows :
    IF No # NoNumber THEN LocalIdsMatch(r.no, No) ELSE ask.name # "" /\ NameMatchesRow(r)})

\* No such row: an empty list is completed from the catalogue.
NoRowChosen(rows) ==
  CASE rows # <<>> \/ ~HasPrintsForSet(ask.set) -> NotFound
    [] rows = <<>> /\ No # NoNumber -> CatalogPreviewFor(No)
    [] OTHER -> CatalogPreviewByName

FetchSetDetail ==
  /\ at = "imageDetail"
  /\ \E reply \in ListReplies :
       /\ Hears(reply)
       /\ CASE reply = Bad -> Answer(Transient)
            [] reply = Down -> Answer(NoSetDetail)
            [] OTHER ->
                 LET chosen == ChosenRows(reply)
                 IN  IF chosen = <<>> THEN Answer(NoRowChosen(reply))
                     ELSE IF Head(chosen).img THEN Answer(Image(Head(chosen)))
                     ELSE AskKeeping("imageChosen", Head(chosen).no)

\* The list omits images the card object has; then the catalogue's, of that number.
FetchChosenCard ==
  /\ at = "imageChosen"
  /\ \E reply \in CardObject(kept) :
       /\ Hears(reply)
       /\ Answer(CASE reply = Bad -> Transient
                   [] Spoke(reply) /\ Head(reply).img -> Image(Head(reply))
                   [] OTHER -> CatalogPreviewFor(kept))

PrintOf(no, rarity) == [name |-> "", no |-> no, rarity |-> rarity]
PrintKey(p) == p.no

\* Entries with an image first; the same picture is not offered twice.
ArtKey(p) == <<p.url, IF p.url = "" THEN p.no ELSE NoNumber>>
ImagedFirst(s) ==
  KeepIn(s, {p \in Entries : p.url # ""}) \o KeepIn(s, {p \in Entries : p.url = ""})

DetectPrintVariantsFromCatalog ==
  LET hits == ImagedFirst(FirstOfEach(FindPrintsByName(ask.set, ask.name), ArtKey))
      found == [i \in DOMAIN hits |-> PrintOf(hits[i].no, "")]
  IN  IF ask.name = "" /\ HasPrintsForSet(ask.set) THEN Prints(<<>>) ELSE PrintsOrError(found)

\* Catalogue hits that the list does not contradict come first, then the rows.
ParsePrintVariants(rows) ==
  LET RowOf(p) == KeepIn(rows, {r \in Rows : LocalIdsMatch(r.no, p.no)})
      named == FindPrintsByName(ask.set, ask.name)
      hits == IF rows = <<>> THEN FirstOfEach(named, ArtKey)
              ELSE KeepIn(named, {p \in Entries :
                     RowOf(p) # <<>> /\ CatalogPrintMatchesRow(p, Head(RowOf(p)))})
      first == ImagedFirst(hits)
      others == KeepIn(rows, {r \in Rows : NameMatchesRow(r)})
  IN  FirstOfEach(
        [i \in DOMAIN first |->
           PrintOf(first[i].no, IF rows = <<>> THEN "" ELSE Head(RowOf(first[i])).rarity)]
        \o [i \in DOMAIN others |-> PrintOf(others[i].no, others[i].rarity)], PrintKey)

BeginByName ==
  /\ Starts("byName")
  /\ IF ask.set = "" THEN Answer(Error) ELSE Ask("names")

DetectPrintVariants ==
  /\ at = "names"
  /\ \E reply \in ListReplies :
       LET parsed == ParsePrintVariants(reply)
       IN  /\ Hears(reply)
           /\ Answer(IF Spoke(reply) /\ (parsed # <<>> \/ ask.name = "") THEN Prints(parsed)
                     ELSE DetectPrintVariantsFromCatalog)

BeginByNumber ==
  /\ Starts("byNumber")
  /\ IF ask.set = "" \/ No = NoNumber THEN Answer(Error) ELSE Ask("number")

\* The entries of a number: exactly that key, then those that differ in zeros.
EntriesOf(no) ==
  FindPrint(ask.set, no)
  \o KeepIn(PrintsForSet(ask.set), {p \in Entries : LocalIdsMatch(p.no, no)})

EnglishName(r) ==
  LET english == KeepIn(EntriesOf(No), {p \in Entries : p.en # ""})
  IN  IF english = <<>> THEN r.name ELSE Head(english).en

DetectVariantsBySetNoFromCatalog ==
  LET found == EntriesOf(No)
      name == IF Head(found).en # "" THEN Head(found).en ELSE Head(found).ja
  IN  IF found = <<>> \/ name = "" THEN Error
      ELSE Prints(<<[name |-> name, no |-> Head(found).no, rarity |-> ""]>>)

DetectVariantsBySetNo ==
  /\ at = "number"
  /\ \E reply \in CardReplies(Rows) :
       /\ Hears(reply)
       /\ Answer(IF Spoke(reply) /\ Head(reply).name # "" /\ LocalIdsMatch(Head(reply).no, No)
                 THEN Prints(<<[name |-> EnglishName(Head(reply)),
                                no |-> WithoutTotal(Head(reply).no),
                                rarity |-> Head(reply).rarity]>>)
                 ELSE DetectVariantsBySetNoFromCatalog)

Next == \/ BeginImage \/ FetchCard \/ FetchSetDetail \/ FetchChosenCard
        \/ BeginByName \/ DetectPrintVariants
        \/ BeginByNumber \/ DetectVariantsBySetNo
====
