-------------------------- MODULE PokemonCardPreviewSource --------------------------
(* TCGdex, western sets: a card by its id where set and number are known, then   *)
(* a filtered search; lists of a set's cards for the detection by name.          *)
EXTENDS PreviewLookup, PokemonCollectionSetSync

SetId == CanonicalizeWestSetId(ask.set)
No == WithoutTotal(ask.no)
PrintOf(r) == [name |-> r.name, no |-> WithoutTotal(r.no), rarity |-> r.rarity]
PrintsOf(s) == [i \in DOMAIN s |-> PrintOf(s[i])]

\* buildCardByIdUrl needs both; otherwise the search goes by what there is.
BeginImage ==
  /\ Starts("image")
  /\ Ask(IF SetId # "" /\ No # NoNumber THEN "imageById" ELSE "imageSearch")

\* A card without image, an unreadable answer and none at all go on to the search.
ParseCardByIdResponse ==
  /\ at = "imageById"
  /\ \E reply \in CardReplies({r \in Rows : LocalIdsMatch(r.no, No)}) :
       /\ Hears(reply)
       /\ IF Spoke(reply) /\ Head(reply).img THEN Answer(Image(Head(reply)))
                                             ELSE Ask("imageSearch")

ParseSearchResponse ==
  /\ at = "imageSearch"
  /\ \E reply \in ListReplies :
       /\ Hears(reply)
       /\ Answer(IF Spoke(reply) THEN FirstImage(reply) ELSE Transient)

BeginByName == Starts("byName") /\ Ask(IF SetId # "" THEN "detail" ELSE "nameSearch")

NameKey(p) == <<p.no, p.rarity>>

\* parsePrintVariants: the rows of the name, one per number and rarity.
ParsePrintVariants(rows) ==
  FirstOfEach(PrintsOf(KeepIn(rows, {r \in Rows : Named(r) /\ r.no # NoNumber})), NameKey)

DetectFromSetDetail ==
  /\ at = "detail"
  /\ \E reply \in ListReplies :
       /\ Hears(reply)
       /\ IF Spoke(reply) /\ ParsePrintVariants(reply) # <<>>
          THEN Answer(Prints(ParsePrintVariants(reply)))
          ELSE Ask("nameSearch")

DetectFromSearch ==
  /\ at = "nameSearch"
  /\ \E reply \in ListReplies :
       LET found == KeepIn(reply, {r \in Rows : Named(r) /\ (SetId = "" \/ r.set = SetId)})
       IN  /\ Hears(reply)
           /\ Answer(IF Spoke(reply) THEN PrintsOrError(FirstOfEach(PrintsOf(found), NameKey))
                                     ELSE Error)

BeginByNumber ==
  /\ Starts("byNumber")
  /\ IF SetId = "" \/ No = NoNumber THEN Answer(Error) ELSE Ask("numberById")

\* The card of that id counts only if it has the number that was asked for.
ParsePrintFromCardById ==
  /\ at = "numberById"
  /\ \E reply \in CardReplies(Rows) :
       /\ Hears(reply)
       /\ IF Spoke(reply) /\ Head(reply).name # "" /\ LocalIdsMatch(Head(reply).no, No)
          THEN Answer(Prints(PrintsOf(reply)))
          ELSE Ask("numberSearch")

OfTheNumber(rows) == KeepIn(rows, {r \in Rows : r.name # "" /\ LocalIdsMatch(r.no, No)})
WholeKey(p) == p

DetectByNumberSearch ==
  /\ at = "numberSearch"
  /\ \E reply \in ListReplies :
       /\ Hears(reply)
       /\ Answer(IF Spoke(reply)
                 THEN PrintsOrError(FirstOfEach(PrintsOf(OfTheNumber(reply)), WholeKey))
                 ELSE Error)

Next == \/ BeginImage \/ ParseCardByIdResponse \/ ParseSearchResponse
        \/ BeginByName \/ DetectFromSetDetail \/ DetectFromSearch
        \/ BeginByNumber \/ ParsePrintFromCardById \/ DetectByNumberSearch
====
