------------------------ MODULE DigiBattle99CardPreviewSource ------------------------
(* digimoncard.io: the image of a number needs no request; names and numbers are  *)
(* searched within a pack, and once more without it. A row's set is the packs the *)
(* card is in.                                                                    *)
EXTENDS PreviewLookup

CardInPack(r) == ask.set = "" \/ ask.set \in r.set

BuildImageUrl(no) == Image([no |-> no])

BeginImage ==
  /\ Starts("image")
  /\ CASE ask.no # NoNumber -> Answer(BuildImageUrl(ask.no))
       [] ask.no = NoNumber /\ ask.name = "" -> Answer(NotFound)
       [] OTHER -> Ask("search")

\* parseImageUrlFromSearch: the first card of exactly that name.
ParseImageUrlFromSearch(rows) ==
  LET named == KeepIn(rows, {r \in Rows : Named(r)})
  IN  IF named = <<>> \/ Head(named).no = NoNumber THEN NotFound ELSE BuildImageUrl(Head(named).no)

FetchImageUrl ==
  /\ at = "search"
  /\ \E reply \in ListReplies :
       Hears(reply) /\ Answer(IF Spoke(reply) THEN ParseImageUrlFromSearch(reply) ELSE Transient)

\* The rows of the name (by name) or of the number (by number) in the pack, one per
\* number; the site's own matching is fuzzy.
NoKey(r) == r.no
\* As ParsePrintVariants, taking the site's word for the number.
ParsePrintVariantsAsSent(rows) ==
  FirstOfEach(KeepIn(rows, {r \in Rows : CardInPack(r) /\ r.no # NoNumber}), NoKey)

ParsePrintVariants(rows) ==
  FirstOfEach(KeepIn(rows, {r \in Rows :
    /\ CardInPack(r) /\ r.no # NoNumber
    /\ IF Asks("byName") THEN Named(r) ELSE CardNumbersMatch(ask.no, r.no)}), NoKey)

BeginByName == Starts("byName") /\ Ask("names")

\* Only a request that fails is repeated, without the pack.
DetectPrintVariants ==
  \/ /\ at = "names"
     /\ \E reply \in ListReplies :
          /\ Hears(reply)
          /\ IF reply = Down THEN Ask("namesAnywhere")
             ELSE Answer(IF reply = Bad THEN Error ELSE PrintsOrError(ParsePrintVariants(reply)))
  \/ /\ at = "namesAnywhere"
     /\ \E reply \in ListReplies :
          /\ Hears(reply)
          /\ Answer(IF Spoke(reply) THEN PrintsOrError(ParsePrintVariants(reply)) ELSE Error)

BeginByNumber ==
  /\ Starts("byNumber")
  /\ IF ask.set = "" \/ ask.no = NoNumber THEN Answer(Error) ELSE Ask("numbers")

\* A search that fails or finds nothing is repeated, without the pack.
DetectVariantsBySetNo ==
  \/ /\ at = "numbers"
     /\ \E reply \in ListReplies :
          /\ Hears(reply)
          /\ IF Spoke(reply) /\ ParsePrintVariants(reply) # <<>>
             THEN Answer(Prints(ParsePrintVariants(reply)))
             ELSE Ask("numbersAnywhere")
  \/ /\ at = "numbersAnywhere"
     /\ \E reply \in ListReplies :
          /\ Hears(reply)
          /\ Answer(IF Spoke(reply) THEN PrintsOrError(ParsePrintVariants(reply)) ELSE Error)

Next == \/ BeginImage \/ FetchImageUrl
        \/ BeginByName \/ DetectPrintVariants
        \/ BeginByNumber \/ DetectVariantsBySetNo
====
