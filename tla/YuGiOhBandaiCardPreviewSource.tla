------------------------ MODULE YuGiOhBandaiCardPreviewSource ------------------------
(* Yugipedia only: the image of a page whose title is guessed from the record,   *)
(* and a semantic query (ask) by name or number when the guess fails.            *)
EXTENDS PreviewLookup

\* A page is a name and the suffix of its title.
Page(name, suffix) == [name |-> name, suffix |-> suffix]
PromoSets == {"banpromo-j", "banpromo-ta"}
IsAlphanumericPromoNumber(n) == n.pre # ""

PreferredPageTitle(name, set, no) ==
  LET n == NormalizeCardNumber(no)
  IN  Page(name,
           CASE set = "bansealdass" -> "sealdass"
             [] set # "bansealdass" /\ (set \in PromoSets \/ IsAlphanumericPromoNumber(n)) -> ""
             [] OTHER -> IF n = Number("", 118) THEN "english" ELSE "bandai")

\* YuGiOhBandaiSetSource::setIdForNumber
SetIdForNumber(no) ==
  CASE no.pre = "J" -> "banpromo-j"
    [] no.pre = "TA" -> "banpromo-ta"
    [] no.pre = "" /\ no.val \in 1..42 -> "ban1"
    [] no.pre = "" /\ no.val \in 43..88 -> "ban2"
    [] no.pre = "" /\ no.val \in 89..118 -> "ban3"
    [] OTHER -> ""

\* A row of an ask is a page with its printouts; its title tells the set.
EnrichPrint(r) ==
  [name |-> r.name, no |-> NormalizeCardNumber(r.no), suffix |-> r.suffix, rarity |-> r.rarity,
   set |-> CASE r.suffix = "sealdass" -> "bansealdass"
             [] r.suffix = "english" -> "ban3"
             [] OTHER -> SetIdForNumber(NormalizeCardNumber(r.no))]

AskMatchRank(suffix, set) ==
  CASE set = "bansealdass" -> (CASE suffix = "sealdass" -> 0 [] suffix = "bandai" -> 1
                                 [] OTHER -> 5)
    [] OTHER -> (CASE suffix = "bandai" -> 0 [] suffix = "english" -> 1
                   [] suffix = "sealdass" -> (IF set = "ban3" THEN 4 ELSE 3) [] OTHER -> 5)

\* The rows of the number asked for, best titles first.
ParseAskResponse(rows, wanted) ==
  LET prints == [i \in DOMAIN rows |-> EnrichPrint(rows[i])]
      Asked(p) == p.name # "" /\ (wanted = NoNumber \/ p.no = NormalizeCardNumber(wanted))
  IN  FlattenSeq([k \in 1 .. 6 |-> KeepIn(prints, {p \in ToSet(prints) :
                    Asked(p) /\ AskMatchRank(p.suffix, ask.set) = k - 1})])

PageReplies == {Down, Bad, "image", "none"}

\* parsePageImagesResponse: the page's image, if it has one.
ParsePageImages(reply, page) ==
  CASE ~Spoke(reply) -> Transient [] reply = "image" -> Image(page) [] OTHER -> NotFound

Is118 == NormalizeCardNumber(ask.no) = Number("", 118)
AfterDirect == Ask(IF Is118 THEN "englishPage" ELSE "askName")

\* Without a name there is no page to ask for, and no ask either: transient.
BeginImage ==
  /\ Starts("image")
  /\ CASE ask.name # "" -> Ask("page")
       [] ask.name = "" /\ Is118 -> Ask("englishPage")
       [] OTHER -> Answer(Transient)

FetchDirectPage ==
  /\ at = "page"
  /\ \E reply \in PageReplies :
       LET direct == ParsePageImages(reply, PreferredPageTitle(ask.name, ask.set, ask.no))
       IN  /\ Hears(reply)
           /\ IF direct.kind = "Image" THEN Answer(direct) ELSE AfterDirect

FetchEnglishPage ==
  /\ at = "englishPage"
  /\ \E reply \in PageReplies :
       /\ Hears(reply)
       /\ CASE reply = "image" -> Answer(Image(Page(ask.name, "english")))
            [] reply # "image" /\ ask.name = "" -> Answer(Transient)
            [] OTHER -> Ask("askName")

\* An ask that fails makes the lookup transient, whatever the page said.
AskByName ==
  /\ at = "askName"
  /\ \E reply \in ListReplies :
       LET prints == ParseAskResponse(reply, NoNumber)
           best == Head(prints)
       IN  /\ Hears(reply)
           /\ CASE ~Spoke(reply) -> Answer(Transient)
                [] Spoke(reply) /\ prints = <<>> -> Answer(NotFound)
                [] OTHER -> AskKeeping("bestPage",
                     IF best.suffix \in {"english", "sealdass"} THEN Page(best.name, best.suffix)
                     ELSE PreferredPageTitle(best.name, best.set, best.no))

FetchBestPage ==
  /\ at = "bestPage"
  /\ \E reply \in PageReplies : Hears(reply) /\ Answer(ParsePageImages(reply, kept))

BeginByName ==
  /\ Starts("byName")
  /\ IF ask.name = "" THEN Answer(Error) ELSE Ask("names")

DetectPrintVariants ==
  /\ at = "names"
  /\ \E reply \in ListReplies :
       /\ Hears(reply)
       /\ Answer(IF Spoke(reply) THEN Prints(ParseAskResponse(reply, NoNumber)) ELSE Error)

\* Promo numbers are not numbers to the ask; their gallery lists them.
BeginByNumber ==
  /\ Starts("byNumber")
  /\ IF ask.no = NoNumber THEN Answer(Error)
     ELSE Ask(IF IsAlphanumericPromoNumber(ask.no) THEN "gallery" ELSE "askNumber")

InTheSet(prints) ==
  IF ask.set = "" THEN Prints(prints)
  ELSE PrintsOrError(KeepIn(prints, {p \in ToSet(prints) : p.set = ask.set}))

AskByNumber ==
  /\ at = "askNumber"
  /\ \E reply \in ListReplies :
       /\ Hears(reply)
       /\ Answer(IF Spoke(reply) THEN InTheSet(ParseAskResponse(reply, ask.no)) ELSE Error)

\* parsePromoGalleryResponse: the set follows from the number.
ParsePromoGalleryResponse ==
  /\ at = "gallery"
  /\ \E reply \in ListReplies :
       LET wanted == KeepIn(reply, {r \in Rows :
                       NormalizeCardNumber(r.no) = NormalizeCardNumber(ask.no)})
       IN  /\ Hears(reply)
           /\ Answer(IF Spoke(reply)
                     THEN InTheSet([i \in DOMAIN wanted |->
                            [name |-> wanted[i].name, no |-> wanted[i].no, suffix |-> "",
                             rarity |-> wanted[i].rarity, set |-> SetIdForNumber(wanted[i].no)]])
                     ELSE Error)

Next == \/ BeginImage \/ FetchDirectPage \/ FetchEnglishPage \/ AskByName \/ FetchBestPage
        \/ BeginByName \/ DetectPrintVariants
        \/ BeginByNumber \/ AskByNumber \/ ParsePromoGalleryResponse
====
