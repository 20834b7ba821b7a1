--------------------------- MODULE YuGiOhCardPreviewSource ---------------------------
(* Yugipedia for the scan of a printing, YGOPRODeck for the standard picture and  *)
(* for prints, and the offline catalogue for the detection by number.            *)
EXTENDS PreviewLookup

CONSTANTS Files,        \* scans Yugipedia may have: [rarity, edition]
          RarityCodes,  \* rarity -> its code in file names, where Yugipedia has one
          Reissues      \* name of a 25th-anniversary set -> name of the original

VARIABLES catalogFile,   \* set-catalog.json: its rows, or Nothing when it cannot be loaded
          catalogCache   \* the copy loaded by the first detection by number

catalogVars == <<catalogFile, catalogCache>>

\* canonicalizeSetNameForAutoDetect
CanonicalizeSetName(s) == IF s \in DOMAIN Reissues THEN Reissues[s] ELSE s

\* ygoLikelyEuropeanRegionalSetCode: a lone E before the digits.
European(no) == no.pre = "E"

\* buildCandidateFilenames: with the rarity if it is known, then without; the own
\* edition, the other one, the limited one (the four regions and the two file types
\* of each are one candidate here).
Editions == IF ask.first THEN <<"1E", "UE", "LE">> ELSE <<"UE", "1E", "LE">>
OfCode(code) == [i \in 1..3 |-> [rarity |-> code, edition |-> Editions[i]]]
RarityCodeFor(rarity) == IF rarity \in DOMAIN RarityCodes THEN RarityCodes[rarity] ELSE ""
BuildCandidateFilenames ==
  LET code == RarityCodeFor(ask.rarity)
  IN  (IF code # "" THEN OfCode(code) ELSE <<>>) \o OfCode("")

BeginImage ==
  /\ Starts("image")
  /\ IF ask.no # NoNumber /\ ask.name # ""
     THEN Ask("yugipedia")
     ELSE AskKeeping("fallback", FALSE)

\* The first candidate there is a file of; kept is whether Yugipedia was of no help.
ParseYugipediaResponse ==
  /\ at = "yugipedia"
  /\ \E reply \in {Down, Bad} \cup SUBSET Files :
       LET present == KeepIn(BuildCandidateFilenames, reply)
       IN  /\ Hears(reply)
           /\ IF Spoke(reply) /\ present # <<>>
              THEN Answer(Image(Head(present)))
              ELSE AskKeeping("fallback", ~Spoke(reply))

\* The card of that very name if it has a picture, else the first card's.
ParseFallbackImageUrl(rows) ==
  LET named == KeepIn(rows, {r \in Rows : ask.name # "" /\ r.name = ask.name /\ r.img})
  IN  CASE named # <<>> -> Image(Head(named))
        [] named = <<>> /\ rows # <<>> /\ Head(rows).img -> Image(Head(rows))
        [] OTHER -> NotFound

\* As FetchFallback, forgetting that Yugipedia had not answered.
FetchFallbackAlone ==
  /\ at = "fallback"
  /\ \E reply \in ListReplies :
       Hears(reply) /\ Answer(IF Spoke(reply) THEN ParseFallbackImageUrl(reply) ELSE Transient)

\* A miss counts only if Yugipedia has answered, too.
FetchFallback ==
  /\ at = "fallback"
  /\ \E reply \in ListReplies :
       LET found == ParseFallbackImageUrl(reply)
       IN  /\ Hears(reply)
           /\ Answer(IF ~Spoke(reply) \/ (kept /\ found = NotFound) THEN Transient ELSE found)

\* What tells two prints apart; and, wrongly, the set besides.
PrintKeyWithSet(r) == <<r.no, r.rarity, r.set>>
PrintKey(r) == <<r.no, r.rarity>>
SetName == CanonicalizeSetName(ask.set)

\* The prints of the name in the set; without either, all prints of the first card.
ParsePrintVariants(rows) ==
  LET wanted == KeepIn(rows, {r \in Rows : Named(r) /\ (SetName = "" \/ r.set = SetName)})
      first == KeepIn(rows, {r \in Rows : r.name = Head(rows).name /\ Named(r)})
  IN  FirstOfEach(IF wanted = <<>> /\ (ask.name = "" \/ SetName = "") THEN first ELSE wanted,
                  PrintKey)

BeginByName == Starts("byName") /\ Ask("names")

\* Only a request that fails is repeated, without the set.
DetectPrintVariants ==
  \/ /\ at = "names"
     /\ \E reply \in ListReplies :
          /\ Hears(reply)
          /\ IF reply = Down THEN Ask("namesAnywhere")
             ELSE Answer(IF reply = Bad THEN Error ELSE PrintsOrError(ParsePrintVariants(reply)))
  \/ /\ at = "namesAnywhere"
     /\ \E reply \in ListReplies :
          /\ Hears(reply)
          /\ Answer(IF Spoke(reply) THEN PrintsOrError(ParsePrintVariants(reply)) ELSE Error)

\* detectVariantsBySetNoFromCatalog: one print per name of that number.
NameKey(r) == r.name
FromCatalog(rows) ==
  FirstOfEach(KeepIn(rows, {r \in ToSet(rows) :
                r.set = ask.set /\ DigitsEqual(r.no, ask.no) /\ r.name # ""}), NameKey)

\* The catalogue is loaded once and kept for good; kept is what it has.
BeginByNumber ==
  /\ Starts("byNumber")
  /\ IF ask.set = "" \/ ask.no = NoNumber
     THEN Answer(Error) /\ UNCHANGED catalogCache
     ELSE LET cached == IF catalogCache # Nothing THEN catalogCache ELSE catalogFile
          IN  /\ catalogCache' = cached
              /\ AskKeeping("cardset", IF cached = Nothing THEN <<>> ELSE FromCatalog(cached))

\* detectVariantsBySetNoFromCardset
WholeKey(r) == <<r.name, r.no, r.rarity>>
FromCardset(rows) ==
  FirstOfEach(KeepIn(rows, {r \in Rows :
                /\ r.name # "" /\ r.no # NoNumber /\ ~European(r.no)
                /\ r.set = ask.set /\ DigitsEqual(r.no, ask.no)}), WholeKey)

\* The site's rows first, then the catalogue's.
DetectVariantsBySetNo ==
  /\ at = "cardset"
  /\ \E reply \in ListReplies :
       /\ Hears(reply)
       /\ Answer(IF Spoke(reply) /\ FromCardset(reply) # <<>> THEN Prints(FromCardset(reply))
                 ELSE PrintsOrError(kept))

Next == \/ BeginByNumber /\ UNCHANGED catalogFile
        \/ /\ UNCHANGED catalogVars
           /\ \/ BeginImage \/ ParseYugipediaResponse \/ FetchFallback
              \/ BeginByName \/ DetectPrintVariants \/ DetectVariantsBySetNo
====
