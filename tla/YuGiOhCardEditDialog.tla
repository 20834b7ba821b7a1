----------------------------- MODULE YuGiOhCardEditDialog -----------------------------
(* YuGiOhCardEditDialog: the number and the rarity of a print, each with a ring that  *)
(* "Next" steps through. Lookups by name run in the handler and block it; a lookup by *)
(* number runs on a thread of its own, and counts if variantFetchEpoch_ is unchanged. *)
(* A full code ("RA04-EN001") is a set, a region and digits. The control holds digits *)
(* only, in blocks: those of the set's id, if any, and those of the number; leading   *)
(* zeros, which the comparisons strip, are left out.                                  *)
EXTENDS Naturals, SequencesExt, Filtering

CONSTANTS
    YgoSets,         \* the set list
    FirstYgoSet,     \* its first entry
    SetDigits,       \* the digits in the id of a set
    NoSet,           \* card_.set with an empty id
    Names, Blank,    \* card names; the empty name
    YgoNumbers,      \* numbers: blocks of digits, none for the empty field
    YgoRarities,     \* the rarities of the choice
    Printings,       \* the prints of each set: [code, rarity, name], in upstream order
    MaxEpoch         \* bound on the edits that clear what was detected

\* What the constants must be.
YgoDialogAssumption ==
    /\ FirstYgoSet \in YgoSets /\ NoSet \notin YgoSets
    /\ Blank \notin Names
    /\ DOMAIN SetDigits = YgoSets \cup {NoSet} /\ SetDigits[NoSet] = <<>>
    /\ <<>> \in YgoNumbers
    /\ Printings \in [YgoSets -> Seq([code : [set : YgoSets, region : STRING, no : Seq(Nat)],
                                      rarity : STRING, name : Names])]
    /\ MaxEpoch \in Nat

VARIABLES
    form,       \* the controls: name, set, number, rarity, language, lastEdited; and whether
                \* the set was typed since the rings were cleared (history)
    record,     \* card_: name and set; its number is read only once it is saved
    epoch,      \* variantFetchEpoch_, from the constructor's on
    ring,       \* cachedVariants_, and the two rings with their positions
    button,     \* is autoSetNoBtn_ enabled?
    state,      \* "open", "saved" by OK, or "cancelled"
    jobs,       \* scheduled prefetches, lookups by number, and posted answers
    standsFor   \* the code the number on screen was taken from, if none was typed (history)

dialogVars == <<form, record, epoch, ring, button, state, jobs, standsFor>>

NoCode == [set |-> NoSet, region |-> "", no |-> <<>>]
NoRing == [variants |-> <<>>, codes |-> <<>>, codePos |-> 0, rarities |-> <<>>, rarityPos |-> 0]

------------------------------------------------------------------------------------
(* Codes and rings.                                                               *)

\* All digits of a code, those of the set's id included; and back, with the set chosen.
ExtractSetNoNumeric(code) == SetDigits[code.set] \o code.no
ComposeFullSetNo(f) ==
    IF f.number = <<>> THEN NoCode ELSE [set |-> f.set, region |-> "", no |-> f.number]

\* ygoPrintingSlotsMatch: set and digits, whatever the region.
SlotsMatch(a, b) == a.set = b.set /\ a.no = b.no

\* "LOB-E003": the European numbering, which English cards do not have.
LikelyEuropean(code) == code.region = "E"

\* uniqueSetCodes_, each slot once; raritiesForCurrentSetCode_.
CodesOf(prints) ==
    LET once == FirstOfEach(KeepIn(prints, {p \in ToSet(prints) : p.code.no # <<>>}),
                            LAMBDA p : <<p.code.set, p.code.no>>)
    IN  [i \in DOMAIN once |-> once[i].code]
RaritiesOf(prints, full) ==
    LET once == FirstOfEach(KeepIn(prints, {p \in ToSet(prints) :
                                              p.rarity # "" /\ SlotsMatch(p.code, full)}),
                            LAMBDA p : p.rarity)
    IN  [i \in DOMAIN once |-> once[i].rarity]

\* rebuildVariantRingsFromCache and syncRingPositionsToControls, for the controls f.
Rings(prints, f) ==
    LET full == ComposeFullSetNo(f)
        kept == KeepIn(prints, {p \in ToSet(prints) :
                                  f.language = "English" => ~LikelyEuropean(p.code)})
        codes == CodesOf(kept)
        rarities == RaritiesOf(kept, full)
    IN  [variants |-> kept, codes |-> codes, rarities |-> rarities,
         codePos |-> PlaceIn(codes, {c \in ToSet(codes) : SlotsMatch(c, full)}),
         rarityPos |-> PlaceIn(rarities, {f.rarity})]

\* applyRarityStringToChoice: an empty rarity selects nothing.
ApplyRarity(f, r) == IF r = "" THEN f ELSE [f EXCEPT !.rarity = r]

\* A print's number and rarity put into the controls.
Filled(f, p) == ApplyRarity([f EXCEPT !.number = ExtractSetNoNumeric(p.code)], p.rarity)

\* writeFromControls
Written(f) == [name |-> f.name, set |-> f.set]

------------------------------------------------------------------------------------
(* The dialog opens: a new card, or one of the collection with a prefetch.        *)

Prefetch(e) == [stage |-> "scheduled", epoch |-> e, set |-> NoSet, number |-> <<>>,
                late |-> FALSE, found |-> FALSE]

InitCreate ==
    /\ form = [name |-> Blank, set |-> FirstYgoSet, number |-> <<>>,
               rarity |-> CHOOSE r \in YgoRarities : TRUE, language |-> "English", lastEdited |-> "None",
               typed |-> FALSE]
    /\ record = [name |-> Blank, set |-> NoSet]
    /\ standsFor = NoCode
    /\ jobs = {}

\* readExtraFromCard shows the digits of the record's full code.
InitEdit ==
    \E n \in Names, s \in YgoSets, no \in YgoNumbers, r \in YgoRarities, l \in {"English", "German"} :
        LET code == [set |-> IF no = <<>> THEN NoSet ELSE s, region |-> "", no |-> no]
        IN  /\ form = [name |-> n, set |-> s, number |-> ExtractSetNoNumeric(code),
                       rarity |-> r, language |-> l, lastEdited |-> "None", typed |-> FALSE]
            /\ record = [name |-> n, set |-> s]
            /\ standsFor = code
            /\ jobs = {Prefetch(0)}

Start == epoch = 0 /\ ring = NoRing /\ button = TRUE /\ state = "open"

Init == (InitCreate \/ InitEdit) /\ Start

------------------------------------------------------------------------------------
(* The user's edits.                                                              *)

Overtaken == {[j EXCEPT !.late = TRUE] : j \in jobs}

\* clearCachedPrintVariants, and what is scheduled afterwards.
ClearCachedPrintVariants(scheduled) ==
    /\ epoch < MaxEpoch
    /\ epoch' = epoch + 1
    /\ ring' = NoRing
    /\ jobs' = Overtaken \cup scheduled

EditName(n) ==
    /\ state = "open" /\ n # form.name
    /\ form' = [form EXCEPT !.name = n, !.lastEdited = "Name", !.typed = FALSE]
    /\ ClearCachedPrintVariants({})
    /\ UNCHANGED <<record, button, state, standsFor>>

\* onSetNoTextChanged. The rings are empty by then and not rebuilt.
EditNumber(no) ==
    /\ state = "open" /\ no # form.number
    /\ form' = [form EXCEPT !.number = no, !.lastEdited = "SetNo", !.typed = FALSE]
    /\ standsFor' = NoCode
    /\ ClearCachedPrintVariants({})
    /\ UNCHANGED <<record, button, state>>

\* Rarity and language have no handler.
Choose ==
    /\ state = "open"
    /\ \E r \in YgoRarities, l \in {"English", "German"} :
         form' = [form EXCEPT !.rarity = r, !.language = l]
    /\ UNCHANGED <<record, epoch, ring, button, state, jobs, standsFor>>

\* wxEVT_COMBOBOX: handleSetSelectionChanged, with the record's set left as it was.
OnSetSelectionChanged(s) ==
    /\ state = "open" /\ s # form.set
    /\ form' = [form EXCEPT !.set = s, !.typed = FALSE]
    /\ standsFor' = NoCode
    /\ ClearCachedPrintVariants({Prefetch(epoch + 1)})
    /\ UNCHANGED <<record, button, state>>

\* The set whose code was entered. lookupYuGiOhSetByShorthand finds it if it is unique;
\* applySetSelectionByIndex changes the record, too.
OnSetCodeAutoDetect(s) ==
    /\ state = "open"
    /\ form' = [form EXCEPT !.set = s, !.typed = FALSE]
    /\ record' = [record EXCEPT !.set = s]
    /\ standsFor' = IF s = form.set THEN standsFor ELSE NoCode
    /\ ClearCachedPrintVariants({Prefetch(epoch + 1)})
    /\ UNCHANGED <<button, state>>

\* applySetTypeaheadSelection: no event, so nothing is cleared.
TypeSet(s) ==
    /\ state = "open" /\ s # form.set
    /\ form' = [form EXCEPT !.set = s, !.typed = TRUE]
    /\ standsFor' = NoCode
    /\ UNCHANGED <<record, epoch, ring, button, state, jobs>>

\* onAddImage, and an OK that is not confirmed.
ReadControls ==
    /\ state = "open"
    /\ record' = Written(form)
    /\ UNCHANGED <<form, epoch, ring, button, state, jobs, standsFor>>

\* OK, which needs a name, or Cancel.
Close ==
    /\ state = "open"
    /\ \/ form.name # Blank /\ record' = Written(form) /\ state' = "saved"
       \/ state' = "cancelled" /\ UNCHANGED record
    /\ UNCHANGED <<form, epoch, ring, button, jobs, standsFor>>

\* The next code, with the rarity of its first print.
NextSetNoOnly ==
    LET code == ring.codes[((ring.codePos + 1) % Len(ring.codes)) + 1]
        print == Head(KeepIn(ring.variants, {p \in ToSet(ring.variants) : p.code = code}))
        f == Filled(form, print)
    IN  /\ state = "open" /\ Len(ring.codes) > 1
        /\ form' = f /\ record' = Written(f)
        /\ ring' = [ring EXCEPT !.codePos = (@ + 1) % Len(ring.codes)]
        /\ standsFor' = code
        /\ UNCHANGED <<epoch, button, state, jobs>>

OnNextSetNo ==
    LET code == ring.codes[((ring.codePos + 1) % Len(ring.codes)) + 1]
        print == Head(KeepIn(ring.variants, {p \in ToSet(ring.variants) : p.code = code}))
        f == Filled(form, print)
    IN  /\ state = "open" /\ Len(ring.codes) > 1
        /\ form' = f /\ record' = Written(f)
        /\ ring' = Rings(ring.variants, f)
        /\ standsFor' = code
        /\ UNCHANGED <<epoch, button, state, jobs>>

OnNextRarity ==
    LET i == (ring.rarityPos + 1) % Len(ring.rarities)
    IN  /\ state = "open" /\ Len(ring.rarities) > 1
        /\ ring' = [ring EXCEPT !.rarityPos = i]
        /\ form' = ApplyRarity(form, ring.rarities[i + 1])
        /\ UNCHANGED <<record, epoch, button, state, jobs, standsFor>>

------------------------------------------------------------------------------------
(* Lookups. One that fails, or finds nothing, leaves what was detected before.    *)

ByName(s, n) == KeepIn(Printings[s], {p \in ToSet(Printings[s]) : p.name = n})
ByNumber(s, no) == KeepIn(Printings[s], {p \in ToSet(Printings[s]) : p.code.no = no})

\* preferDetectBySetNo
DetectBySetNo == form.number # <<>> /\ (form.name = Blank \/ form.lastEdited = "SetNo")

\* autoDetectFromApi: the number's button fills in the first print, the rarity's the
\* rarity of the number shown, or of the first print if it is not listed.
AutoDetectFromApi(fillSetNo) ==
    LET prints == ByName(form.set, form.name)
        shown == KeepIn(prints, {p \in ToSet(prints) : SlotsMatch(p.code, ComposeFullSetNo(form))})
        f == IF fillSetNo THEN Filled(form, prints[1])
             ELSE ApplyRarity(form, IF shown = <<>> THEN prints[1].rarity ELSE shown[1].rarity)
    IN  /\ prints # <<>>
        /\ form' = f /\ record' = Written(f)
        /\ ring' = Rings(prints, f)
        /\ standsFor' = IF fillSetNo THEN prints[1].code ELSE standsFor
        /\ UNCHANGED <<epoch, button, state, jobs>>

\* requestBySetNoAsync, by the set's id and then by its name.
RequestBySetNo ==
    /\ record' = Written(form)
    /\ button' = FALSE
    /\ jobs' = jobs \cup {[stage |-> "lookup", epoch |-> epoch, set |-> form.set,
                           number |-> form.number, late |-> FALSE, found |-> FALSE]}
    /\ UNCHANGED <<form, epoch, ring, state, standsFor>>

\* Without name and number it is a ReadControls, as is a lookup that fails.
OnAutoDetectSetNo ==
    /\ state = "open" /\ button
    /\ \/ DetectBySetNo /\ RequestBySetNo
       \/ ~DetectBySetNo /\ form.name # Blank /\ AutoDetectFromApi(TRUE)

OnAutoDetectRarity == state = "open" /\ form.name # Blank /\ AutoDetectFromApi(FALSE)

\* prefetchVariantsForCurrentCardSilent asks for what the record says, and waits.
RunPrefetch(j) ==
    /\ state = "open" /\ j.stage = "scheduled"
    /\ jobs' = jobs \ {j}
    /\ \/ /\ j.epoch = epoch /\ ring.variants = <<>> /\ record.name # Blank /\ record.set # NoSet
          /\ ByName(record.set, record.name) # <<>>
          /\ ring' = Rings(ByName(record.set, record.name), form)
          /\ record' = Written(form)
       \/ UNCHANGED <<ring, record>>
    /\ UNCHANGED <<form, epoch, button, state, standsFor>>

Answer(j) == ByNumber(j.set, j.number)

Lookup(j) ==
    /\ j.stage = "lookup"
    /\ \E found \in {FALSE, Answer(j) # <<>>} :
         jobs' = (jobs \ {j}) \cup {[j EXCEPT !.stage = "answered", !.found = found]}
    /\ UNCHANGED <<form, record, epoch, ring, button, state, standsFor>>

\* The posted lambda and applyReverseDetectedList: the first print with its name.
RunAnswer(j) ==
    LET first == Answer(j)[1]
        f == Filled([form EXCEPT !.name = first.name], first)
    IN  /\ j.stage = "answered"
        /\ jobs' = jobs \ {j}
        /\ IF state = "open" /\ j.epoch = epoch
           THEN /\ button' = TRUE
                /\ IF j.found
                   THEN /\ form' = f /\ record' = Written(f)
                        /\ ring' = Rings(Answer(j), f)
                        /\ standsFor' = first.code
                   ELSE UNCHANGED <<form, record, ring, standsFor>>
           ELSE UNCHANGED <<form, record, ring, button, standsFor>>
        /\ UNCHANGED <<epoch, state>>

------------------------------------------------------------------------------------
Edit ==
    \/ \E n \in Names \cup {Blank} : EditName(n)
    \/ \E no \in YgoNumbers : EditNumber(no)
    \/ \E s \in YgoSets : OnSetSelectionChanged(s) \/ OnSetCodeAutoDetect(s) \/ TypeSet(s)
    \/ Choose
    \/ ReadControls
    \/ OnNextSetNo
    \/ OnNextRarity
    \/ OnAutoDetectSetNo
    \/ OnAutoDetectRarity
    \/ Close

Next == Edit \/ \E j \in jobs : RunPrefetch(j) \/ Lookup(j) \/ RunAnswer(j)

Spec == Init /\ [][Next]_dialogVars

\* A dialog that is not open.
Closed ==
    /\ form = [name |-> Blank, set |-> FirstYgoSet, number |-> <<>>,
               rarity |-> CHOOSE r \in YgoRarities : TRUE, language |-> "English", lastEdited |-> "None",
               typed |-> FALSE]
    /\ record = [name |-> Blank, set |-> NoSet]
    /\ standsFor = NoCode /\ jobs = {} /\ epoch = 0 /\ ring = NoRing /\ button = TRUE
    /\ state = "cancelled"

------------------------------------------------------------------------------------
(* Properties                                                                     *)

\* An answer that an edit of the name, the number or the set overtook never touches the
\* controls, the rings or the button, nor does one that comes after the dialog was closed.
LateAnswersChangeNothing ==
    [][\A j \in jobs : (j \notin jobs' /\ (j.late \/ state # "open")) =>
           UNCHANGED <<form, ring, button>>]_dialogVars

\* Both "Next" buttons move on from what is on screen: the ring of codes stands at the
\* code shown if it has it, unless the set was typed, which sends no event; and the
\* rarities offered are those listed for this number.
RingsFollowTheControls ==
    LET full == ComposeFullSetNo(form)
    IN  /\ (~form.typed /\ \E c \in ToSet(ring.codes) : SlotsMatch(c, full)) =>
               SlotsMatch(ring.codes[ring.codePos + 1], full)
        /\ \A r \in ToSet(ring.rarities) :
               \E p \in ToSet(ring.variants) : p.rarity = r /\ p.code.no = form.number

\* What OK stores is the slot of the print that the dialog showed: the number is that of
\* the record it was opened with, or of the print it found, unless another was typed.
SavedNumberIsThePrints ==
    (state = "saved" /\ standsFor # NoCode) => SlotsMatch(ComposeFullSetNo(form), standsFor)
====
