-------------------------- MODULE YuGiOhBandaiCardEditDialog --------------------------
(* YuGiOhBandaiCardEditDialog: one ring of whole prints. Every answer that counts,    *)
(* that of a silent prefetch included, puts its first print into all the controls,    *)
(* the set among them; lookups by name find prints of any set. The two buttons are    *)
(* disabled one by one, so that lookups may run side by side.                         *)
EXTENDS Naturals, SequencesExt, Filtering

CONSTANTS
    BandaiSets,        \* the set list
    FirstBandaiSet,    \* its first entry
    NoSet,             \* card_.set with an empty id
    Names, Blank,      \* card names; the empty name
    Typed,             \* what the number's control may hold; "" when empty
    Normal,            \* normalizeCardNumber of it; "" is not a number
    BandaiRarities,    \* the rarities the user chooses from
    BandaiLanguages,   \* and the languages
    BandaiPrints,      \* the prints [name, number, rarity, language, set], in the order of an
                       \* answer to a lookup that names the set
    MaxEpoch,          \* bound on the edits that clear what was detected
    MaxJobs            \* bound on the lookups under way

\* What the constants must be.
BandaiDialogAssumption ==
    /\ FirstBandaiSet \in BandaiSets /\ NoSet \notin BandaiSets
    /\ Blank \notin Names
    /\ Normal \in [Typed -> Typed] /\ Normal[""] = ""
    /\ DOMAIN BandaiPrints = BandaiSets \cup {NoSet}
    /\ \A s \in DOMAIN BandaiPrints : BandaiPrints[s] \in Seq(ToSet(BandaiPrints[s]))
    /\ \A s \in DOMAIN BandaiPrints : \A p \in ToSet(BandaiPrints[s]) :
         p.number \in Typed /\ Normal[p.number] = p.number
    /\ {MaxEpoch, MaxJobs} \subseteq Nat

VARIABLES
    form,      \* the controls: name, set, number, rarity, language, lastEdited
    record,    \* card_: name and set
    epoch,     \* variantFetchEpoch_, from the constructor's on
    ring,      \* cachedVariants_ and variantRingPos_
    buttons,   \* those of autoSetNoBtn_ ("number") and autoRarityBtn_ ("rarity") enabled
    state,     \* "open", "saved" by OK, or "cancelled"
    jobs       \* scheduled prefetches, lookups, and posted answers

dialogVars == <<form, record, epoch, ring, buttons, state, jobs>>

NoRing == [variants |-> <<>>, pos |-> 0]
Both == {"number", "rarity"}

\* writeFromControls
Written(f) == [name |-> f.name, set |-> f.set]

\* A print without a rarity leaves the choice. The holo box, which one checks, is left out.
ApplyRarity(f, r) == IF r = "" THEN f ELSE [f EXCEPT !.rarity = r]

\* Mutant: a print without a number empties the number's control.
AppliedWhole(f, p) ==
    [ApplyRarity(f, p.rarity) EXCEPT !.name = IF p.name = Blank THEN @ ELSE p.name,
                                     !.number = p.number,
                                     !.language = IF p.language \in BandaiLanguages THEN p.language ELSE @,
                                     !.set = IF p.set \in BandaiSets THEN p.set ELSE @]

\* applyDetectedPrint. What a print does not have, and a set or a language that is not
\* offered, leaves its control alone: a page without a "Bandai number" leaves the number.
AppliedTo(f, p) ==
    [ApplyRarity(f, p.rarity) EXCEPT !.name = IF p.name = Blank THEN @ ELSE p.name,
                                     !.number = IF p.number = "" THEN @ ELSE p.number,
                                     !.language = IF p.language \in BandaiLanguages THEN p.language ELSE @,
                                     !.set = IF p.set \in BandaiSets THEN p.set ELSE @]

ApplyDetectedPrint(p) ==
    /\ form' = AppliedTo(form, p)
    /\ record' = IF p.set \in BandaiSets THEN [record EXCEPT !.set = p.set] ELSE record

------------------------------------------------------------------------------------
(* The dialog opens: a new card, or one of the collection with a prefetch.        *)

Prefetch(e) == [stage |-> "scheduled", kind |-> "silent", nth |-> 0, epoch |-> e, set |-> NoSet,
                name |-> Blank, number |-> "", late |-> FALSE, found |-> FALSE]

NewForm == [name |-> Blank, set |-> FirstBandaiSet, number |-> "",
            rarity |-> "Common", language |-> "Japanese", lastEdited |-> "None"]

InitCreate == form = NewForm /\ record = [name |-> Blank, set |-> NoSet] /\ jobs = {}

\* The record's number was normalised when it was saved.
InitEdit ==
    \E n \in Names, s \in BandaiSets, no \in Typed, r \in BandaiRarities :
        /\ Normal[no] = no
        /\ form = [NewForm EXCEPT !.name = n, !.set = s, !.number = no, !.rarity = r]
        /\ record = [name |-> n, set |-> s]
        /\ jobs = {Prefetch(0)}

Init ==
    /\ InitCreate \/ InitEdit
    /\ epoch = 0 /\ ring = NoRing /\ buttons = Both /\ state = "open"

------------------------------------------------------------------------------------
(* The user's edits.                                                              *)

Overtaken == {[j EXCEPT !.late = TRUE] : j \in jobs}

\* clearCachedPrintVariants, and what is scheduled afterwards.
ClearInTheSameEpoch(scheduled) ==
    /\ ring' = NoRing
    /\ jobs' = Overtaken \cup scheduled
    /\ UNCHANGED epoch

ClearCachedPrintVariants(scheduled) ==
    /\ epoch < MaxEpoch
    /\ epoch' = epoch + 1
    /\ ring' = NoRing
    /\ jobs' = Overtaken \cup scheduled

EditName(n) ==
    /\ state = "open" /\ n # form.name
    /\ form' = [form EXCEPT !.name = n, !.lastEdited = "Name"]
    /\ ClearCachedPrintVariants({})
    /\ UNCHANGED <<record, buttons, state>>

EditNumber(no) ==
    /\ state = "open" /\ no # form.number
    /\ form' = [form EXCEPT !.number = no, !.lastEdited = "SetNo"]
    /\ ClearCachedPrintVariants({})
    /\ UNCHANGED <<record, buttons, state>>

\* onRarityChoiceChanged; the language has no handler.
Choose ==
    /\ state = "open"
    /\ \/ \E r \in BandaiRarities : form' = ApplyRarity(form, r)
       \/ \E l \in BandaiLanguages : form' = [form EXCEPT !.language = l]
    /\ UNCHANGED <<record, epoch, ring, buttons, state, jobs>>

OnSetSelectionChanged(s) ==
    /\ state = "open" /\ s # form.set
    /\ form' = [form EXCEPT !.set = s]
    /\ ClearCachedPrintVariants({Prefetch(epoch + 1)})
    /\ UNCHANGED <<record, buttons, state>>

\* applySetTypeaheadSelection: no event, so nothing is cleared.
TypeSet(s) ==
    /\ state = "open" /\ s # form.set
    /\ form' = [form EXCEPT !.set = s]
    /\ UNCHANGED <<record, epoch, ring, buttons, state, jobs>>

\* validateExtraFields: the normalised number is shown.
Validated(f) == IF Normal[f.number] = "" THEN f ELSE [f EXCEPT !.number = Normal[@]]

\* onAddImage, and an OK that is refused: for its name, its number, or at the question.
ReadControls ==
    /\ state = "open"
    /\ record' = Written(form)
    /\ \/ UNCHANGED form
       \/ form.name # Blank /\ form' = Validated(form)
    /\ UNCHANGED <<epoch, ring, buttons, state, jobs>>

\* OK, which needs a name and a number, or Cancel.
Close ==
    /\ state = "open"
    /\ \/ /\ form.name # Blank /\ Normal[form.number] # ""
          /\ record' = Written(form) /\ form' = Validated(form) /\ state' = "saved"
       \/ state' = "cancelled" /\ UNCHANGED <<form, record>>
    /\ UNCHANGED <<epoch, ring, buttons, jobs>>

OnNextSetNo ==
    LET i == (ring.pos + 1) % Len(ring.variants)
    IN  /\ state = "open" /\ Len(ring.variants) > 1
        /\ ring' = [ring EXCEPT !.pos = i]
        /\ ApplyDetectedPrint(ring.variants[i + 1])
        /\ UNCHANGED <<epoch, buttons, state, jobs>>

------------------------------------------------------------------------------------
(* Lookups. Two may ask for the same; "nth" tells them apart.                     *)

\* requestByNameAsync, requestByNoAsync
Request(k, s, n, no) ==
    LET taken == {j.nth : j \in jobs}
    IN  \E i \in 1..MaxJobs :
          /\ i \notin taken /\ \A h \in 1..(i - 1) : h \in taken
          /\ jobs' = {j \in jobs : k # "silent" \/ j.stage # "scheduled" \/ j.epoch # epoch} \cup
                       {[stage |-> "lookup", kind |-> k, nth |-> i, epoch |-> epoch, set |-> s,
                         name |-> n, number |-> no, late |-> FALSE, found |-> FALSE]}

\* preferDetectBySetNo
DetectBySetNo ==
    /\ Normal[form.number] # ""
    /\ form.name = Blank \/ form.lastEdited = "SetNo"

\* onAutoDetectBySetNo. A lookup by name disables the other button. Without name and
\* number it is a ReadControls.
OnAutoDetectBySetNo ==
    /\ state = "open" /\ "number" \in buttons
    /\ record' = Written(form)
    /\ \/ /\ DetectBySetNo
          /\ Request("byNumber", form.set, Blank, Normal[form.number])
          /\ buttons' = buttons \ {"number"}
       \/ /\ ~DetectBySetNo /\ form.name # Blank
          /\ Request("byName", form.set, form.name, "")
          /\ buttons' = buttons \ {"rarity"}
    /\ UNCHANGED <<form, epoch, ring, state>>

OnAutoDetectByName ==
    /\ state = "open" /\ "rarity" \in buttons /\ form.name # Blank
    /\ record' = Written(form)
    /\ Request("byName", form.set, form.name, "")
    /\ buttons' = buttons \ {"rarity"}
    /\ UNCHANGED <<form, epoch, ring, state>>

\* prefetchVariantsForCurrentCardSilent asks for what the record says.
RunPrefetch(j) ==
    /\ state = "open" /\ j.stage = "scheduled"
    /\ IF j.epoch = epoch /\ ring.variants = <<>> /\ record.name # Blank
       THEN Request("silent", record.set, record.name, "")
       ELSE jobs' = jobs \ {j}
    /\ UNCHANGED <<form, record, epoch, ring, buttons, state>>

\* By number the upstream's prints are filtered by the set, by name they are not, but the
\* set has a say in their order.
Answer(j) ==
    KeepIn(BandaiPrints[j.set], {p \in ToSet(BandaiPrints[j.set]) :
        IF j.kind = "byNumber" THEN p.number = j.number /\ p.set = j.set ELSE p.name = j.name})

Lookup(j) ==
    /\ j.stage = "lookup"
    /\ \E found \in {FALSE, Answer(j) # <<>>} :
         jobs' = (jobs \ {j}) \cup {[j EXCEPT !.stage = "answered", !.found = found]}
    /\ UNCHANGED <<form, record, epoch, ring, buttons, state>>

\* applyDetectedList: the prints and the first of them.
ApplyPrints(j) ==
    /\ ring' = [variants |-> Answer(j), pos |-> 0]
    /\ ApplyDetectedPrint(Answer(j)[1])

\* The posted lambda. Any answer of the present epoch enables both buttons.
RunAnswer(j) ==
    /\ j.stage = "answered"
    /\ jobs' = jobs \ {j}
    /\ IF state = "open" /\ j.epoch = epoch
       THEN /\ buttons' = Both
            /\ IF j.found THEN ApplyPrints(j) ELSE UNCHANGED <<form, record, ring>>
       ELSE UNCHANGED <<form, record, ring, buttons>>
    /\ UNCHANGED <<epoch, state>>

------------------------------------------------------------------------------------
Edit ==
    \/ \E n \in Names \cup {Blank} : EditName(n)
    \/ \E no \in Typed : EditNumber(no)
    \/ \E s \in BandaiSets : OnSetSelectionChanged(s) \/ TypeSet(s)
    \/ Choose
    \/ ReadControls
    \/ OnNextSetNo
    \/ OnAutoDetectBySetNo
    \/ OnAutoDetectByName
    \/ Close

Next == Edit \/ \E j \in jobs : RunPrefetch(j) \/ Lookup(j) \/ RunAnswer(j)

Spec == Init /\ [][Next]_dialogVars

\* A dialog that is not open.
Closed ==
    /\ form = NewForm /\ record = [name |-> Blank, set |-> NoSet] /\ jobs = {}
    /\ epoch = 0 /\ ring = NoRing /\ buttons = Both /\ state = "cancelled"

------------------------------------------------------------------------------------
(* Properties                                                                     *)

\* An answer that an edit of the name, the number or the set overtook never touches the
\* controls, the ring or the buttons, nor does one that comes after the dialog was closed.
LateAnswersChangeNothing ==
    [][\A j \in jobs : (j \notin jobs' /\ (j.late \/ state # "open")) =>
           UNCHANGED <<form, ring, buttons>>]_dialogVars

\* The numbered prints of the ring up to the one it stands at.
Numbered(r) == {i \in 1..(r.pos + 1) : r.variants[i].number # ""}

\* However many lookups run side by side, "Next" moves on from the print on screen: the
\* name shown is that of the print the ring stands at, and the number shown is that print's
\* or, if it has none, that of the nearest print before it that has one. Nothing later
\* than the answer that filled the ring has come in between.
RingStandsAtThePrintShown ==
    ring.variants # <<>> =>
        LET p == ring.variants[ring.pos + 1]
        IN  /\ p.name # Blank => form.name = p.name
            /\ \A i \in Numbered(ring) : (\A k \in Numbered(ring) : k <= i) =>
                   form.number = ring.variants[i].number
====
