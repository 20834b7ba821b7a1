-------------------------- MODULE DigiBattle99CardEditDialog --------------------------
(* DigiBattle99CardEditDialog: one ring of the numbers of the prints found, and one   *)
(* button. Other than in PokemonCardEditDialog a silent answer leaves the number as   *)
(* it is even when it is empty, and the ring's position is sought by the normalised   *)
(* number. Sets are looked up by their names, which is the same here.                 *)
EXTENDS Naturals, SequencesExt, Filtering

CONSTANTS
    DigiSets,        \* the set list
    FirstDigiSet,    \* its first entry
    NoSet,           \* card_.set with an empty name
    Names, Blank,    \* card names; the empty name
    Typed,           \* what the number's control may hold; "" when empty
    Normal,          \* normalizeCardNumber of it
    DigiPrints,      \* the prints of the upstream: [name, number, set], best match first
    MaxEpoch         \* bound on the edits that clear what was detected

\* What the constants must be.
DigiDialogAssumption ==
    /\ FirstDigiSet \in DigiSets /\ NoSet \notin DigiSets
    /\ Blank \notin Names
    /\ Normal \in [Typed -> Typed] /\ Normal[""] = ""
    /\ DigiPrints \in Seq(ToSet(DigiPrints))
    /\ \A p \in ToSet(DigiPrints) :
         p.number \in Typed \ {""} /\ Normal[p.number] = p.number /\ p.set \in DigiSets
    /\ MaxEpoch \in Nat

VARIABLES
    form,      \* the controls: name, set, number, and lastLookupEditField_
    record,    \* card_: name and set
    epoch,     \* variantFetchEpoch_, from the constructor's on
    ring,      \* uniqueSetNos_ and setNoRingPos_
    button,    \* is autoSetNoBtn_ enabled?
    state,     \* "open", "saved" by OK, or "cancelled"
    jobs       \* scheduled prefetches, lookups, and posted answers

dialogVars == <<form, record, epoch, ring, button, state, jobs>>

NoRing == [nos |-> <<>>, pos |-> 0]

\* rebuildVariantRingFromCache and syncRingPositionToControls: each number once, from
\* the one shown on, or from the first.
Ring(prints, number) ==
    LET once == FirstOfEach(prints, LAMBDA p : p.number)
        nos == [i \in DOMAIN once |-> once[i].number]
    IN  [nos |-> nos, pos |-> PlaceIn(nos, {Normal[number]})]

\* writeFromControls
Written(f) == [name |-> f.name, set |-> f.set]

------------------------------------------------------------------------------------
(* The dialog opens: a new card, or one of the collection with a prefetch.        *)

Prefetch(e) == [stage |-> "scheduled", kind |-> "silent", epoch |-> e, set |-> NoSet,
                name |-> Blank, number |-> "", late |-> FALSE, found |-> FALSE]

NewForm == [name |-> Blank, set |-> FirstDigiSet, number |-> "", lastEdited |-> "None"]

InitCreate == form = NewForm /\ record = [name |-> Blank, set |-> NoSet] /\ jobs = {}

\* readExtraFromCard normalises the record's number.
InitEdit ==
    \E n \in Names, s \in DigiSets, no \in Typed :
        /\ form = [name |-> n, set |-> s, number |-> Normal[no], lastEdited |-> "None"]
        /\ record = Written(form)
        /\ jobs = {Prefetch(0)}

Init ==
    /\ InitCreate \/ InitEdit
    /\ epoch = 0 /\ ring = NoRing /\ button = TRUE /\ state = "open"

------------------------------------------------------------------------------------
(* The user's edits.                                                              *)

Overtaken == {[j EXCEPT !.late = TRUE] : j \in jobs}

\* clearCachedPrintVariants, and what is scheduled afterwards.
ClearInTheSameEpoch(scheduled) ==
    /\ ring' = NoRing
    /\ jobs' = Overtaken \cup scheduled
    /\ UNCHANGED epoch

ClearCachedPrintVariants(scheduled) ==
    /\ epoch < MaxEpoch
    /\ epoch' = epoch + 1
    /\ ring' = NoRing
    /\ jobs' = Overtaken \cup scheduled

EditName(n) ==
    /\ state = "open" /\ n # form.name
    /\ form' = [form EXCEPT !.name = n, !.lastEdited = "Name"]
    /\ ClearCachedPrintVariants({})
    /\ UNCHANGED <<record, button, state>>

EditNumber(no) ==
    /\ state = "open" /\ no # form.number
    /\ form' = [form EXCEPT !.number = no, !.lastEdited = "SetNo"]
    /\ ClearCachedPrintVariants({})
    /\ UNCHANGED <<record, button, state>>

OnSetSelectionChanged(s) ==
    /\ state = "open" /\ s # form.set
    /\ form' = [form EXCEPT !.set = s]
    /\ ClearCachedPrintVariants({Prefetch(epoch + 1)})
    /\ UNCHANGED <<record, button, state>>

\* applySetTypeaheadSelection: no event, so nothing is cleared.
TypeSet(s) ==
    /\ state = "open" /\ s # form.set
    /\ form' = [form EXCEPT !.set = s]
    /\ UNCHANGED <<record, epoch, ring, button, state, jobs>>

\* onAddImage, and an OK that is not confirmed.
ReadControls ==
    /\ state = "open"
    /\ record' = Written(form)
    /\ UNCHANGED <<form, epoch, ring, button, state, jobs>>

\* OK, which needs a name, or Cancel.
Close ==
    /\ state = "open"
    /\ \/ form.name # Blank /\ record' = Written(form) /\ state' = "saved"
       \/ state' = "cancelled" /\ UNCHANGED record
    /\ UNCHANGED <<form, epoch, ring, button, jobs>>

OnNextSetNo ==
    LET i == (ring.pos + 1) % Len(ring.nos)
    IN  /\ state = "open" /\ Len(ring.nos) > 1
        /\ ring' = [ring EXCEPT !.pos = i]
        /\ form' = [form EXCEPT !.number = ring.nos[i + 1]]
        /\ UNCHANGED <<record, epoch, button, state, jobs>>

------------------------------------------------------------------------------------
(* Lookups.                                                                       *)

Lookups(k, s, n, no) ==
    {[stage |-> "lookup", kind |-> k, epoch |-> epoch, set |-> s, name |-> n, number |-> no,
      late |-> FALSE, found |-> FALSE]}

\* preferDetectBySetNo
DetectBySetNo ==
    /\ Normal[form.number] # ""
    /\ form.name = Blank \/ form.lastEdited = "SetNo"

\* Without name and number it is a ReadControls.
AutoDetectFromApi ==
    /\ state = "open" /\ button
    /\ record' = Written(form)
    /\ \/ DetectBySetNo
          /\ jobs' = jobs \cup Lookups("byNumber", form.set, Blank, Normal[form.number])
       \/ ~DetectBySetNo /\ form.name # Blank
          /\ jobs' = jobs \cup Lookups("byName", form.set, form.name, "")
    /\ button' = FALSE
    /\ UNCHANGED <<form, epoch, ring, state>>

\* prefetchVariantsForCurrentCardSilent asks for what the record says.
RunPrefetch(j) ==
    /\ state = "open" /\ j.stage = "scheduled"
    /\ jobs' = (jobs \ {j}) \cup
           IF j.epoch = epoch /\ ring.nos = <<>> /\ record.name # Blank /\ record.set # NoSet
           THEN Lookups("silent", record.set, record.name, "") ELSE {}
    /\ UNCHANGED <<form, record, epoch, ring, button, state>>

Answer(j) ==
    KeepIn(DigiPrints, {p \in ToSet(DigiPrints) :
        p.set = j.set /\ IF j.kind = "byNumber" THEN p.number = j.number ELSE p.name = j.name})

Lookup(j) ==
    /\ j.stage = "lookup"
    /\ \E found \in {FALSE, Answer(j) # <<>>} :
         jobs' = (jobs \ {j}) \cup {[j EXCEPT !.stage = "answered", !.found = found]}
    /\ UNCHANGED <<form, record, epoch, ring, button, state>>

\* The prints of an answer that counts: a click's first number is filled in, and its
\* name if it was found by number.
ApplyAtTheStart(j) ==
    LET first == Answer(j)[1]
    IN  /\ form' = [form EXCEPT !.number = IF j.kind = "silent" THEN @ ELSE first.number,
                                !.name = IF j.kind = "byNumber" THEN first.name ELSE @]
        /\ ring' = [Ring(Answer(j), "") EXCEPT !.pos = 0]

ApplyPrints(j) ==
    LET first == Answer(j)[1]
    IN  /\ form' = [form EXCEPT !.number = IF j.kind = "silent" THEN @ ELSE first.number,
                                !.name = IF j.kind = "byNumber" THEN first.name ELSE @]
        /\ ring' = Ring(Answer(j), form'.number)

\* The posted lambda and applyDetectedVariants.
RunAnswer(j) ==
    /\ j.stage = "answered"
    /\ jobs' = jobs \ {j}
    /\ IF state = "open" /\ j.epoch = epoch
       THEN /\ button' = (button \/ j.kind # "silent")
            /\ IF j.found THEN ApplyPrints(j) ELSE UNCHANGED <<form, ring>>
       ELSE UNCHANGED <<form, ring, button>>
    /\ UNCHANGED <<record, epoch, state>>

------------------------------------------------------------------------------------
Edit ==
    \/ \E n \in Names \cup {Blank} : EditName(n)
    \/ \E no \in Typed : EditNumber(no)
    \/ \E s \in DigiSets : OnSetSelectionChanged(s) \/ TypeSet(s)
    \/ ReadControls
    \/ OnNextSetNo
    \/ AutoDetectFromApi
    \/ Close

Next == Edit \/ \E j \in jobs : RunPrefetch(j) \/ Lookup(j) \/ RunAnswer(j)

Spec == Init /\ [][Next]_dialogVars

\* A dialog that is not open.
Closed ==
    /\ form = NewForm /\ record = [name |-> Blank, set |-> NoSet] /\ jobs = {}
    /\ epoch = 0 /\ ring = NoRing /\ button = TRUE /\ state = "cancelled"

------------------------------------------------------------------------------------
(* Properties                                                                     *)

\* An answer that an edit of the name, the number or the set overtook never touches the
\* controls, the ring or the button, nor does one that comes after the dialog was closed.
LateAnswersChangeNothing ==
    [][\A j \in jobs : (j \notin jobs' /\ (j.late \/ state # "open")) =>
           UNCHANGED <<form, ring, button>>]_dialogVars

\* "Next" moves on from the number on screen, however it is written: whenever the ring has
\* the number of the control in its normal form, that is where the ring stands.
NextStartsAtTheNumberShown ==
    Normal[form.number] \in ToSet(ring.nos) => ring.nos[ring.pos + 1] = Normal[form.number]
====
