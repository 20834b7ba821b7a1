-------------------------- MODULE EditDialogDetect --------------------------
(***************************************************************************)
(* PokemonCardEditDialog: how the edit dialog looks up the prints of the   *)
(* card being edited.  "Auto detect" and silent prefetches run lookups on  *)
(* detached threads, whose answers come back through wxTheApp->CallAfter;  *)
(* an answer counts only if variantFetchEpoch_ is still the one it was     *)
(* asked in.  The prints of an answer form the ring that "Next" steps      *)
(* through.  The dialogs of the other games have modules of their own.     *)
(*                                                                         *)
(* The controls (name, set, number) and the record card_ are different     *)
(* variables: handlers read now the ones, now the other.  The unnumbered-  *)
(* promo set of the Asia region and its preview window are not modelled.   *)
(***************************************************************************)
EXTENDS Naturals, SequencesExt, Filtering

CONSTANTS
    Regions,    \* West and Asia
    SetsOf,     \* the set list of each region
    FirstSet,   \* the first entry of each list
    NoSet,      \* card_.set with an empty id
    Names,      \* card names
    Blank,      \* the empty name
    Numbers,    \* collector numbers, normalised
    NoNumber,   \* the empty number
    Listing,    \* the prints of each set, in upstream order
    NewRegion,  \* the region of a card being created
    MaxEpoch    \* bound on the edits of the controls

Sets   == UNION {SetsOf[r] : r \in Regions}
Prints == [name : Names, number : Numbers \cup {NoNumber}, rarity : {"common", "rare"}]

ASSUME DetectAssumption ==
    /\ \A r \in Regions : FirstSet[r] \in SetsOf[r]
    /\ NoSet \notin Sets /\ Blank \notin Names /\ NoNumber \notin Numbers
    /\ NewRegion \in Regions
    /\ Listing \in [Sets -> Seq(Prints)]
    /\ MaxEpoch \in Nat

VARIABLES
    name, set, number,  \* what nameCtrl_, setCombo_ and setNoCtrl_ show
    record,             \* card_: region, set and name
    selectedSetNo,      \* selectedSetNo_
    lastEdited,         \* lastLookupEditField_
    epoch,              \* variantFetchEpoch_, from the constructor's on
    variants,           \* cachedVariants_
    pos,                \* setNoRingPos_
    button,             \* is autoSetNoBtn_ enabled?
    alive,              \* variantFetchState_->alive
    jobs                \* scheduled prefetches, lookups, and posted answers

controls == <<name, set, number, selectedSetNo, lastEdited>>
ring     == <<variants, pos>>
vars     == <<controls, record, epoch, ring, button, alive, jobs>>

\* A job knows what it was started with; late is a history of it: was the
\* lookup context changed since?
Jobs == [stage : {"scheduled", "lookup", "answered"},
         kind : {"silent", "byName", "byNumber"}, epoch : 0 .. MaxEpoch,
         set : Sets \cup {NoSet}, name : Names \cup {Blank},
         number : Numbers \cup {NoNumber}, late : BOOLEAN, found : BOOLEAN]

Job(k, s, n, m) ==
    [stage |-> "lookup", kind |-> k, epoch |-> epoch, set |-> s, name |-> n,
     number |-> m, late |-> FALSE, found |-> FALSE]

\* What requestVariantsAsync and requestBySetNoAsync were asked by a click.
Manual(j) == j.kind # "silent"

\* The prints upstream lists.  Asked for a number it may answer with one print
\* where it lists several rarities; the ring is the same.
ByName(s, n)   == KeepIn(Listing[s], {p \in Prints : p.name = n})
ByNumber(s, m) == KeepIn(Listing[s], {p \in Prints : p.number = m})

\* rebuildVariantRingFromCache: the numbers of the prints that have one, each once.
Numbered(prints) == KeepIn(prints, {p \in Prints : p.number # NoNumber})

Ring(prints) ==
    LET once == FirstOfEach(Numbered(prints), LAMBDA p : p.number)
    IN  [i \in DOMAIN once |-> once[i].number]

\* Where the ring holds number m, or its start.
RingPos(nos, m) == PlaceIn(nos, {m})

TypeOK ==
    /\ record.region \in Regions
    /\ record \in [region : Regions, set : SetsOf[record.region] \cup {NoSet},
                   name : Names \cup {Blank}]
    /\ name \in Names \cup {Blank}
    /\ set \in SetsOf[record.region]
    /\ {number, selectedSetNo} \subseteq Numbers \cup {NoNumber}
    /\ lastEdited \in {"None", "Name", "SetNo"}
    /\ epoch \in 0 .. MaxEpoch
    /\ variants \in Seq(Prints)
    /\ pos \in 0 .. Len(variants) /\ (Ring(variants) # <<>> => pos < Len(Ring(variants)))
    /\ {button, alive} \subseteq BOOLEAN
    /\ jobs \subseteq Jobs

-----------------------------------------------------------------------------
\* scheduleDeferredVariantPrefetch, in epoch e.
Prefetch(e) ==
    [stage |-> "scheduled", kind |-> "silent", epoch |-> e, set |-> NoSet,
     name |-> Blank, number |-> NoNumber, late |-> FALSE, found |-> FALSE]

\* The record handed to the dialog: a new card, or one of the collection, whose
\* number may be missing.
InitCreate ==
    /\ record = [region |-> NewRegion, set |-> NoSet, name |-> Blank]
    /\ set = FirstSet[NewRegion]
    /\ number = NoNumber
    /\ jobs = {}

InitEdit ==
    \E r \in Regions, m \in Numbers \cup {NoNumber} : \E s \in SetsOf[r], n \in Names :
        /\ record = [region |-> r, set |-> s, name |-> n]
        /\ set = s
        /\ number = m
        /\ jobs = {Prefetch(0)}

Init ==
    /\ InitCreate \/ InitEdit
    /\ name = record.name
    /\ selectedSetNo = number
    /\ lastEdited = "None"
    /\ epoch = 0
    /\ variants = <<>>
    /\ pos = 0
    /\ button = TRUE
    /\ alive = TRUE

-----------------------------------------------------------------------------
\* The user's edits.  Each clears what was detected and opens a new epoch.

Overtaken == {[j EXCEPT !.late = TRUE] : j \in jobs}

\* Mutant: the epoch is not advanced.
ClearInTheSameEpoch(scheduled) ==
    /\ variants' = <<>>
    /\ pos' = 0
    /\ jobs' = Overtaken \cup scheduled
    /\ UNCHANGED epoch

\* clearCachedPrintVariants, and what is scheduled afterwards.
ClearCachedPrintVariants(scheduled) ==
    /\ epoch < MaxEpoch
    /\ epoch' = epoch + 1
    /\ variants' = <<>>
    /\ pos' = 0
    /\ jobs' = Overtaken \cup scheduled

\* wxEVT_TEXT of the name: markNameLookupEdited, onCardLookupContextChanged.
EditName(n) ==
    /\ alive /\ n # name
    /\ name' = n
    /\ lastEdited' = "Name"
    /\ ClearCachedPrintVariants({})
    /\ UNCHANGED <<set, number, selectedSetNo, record, button, alive>>

\* wxEVT_TEXT of the set number: markSetNoLookupEdited.
EditNumber(m) ==
    /\ alive /\ m # number
    /\ number' = m
    /\ lastEdited' = "SetNo"
    /\ ClearCachedPrintVariants({})
    /\ UNCHANGED <<name, set, selectedSetNo, record, button, alive>>

\* wxEVT_COMBOBOX: onSetSelectionChanged.  refreshSetNoRowMode restores the
\* number that was last read from the control.
SelectSet(s) ==
    /\ alive /\ s # set
    /\ set' = s
    /\ number' = IF selectedSetNo = NoNumber THEN number ELSE selectedSetNo
    /\ ClearCachedPrintVariants({Prefetch(epoch + 1)})
    /\ UNCHANGED <<name, selectedSetNo, lastEdited, record, button, alive>>

\* applySetTypeaheadSelection: wxComboBox::SetSelection sends no event.
TypeSet(s) ==
    /\ alive /\ s # set
    /\ set' = s
    /\ UNCHANGED <<name, number, selectedSetNo, lastEdited, record, epoch, ring,
                   button, alive, jobs>>

\* applyRegion: the set of the record is kept if the region's list has it.
SwitchRegion(r) ==
    LET kept == record.set \in SetsOf[r]
        no   == IF kept THEN selectedSetNo ELSE NoNumber
    IN  /\ alive /\ r # record.region
        /\ record' = [record EXCEPT !.region = r, !.set = IF kept THEN @ ELSE NoSet]
        /\ set' = IF kept THEN record.set ELSE FirstSet[r]
        /\ selectedSetNo' = no
        /\ number' = IF kept /\ no = NoNumber THEN number ELSE no
        /\ ClearCachedPrintVariants({Prefetch(epoch + 1)})
        /\ UNCHANGED <<name, lastEdited, button, alive>>

\* writeFromControls, writeExtraToCard
WriteFromControls ==
    /\ record' = [record EXCEPT !.name = name, !.set = set]
    /\ selectedSetNo' = number

\* onAddImage, and an onOk that does not close the dialog.
ReadControls ==
    /\ alive
    /\ WriteFromControls
    /\ UNCHANGED <<name, set, number, lastEdited, epoch, ring, button, alive, jobs>>

\* OK, which needs a name, or Cancel; ~PokemonCardEditDialog.
Close ==
    /\ alive
    /\ alive' = FALSE
    /\ \/ name # Blank /\ WriteFromControls
       \/ UNCHANGED <<record, selectedSetNo>>
    /\ UNCHANGED <<name, set, number, lastEdited, epoch, ring, button, jobs>>

\* stepVariantRing(1)
OnNextSetNo ==
    LET nos == Ring(variants)
        i   == (pos + 1) % Len(nos)
    IN  /\ alive /\ Len(nos) > 1
        /\ pos' = i
        /\ number' = nos[i + 1]
        /\ selectedSetNo' = nos[i + 1]
        /\ UNCHANGED <<name, set, lastEdited, record, epoch, variants, button, alive, jobs>>

-----------------------------------------------------------------------------
\* Lookups

\* preferDetectBySetNo
DetectBySetNo ==
    /\ number # NoNumber
    /\ name = Blank \/ lastEdited = "SetNo"

\* Mutant: the button stays enabled.
AutoDetectAgain ==
    /\ alive /\ button
    /\ WriteFromControls
    /\ name # Blank \/ number # NoNumber
    /\ jobs' = jobs \cup {Job(IF DetectBySetNo THEN "byNumber" ELSE "byName", set, name, number)}
    /\ UNCHANGED <<name, set, number, lastEdited, epoch, ring, button, alive>>

\* autoDetectFromApi with something to look up; without, it is a ReadControls.
AutoDetect ==
    /\ alive /\ button
    /\ WriteFromControls
    /\ name # Blank \/ number # NoNumber
    /\ jobs' = jobs \cup {Job(IF DetectBySetNo THEN "byNumber" ELSE "byName", set, name, number)}
    /\ button' = FALSE
    /\ UNCHANGED <<name, set, number, lastEdited, epoch, ring, alive>>

\* prefetchVariantsForCurrentCardSilent.  It asks for what the record says.
\* What it would do after the dialog is gone is undefined and left out.
RunPrefetch(j) ==
    /\ alive /\ j.stage = "scheduled"
    /\ jobs' = (jobs \ {j}) \cup
           IF j.epoch = epoch /\ variants = <<>> /\ record.name # Blank /\ record.set # NoSet
           THEN {Job("silent", record.set, record.name, NoNumber)} ELSE {}
    /\ UNCHANGED <<controls, record, epoch, ring, button, alive>>

\* What upstream has for the job, in its order.
Answer(j) == IF j.kind = "byNumber" THEN ByNumber(j.set, j.number) ELSE ByName(j.set, j.name)

\* The worker's call returns an error or prints, never none, and posts them.
Lookup(j) ==
    /\ j.stage = "lookup"
    /\ \E found \in {FALSE, Answer(j) # <<>>} :
          jobs' = (jobs \ {j}) \cup {[j EXCEPT !.stage = "answered", !.found = found]}
    /\ UNCHANGED <<controls, record, epoch, ring, button, alive>>

\* The number an answer leaves on screen: a click's is the first print's, and where there is
\* none then, the first of the ring.
Shown(j) ==
    LET filled == IF Manual(j) THEN Answer(j)[1].number ELSE number
        nos    == Ring(Answer(j))
    IN  IF filled = NoNumber /\ nos # <<>> THEN nos[1] ELSE filled

\* Mutants: a silent answer fills the number in, or the position is not sought.
ApplyAsManual(j) ==
    LET first == Answer(j)[1]
    IN  /\ variants' = Answer(j)
        /\ name' = IF j.kind = "byNumber" THEN first.name ELSE name
        /\ number' = first.number
        /\ selectedSetNo' = number'
        /\ pos' = 0

ApplyAtTheStart(j) ==
    LET first == Answer(j)[1]
    IN  /\ variants' = Answer(j)
        /\ name' = IF j.kind = "byNumber" THEN first.name ELSE name
        /\ pos' = 0
        /\ number' = Shown(j)
        /\ selectedSetNo' = Shown(j)

\* The prints of an answer that counts: a click's fill the number in, and the
\* name if they were found by number; the ring starts at the number shown.
ApplyPrints(j) ==
    LET first == Answer(j)[1]
    IN  /\ variants' = Answer(j)
        /\ name' = IF j.kind = "byNumber" THEN first.name ELSE name
        /\ pos' = RingPos(Ring(Answer(j)), Shown(j))
        /\ number' = Shown(j)
        /\ selectedSetNo' = Shown(j)

\* A click's answer enables the button again.
Enabled(j) == button \/ Manual(j)

\* The posted lambda and applyDetectedVariants.
RunAnswer(j) ==
    /\ j.stage = "answered"
    /\ jobs' = jobs \ {j}
    /\ IF alive /\ j.epoch = epoch
       THEN /\ button' = Enabled(j)
            /\ IF j.found THEN ApplyPrints(j)
               ELSE UNCHANGED <<name, number, selectedSetNo, ring>>
       ELSE UNCHANGED <<name, number, selectedSetNo, ring, button>>
    /\ UNCHANGED <<set, lastEdited, record, epoch, alive>>

-----------------------------------------------------------------------------
Edit ==
    \/ \E n \in Names \cup {Blank} : EditName(n)
    \/ \E m \in Numbers \cup {NoNumber} : EditNumber(m)
    \/ \E s \in SetsOf[record.region] : SelectSet(s) \/ TypeSet(s)
    \/ \E r \in Regions : SwitchRegion(r)
    \/ ReadControls
    \/ OnNextSetNo
    \/ AutoDetect
    \/ Close

JobStep(j) == RunPrefetch(j) \/ Lookup(j) \/ RunAnswer(j)

Next == Edit \/ \E j \in jobs : JobStep(j)

Spec == Init /\ [][Next]_vars

-----------------------------------------------------------------------------
\* Properties

\* A lookup that was overtaken by an edit of the name, the number, the set or
\* the region never touches the dialog, whenever its answer arrives; nor does
\* any answer touch a dialog that was closed.
LateAnswersChangeNothing ==
    [][\A j \in jobs : (j \notin jobs' /\ (j.late \/ ~ alive)) =>
           UNCHANGED <<name, number, selectedSetNo, ring, button>>]_vars

\* A prefetch the user did not ask for never replaces a name or a number that
\* is on screen; it may fill in a number that is missing.
SilentPrefetchIsSilent ==
    [][(jobs' \subseteq jobs /\ \E j \in jobs \ jobs' : j.kind = "silent" /\ j.stage = "answered") =>
           /\ name' = name
           /\ number # NoNumber => number' = number]_vars

\* Two answers to clicks on "Auto detect" can never race for the controls.
OneDetectAtATime ==
    \A j, k \in jobs : Manual(j) /\ Manual(k) => j = k

\* "Next" moves on from the number on screen: whenever the ring has the number
\* the control shows, that is where the ring stands.
NextStartsAtTheNumberShown ==
    number \in ToSet(Ring(variants)) => Ring(variants)[pos + 1] = number
=============================================================================
