------------------------------- MODULE EditDialogs -------------------------------
(* The edit dialogs that look prints up: EditDialogDetect (Pokémon) and those of    *)
(* Yu-Gi-Oh!, Yu-Gi-Oh! (Bandai) and Digi-Battle. CardEditModalGuard lets one of    *)
(* them be open at a time; they share no state, and each runs as if it were alone.  *)
EXTENDS EditDialogDetect

CONSTANTS
    YgoSets, FirstYgoSet, SetDigits, YgoNumbers, YgoRarities, Printings,
    BandaiSets, FirstBandaiSet, Typed, Normal, BandaiRarities, BandaiLanguages,
    BandaiPrints, MaxJobs,
    DigiSets, FirstDigiSet, DigiPrints,
    MaxEdits    \* MaxEpoch of these three

VARIABLES ygoForm, ygoRecord, ygoEpoch, ygoRing, ygoButton, ygoState, ygoJobs, standsFor,
          bForm, bRecord, bEpoch, bRing, bButtons, bState, bJobs,
          dForm, dRecord, dEpoch, dRing, dButton, dState, dJobs

Ygo == INSTANCE YuGiOhCardEditDialog WITH
           form <- ygoForm, record <- ygoRecord, epoch <- ygoEpoch, ring <- ygoRing,
           button <- ygoButton, state <- ygoState, jobs <- ygoJobs,
           MaxEpoch <- MaxEdits
Bandai == INSTANCE YuGiOhBandaiCardEditDialog WITH
           form <- bForm, record <- bRecord, epoch <- bEpoch, ring <- bRing,
           buttons <- bButtons, state <- bState, jobs <- bJobs, MaxEpoch <- MaxEdits
Digi == INSTANCE DigiBattle99CardEditDialog WITH
           form <- dForm, record <- dRecord, epoch <- dEpoch, ring <- dRing,
           button <- dButton, state <- dState, jobs <- dJobs, MaxEpoch <- MaxEdits

ASSUME DialogsAssumption ==
    Ygo!YgoDialogAssumption /\ Bandai!BandaiDialogAssumption /\ Digi!DigiDialogAssumption

ygo == <<ygoForm, ygoRecord, ygoEpoch, ygoRing, ygoButton, ygoState, ygoJobs, standsFor>>
bandai == <<bForm, bRecord, bEpoch, bRing, bButtons, bState, bJobs>>
digi == <<dForm, dRecord, dEpoch, dRing, dButton, dState, dJobs>>

dialogs == <<vars, ygo, bandai, digi>>

\* EditDialogDetect's dialog when it is not open.
PokemonClosed ==
    /\ InitCreate /\ alive = FALSE
    /\ name = record.name /\ selectedSetNo = number /\ lastEdited = "None"
    /\ epoch = 0 /\ variants = <<>> /\ pos = 0 /\ button = TRUE

\* CardEditModalGuard: a view opens its dialog if no other is open.
DialogsInit ==
    \/ Init /\ Ygo!Closed /\ Bandai!Closed /\ Digi!Closed
    \/ PokemonClosed /\ Ygo!Init /\ Bandai!Closed /\ Digi!Closed
    \/ PokemonClosed /\ Ygo!Closed /\ Bandai!Init /\ Digi!Closed
    \/ PokemonClosed /\ Ygo!Closed /\ Bandai!Closed /\ Digi!Init

DialogsNext ==
    \/ Next /\ UNCHANGED <<ygo, bandai, digi>>
    \/ Ygo!Next /\ UNCHANGED <<vars, bandai, digi>>
    \/ Bandai!Next /\ UNCHANGED <<vars, ygo, digi>>
    \/ Digi!Next /\ UNCHANGED <<vars, ygo, bandai>>

DialogsSpec == DialogsInit /\ [][DialogsNext]_dialogs

----------------------------------------------------------------------------------
\* In none of the dialogs does an answer that an edit or the dialog's end overtook touch
\* what is on screen, what "Next" offers, or a button.
OvertakenAnswersChangeNothing ==
    /\ LateAnswersChangeNothing
    /\ Ygo!LateAnswersChangeNothing
    /\ Bandai!LateAnswersChangeNothing
    /\ Digi!LateAnswersChangeNothing

\* In each of them "Next" moves on from what is on screen, though ring and controls are
\* changed by different handlers and answers.
NextMovesOnFromWhatIsShown ==
    /\ NextStartsAtTheNumberShown
    /\ Ygo!RingsFollowTheControls
    /\ Bandai!RingStandsAtThePrintShown
    /\ Digi!NextStartsAtTheNumberShown

\* Ygo!SavedNumberIsThePrints.
SavedNumberIsThePrints == Ygo!SavedNumberIsThePrints
==================================================================================
