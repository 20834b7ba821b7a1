--------------------------- MODULE PreviewDisplay ---------------------------
(***************************************************************************)
(* What the preview area of a selected-card panel promises, without        *)
(* threads, generations or callbacks: it is aimed at the lookup            *)
(* coordinates of one card or at nothing, and while it is aimed at a card  *)
(* it is loading until it settles, once, on what was found for THAT card.  *)
(* SelectedCardPanel is shown to implement this module.                    *)
(***************************************************************************)
EXTENDS Naturals

CONSTANTS Keys, NoKey

VARIABLES open, target, display

vars == <<open, target, display>>

Blank   == [kind |-> "blank", key |-> NoKey]
Loading == [kind |-> "loading", key |-> NoKey]

\* What a fetch for k may leave on screen.
Outcomes(k) == {[kind |-> "preview", key |-> k],
                [kind |-> "cardBack", key |-> k],
                [kind |-> "unavailable", key |-> NoKey],
                [kind |-> "undecodable", key |-> NoKey]}

Init == open = TRUE /\ target = NoKey /\ display = Blank

Aim(k) == /\ open
          /\ target' = k
          /\ display' = Loading
          /\ UNCHANGED open

Clear == /\ open
         /\ target' = NoKey
         /\ display' = Blank
         /\ UNCHANGED open

Settle == /\ open
          /\ display = Loading
          /\ display' \in Outcomes(target)
          /\ UNCHANGED <<open, target>>

Close == open /\ open' = FALSE /\ UNCHANGED <<target, display>>

Next == Clear \/ Settle \/ Close \/ \E k \in Keys : Aim(k)

SafeSpec == Init /\ [][Next]_vars

Spec == SafeSpec /\ WF_vars(Settle)
=============================================================================
