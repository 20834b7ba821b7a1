------------------------------ MODULE CollectorNumber ------------------------------
(* Collector numbers as the preview sources compare them: a letter prefix       *)
(* ("TG", "ST-", "LOB-EN"), the value of the digits, whether they are padded     *)
(* with zeros, and whether a total follows ("4/102").                            *)
EXTENDS Naturals, SequencesExt, Filtering

Number(p, v) == [pre |-> p, val |-> v, pad |-> FALSE, total |-> FALSE]
Padded(n) == [n EXCEPT !.pad = TRUE]
WithTotal(n) == [n EXCEPT !.total = TRUE]

\* The empty text; no card has the number 0.
NoNumber == Number("", 0)
Numbers ==
  {n \in [pre : STRING, val : Nat, pad : BOOLEAN, total : BOOLEAN] :
     n.pre = "" /\ n.val = 0 => n = NoNumber}

\* normalizeCollectorNumber, normalizeLocalId: the slash and what follows is cut off.
WithoutTotal(n) == [n EXCEPT !.total = FALSE]

\* localIdsMatch of both Pokémon sources: equal, or equal but for leading zeros,
\* which a prefix protects.
LocalIdsMatch(a, b) ==
  /\ a # NoNumber /\ b # NoNumber
  /\ \/ a = b
     \/ a.pre = "" /\ b.pre = "" /\ a.val = b.val

\* ygoCollectorDigitsEqual: the digits decide, whatever stands before the dash.
DigitsEqual(a, b) == a.val = b.val

\* cardNumbersMatch of Digi-Battle: a number typed with its prefix must be equal,
\* one typed without matches the digits of any prefix.
CardNumbersMatch(wanted, actual) ==
  /\ wanted # NoNumber /\ actual # NoNumber
  /\ \/ wanted = actual
     \/ wanted.pre = "" /\ ~wanted.total /\ wanted.val = actual.val

\* YuGiOhBandaiSetSource::normalizeCardNumber: zeros go when there is no letter.
NormalizeCardNumber(n) == IF n.pre = "" THEN [n EXCEPT !.pad = FALSE] ELSE n
====
