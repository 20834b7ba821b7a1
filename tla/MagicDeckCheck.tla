------------------------------- MODULE MagicDeckCheck -------------------------------
(* Deck check: a pasted deck list is parsed, equal names are added up, and each is  *)
(* compared with the amounts in the collection. A line is [qty, name]: qty 0 stands  *)
(* for one without usable quantity (headings, comments, "0 Forest", a number above  *)
(* 99999). The collection is a set of [name, amount, ...].                          *)
EXTENDS Naturals, SequencesExt

CONSTANTS Lower,       \* name -> its lower-case form
          PrintedNames \* a name with set code and number -> the name alone

\* stripArenaSuffix
DeckName(line) ==
  IF line.name \in DOMAIN PrintedNames THEN PrintedNames[line.name] ELSE line.name

\* A line without usable quantity is skipped; the first spelling of a name stands for all.
AddLine(deck, line) ==
  LET same == {i \in DOMAIN deck : Lower[deck[i].name] = Lower[DeckName(line)]}
  IN  CASE line.qty = 0 -> deck
        [] line.qty # 0 /\ same = {} -> Append(deck, [name |-> DeckName(line), required |-> line.qty])
        [] OTHER -> [deck EXCEPT ![CHOOSE i \in same : TRUE].required = @ + line.qty]

ParseMagicDeckList(text) ==
  LET deck[n \in 0 .. Len(text)] == IF n = 0 THEN <<>> ELSE AddLine(deck[n - 1], text[n])
  IN  deck[Len(text)]

OwnedAmount(cards, name) ==
  MapThenSumSet(LAMBDA c : c.amount, {c \in cards : Lower[c.name] = Lower[name]})

AnalyzeMagicDeckCheck(deck, cards) ==
  [missing |-> {[name |-> e.name, required |-> e.required,
                 missing |-> e.required - OwnedAmount(cards, e.name)] :
                  e \in {x \in ToSet(deck) : x.required > OwnedAmount(cards, x.name)}},
   owned |-> {[name |-> e.name, required |-> e.required, owned |-> OwnedAmount(cards, e.name)] :
                e \in {x \in ToSet(deck) : OwnedAmount(cards, x.name) > 0}}]

NoResult == [missing |-> {}, owned |-> {}]

------------------------------------------------------------------------------------
(* MagicDeckCheckPanel: the input page keeps its text while the result is shown.   *)

DeckPanel(cards) == [cards |-> cards, text |-> <<>>, showing |-> FALSE, result |-> NoResult]

\* As SetDeckCollection, showing what was analysed first.
SetDeckCollectionOnly(tab, cards) == [tab EXCEPT !.cards = cards]

\* setCollection and refreshAnalysisIfActive
SetDeckCollection(tab, cards) ==
  [tab EXCEPT !.cards = cards,
              !.result = IF tab.showing
                         THEN AnalyzeMagicDeckCheck(ParseMagicDeckList(tab.text), cards) ELSE @]

\* A text without card lines gets a message and stays where it is.
OnAnalyze(tab) ==
  LET deck == ParseMagicDeckList(tab.text)
  IN  IF deck = <<>> THEN tab
      ELSE [tab EXCEPT !.showing = TRUE, !.result = AnalyzeMagicDeckCheck(deck, tab.cards)]

OnClear(tab) == [tab EXCEPT !.showing = FALSE, !.result = NoResult]
====
