------------------------------- MODULE PreviewLookup -------------------------------
(* One call of an ICardPreviewSource: what is asked, the request that is under   *)
(* way, and how it was answered so far. A source's module adds one action per    *)
(* HTTP request; the environment chooses the reply.                              *)
EXTENDS CollectorNumber, FiniteSets, SequencesExt

CONSTANTS Down,      \* the request failed: no connection, a timeout, a bad status
          Bad,       \* answered, with a body the parser rejects
          Nothing,   \* no value
          RowsOf,    \* source -> the cards its upstreams may list
          MaxRows    \* the longest list it answers with

ASSUME LookupAssumption == /\ MaxRows \in Nat
                           /\ Cardinality({Down, Bad, Nothing}) = 3

VARIABLES source,   \* the source that is called; of which game it is never changes
          ask,      \* the call: [op, name, set, no, rarity, first]
          at,       \* the request under way; "Begin" before the first, "Idle" after the last
          kept,     \* what a later request still needs
          heard,    \* how the requests so far ended (history)
          result    \* the answer of the last call

lookupVars == <<source, ask, at, kept, heard, result>>

Rows == RowsOf[source]

Lists == UNION {[1..n -> Rows] : n \in 0..MaxRows}

\* Replies of a list request, and of a request for one card.
ListReplies == {Down, Bad} \cup Lists
CardReplies(rows) == {Down, Bad} \cup {<<r>> : r \in rows}

Spoke(reply) == reply \notin {Down, Bad}

\* The answers: an image (of a row, a catalogue entry or a file), a verdict, prints.
Image(of) == [kind |-> "Image", of |-> <<of>>]
NotFound == [kind |-> "NotFound", of |-> <<>>]
Transient == [kind |-> "Transient", of |-> <<>>]
Error == [kind |-> "Error", of |-> <<>>]
Prints(s) == [kind |-> "Prints", of |-> s]
PrintsOrError(s) == IF s = <<>> THEN Error ELSE Prints(s)

\* The calls. A row is [name, no, set, rarity, img].
Asks(op) == ask.op = op
Named(r) == ask.name = "" \/ r.name = ask.name

\* The image of the first row that has one, or a confirmed miss.
FirstImage(s) ==
  LET with == KeepIn(s, {r \in Rows : r.img})
  IN  IF with = <<>> THEN NotFound ELSE Image(Head(with))

\* Steps: what was heard, and either the next request or the end of the call.
Hears(reply) ==
  heard' = Append(heard, CASE reply = Down -> "down" [] reply = Bad -> "bad" [] OTHER -> "ok")
Answer(res) == at' = "Idle" /\ result' = res /\ kept' = Nothing /\ UNCHANGED ask
Ask(request) == at' = request /\ UNCHANGED <<ask, kept, result>>
AskKeeping(request, x) == at' = request /\ kept' = x /\ UNCHANGED <<ask, result>>
Starts(op) == at = "Begin" /\ ask.op = op /\ UNCHANGED heard
====
