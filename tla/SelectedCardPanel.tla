-------------------------- MODULE SelectedCardPanel --------------------------
(***************************************************************************)
(* BaseSelectedCardPanel: the detail panel that shows the preview of the   *)
(* selected card.  Each change of the selected card id starts a detached   *)
(* worker thread stamped with a generation; the worker resolves the        *)
(* preview, falls back to the game's card back, and posts a callback to    *)
(* the UI thread with wxTheApp->CallAfter.  The callback paints only if    *)
(* the panel is alive and its generation is still the current one.         *)
(*                                                                         *)
(* A card is its id and the lookup coordinates previewKey() derives from   *)
(* its fields; image bytes are represented by the coordinates they were    *)
(* fetched for.  What CardPreviewService does inside a lookup is the       *)
(* module CardPreviewService; here a lookup succeeds or fails.             *)
(***************************************************************************)
EXTENDS Naturals, Sequences

CONSTANTS
    Ids,            \* card ids
    NoId,           \* std::nullopt for an id
    Keys,           \* lookup coordinates (game, name, setId, setNo)
    NoKey,          \* no coordinates
    CardBackTries,  \* card-back sources of the game: 3 for Yu-Gi-Oh!, else 1
    MaxGen          \* bound on the number of generations

ASSUME PanelAssumption ==
    /\ NoId \notin Ids
    /\ NoKey \notin Keys
    /\ CardBackTries \in Nat
    /\ MaxGen \in Nat

VARIABLES
    card,           \* card_
    lastFetchedId,  \* lastFetchedId_
    currentGen,     \* state_->currentGen
    alive,          \* state_->alive (and state_->panel # nullptr)
    bitmap,         \* what previewBitmap_ shows
    status,         \* what previewStatus_ says, "blank" for the empty label
    thread,         \* the worker of each generation
    callbacks       \* pending CallAfter lambdas, by generation

panelVars == <<card, lastFetchedId, currentGen, alive, bitmap, status>>
vars == <<card, lastFetchedId, currentGen, alive, bitmap, status,
          thread, callbacks>>

Gens   == 1 .. MaxGen
Cards  == [id : Ids, key : Keys]
NoCard == [id |-> NoId, key |-> NoKey]

Placeholder == [kind |-> "placeholder", key |-> NoKey]

Bitmaps  == [kind : {"placeholder", "preview", "cardBack"}, key : Keys \cup {NoKey}]
Statuses == {"blank", "loading", "unavailable", "undecodable", "cardBack"}
Payloads == {"none", "preview", "cardBack"}
Stages   == {"unborn", "lookup", "cardBack", "post", "posted", "over"}
Threads  == [stage : Stages, key : Keys \cup {NoKey}, tries : Nat, payload : Payloads]

Unborn == [stage |-> "unborn", key |-> NoKey, tries |-> 0, payload |-> "none"]

\* The worker startPreviewFetch spawns for coordinates k.
Worker(k) == [stage |-> "lookup", key |-> k, tries |-> CardBackTries, payload |-> "none"]

TypeOK ==
    /\ card \in Cards \cup {NoCard}
    /\ lastFetchedId \in Ids \cup {NoId}
    /\ currentGen \in 0 .. MaxGen
    /\ alive \in BOOLEAN
    /\ bitmap \in Bitmaps
    /\ status \in Statuses
    /\ thread \in [Gens -> Threads]
    /\ callbacks \in Seq(Gens)

Init ==
    /\ card = NoCard
    /\ lastFetchedId = NoId
    /\ currentGen = 0
    /\ alive = TRUE
    /\ bitmap = Placeholder
    /\ status = "blank"
    /\ thread = [g \in Gens |-> Unborn]
    /\ callbacks = <<>>

-----------------------------------------------------------------------------
\* setCard.  Only a change of the card's id starts or cancels a fetch.

FetchTargetChanged(c) == c.id # lastFetchedId

\* The same id again: the detail rows are repainted, the preview is left alone.
RepaintDetails(c) ==
    /\ ~ FetchTargetChanged(c)
    /\ card' = c
    /\ UNCHANGED <<lastFetchedId, currentGen, alive, bitmap, status, thread, callbacks>>

\* Mutant: the loading text stays.
ClearWithoutStatus ==
    /\ FetchTargetChanged(NoCard)
    /\ currentGen < MaxGen
    /\ card' = NoCard
    /\ currentGen' = currentGen + 1
    /\ lastFetchedId' = NoId
    /\ bitmap' = Placeholder
    /\ UNCHANGED <<alive, status, thread, callbacks>>

\* Mutant: the fetch in flight is not cancelled.
ClearWithoutCancel ==
    /\ FetchTargetChanged(NoCard)
    /\ card' = NoCard
    /\ lastFetchedId' = NoId
    /\ bitmap' = Placeholder
    /\ status' = "blank"
    /\ UNCHANGED <<currentGen, alive, thread, callbacks>>

ClearSelection ==
    /\ FetchTargetChanged(NoCard)
    /\ currentGen < MaxGen
    /\ card' = NoCard
    /\ currentGen' = currentGen + 1
    /\ lastFetchedId' = NoId
    /\ bitmap' = Placeholder
    /\ status' = "blank"
    /\ UNCHANGED <<alive, thread, callbacks>>

StartPreviewFetch(c) ==
    /\ FetchTargetChanged(c)
    /\ currentGen < MaxGen
    /\ card' = c
    /\ bitmap' = Placeholder
    /\ status' = "loading"
    /\ lastFetchedId' = c.id
    /\ currentGen' = currentGen + 1
    /\ thread' = [thread EXCEPT ![currentGen + 1] = Worker(c.key)]
    /\ UNCHANGED <<alive, callbacks>>

SetCard ==
    /\ alive
    /\ \/ \E c \in Cards \cup {NoCard} : RepaintDetails(c)
       \/ ClearSelection
       \/ \E c \in Cards : StartPreviewFetch(c)

\* ~BaseSelectedCardPanel
Destroy ==
    /\ alive
    /\ alive' = FALSE
    /\ UNCHANGED <<card, lastFetchedId, currentGen, bitmap, status, thread, callbacks>>

-----------------------------------------------------------------------------
\* The worker thread of generation g.

\* fetchPreviewBytes returned: bytes, or an error or an empty payload.
FetchPreviewBytes(g) ==
    /\ thread[g].stage = "lookup"
    /\ \/ thread' = [thread EXCEPT ![g].stage = "post", ![g].payload = "preview"]
       \/ thread' = [thread EXCEPT ![g].stage =
                        IF thread[g].tries > 0 THEN "cardBack" ELSE "post"]
    /\ UNCHANGED <<panelVars, callbacks>>

\* Mutant: card-back sources are tried without end.
RetryCardBack(g) ==
    /\ thread[g].stage = "cardBack"
    /\ \/ thread' = [thread EXCEPT ![g].stage = "post", ![g].payload = "cardBack"]
       \/ thread' = [thread EXCEPT ![g].tries = @ - 1]
    /\ UNCHANGED <<panelVars, callbacks>>

\* One attempt at a card back: a URL, or for some games a bundled file.
FetchCardBack(g) ==
    /\ thread[g].stage = "cardBack"
    /\ \/ thread' = [thread EXCEPT ![g].stage = "post", ![g].payload = "cardBack"]
       \/ thread' = [thread EXCEPT ![g].tries = @ - 1,
                                   ![g].stage =
                        IF thread[g].tries > 1 THEN "cardBack" ELSE "post"]
    /\ UNCHANGED <<panelVars, callbacks>>

\* Mutant: a worker that found nothing returns without telling anyone.
PostOnlyImages(g) ==
    /\ thread[g].stage = "post"
    /\ thread[g].payload # "none"
    /\ thread' = [thread EXCEPT ![g].stage = "posted"]
    /\ callbacks' = Append(callbacks, g)
    /\ UNCHANGED panelVars

\* wxTheApp->CallAfter
PostCallback(g) ==
    /\ thread[g].stage = "post"
    /\ thread' = [thread EXCEPT ![g].stage = "posted", ![g].tries = 0]
    /\ callbacks' = Append(callbacks, g)
    /\ UNCHANGED panelVars

WorkerStep(g) == FetchPreviewBytes(g) \/ FetchCardBack(g) \/ PostCallback(g)

-----------------------------------------------------------------------------
\* The UI thread runs the oldest pending callback.

\* Mutants: the generation, or the life of the panel, is not checked.
AcceptedIfAlive(g)   == alive
AcceptedIfCurrent(g) == currentGen = g

\* The checks of the lambda, and of onPreviewBytes again.
Accepted(g) == alive /\ currentGen = g

\* onPreviewBytes, for a callback that passed its checks.
Paint(g) ==
    \/ /\ thread[g].payload = "none"
       /\ bitmap' = Placeholder
       /\ status' = "unavailable"
    \/ /\ thread[g].payload # "none"
       /\ bitmap' = Placeholder
       /\ status' = "undecodable"
    \/ /\ thread[g].payload # "none"
       /\ bitmap' = [kind |-> thread[g].payload, key |-> thread[g].key]
       /\ status' = IF thread[g].payload = "cardBack" THEN "cardBack" ELSE "blank"

RunCallback ==
    /\ callbacks # <<>>
    /\ callbacks' = Tail(callbacks)
    /\ LET g == Head(callbacks) IN
       /\ thread' = [thread EXCEPT ![g].stage = "over", ![g].payload = "none"]
       /\ IF Accepted(g) THEN Paint(g) ELSE UNCHANGED <<bitmap, status>>
    /\ UNCHANGED <<card, lastFetchedId, currentGen, alive>>

-----------------------------------------------------------------------------
Next ==
    \/ SetCard
    \/ Destroy
    \/ RunCallback
    \/ \E g \in Gens : WorkerStep(g)

\* Worker threads are scheduled, each of their calls returns (an HTTP request
\* times out) and the event loop of a living window runs what was posted to
\* it.  The user owes nothing.
Fairness ==
    /\ WF_vars(alive /\ RunCallback)
    /\ \A g \in Gens : WF_vars(WorkerStep(g))

SafeSpec == Init /\ [][Next]_vars
Spec     == SafeSpec /\ Fairness

-----------------------------------------------------------------------------
\* Properties

\* The coordinates the current generation is fetching or has fetched.
FetchedKey == IF card.id = NoId THEN NoKey ELSE thread[currentGen].key

\* A late answer for an earlier selection is never painted: an image on screen
\* was fetched by the current generation, which was started for the id of the
\* card the panel displays.
PaintsOnlyTheCurrentFetch ==
    bitmap.kind # "placeholder" =>
        /\ card.id # NoId
        /\ card.id = lastFetchedId
        /\ bitmap.key = FetchedKey
        /\ thread[currentGen].stage = "over"

\* "Loading preview..." is on screen exactly while the worker of the current
\* generation is on its way to the callback that will replace it: it is never
\* left on screen with nobody to take it down, nor taken down early.
LoadingMeansPending ==
    alive =>
      (status = "loading" <=>
        /\ card.id # NoId
        /\ \/ thread[currentGen].stage \in {"lookup", "cardBack", "post"}
           \/ \E i \in 1 .. Len(callbacks) : callbacks[i] = currentGen)

\* A destroyed panel is never touched again by workers that outlive it.
NothingAfterDestroy == [][~ alive => UNCHANGED panelVars]_vars

\* As long as the user stays on a card its preview stops loading.
LoadingEnds ==
    \A g \in Gens :
        (alive /\ currentGen = g /\ status = "loading")
            ~> (~ alive \/ currentGen # g \/ status # "loading")

\* docs/caching.md says that editing a lookup-relevant field re-fetches the
\* preview of the record; so a settled preview is one of the record displayed.
SettledPreviewIsOfTheRecord ==
    (alive /\ bitmap.kind = "preview") => bitmap.key = card.key

\* What is on screen, as the abstract preview display describes it.
Shown == IF status = "loading" THEN [kind |-> "loading", key |-> NoKey]
         ELSE IF bitmap.kind # "placeholder" THEN bitmap
         ELSE [kind |-> status, key |-> NoKey]

\* The panel implements the abstract preview display: a fetch that nothing
\* overtakes settles, once, on what was found for the coordinates it was
\* started with.
Display == INSTANCE PreviewDisplay WITH
    open <- alive, target <- FetchedKey, display <- Shown

ImplementsDisplay == Display!Spec
=============================================================================
