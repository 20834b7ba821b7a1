--------------------------- MODULE Previews_proofs ---------------------------
(***************************************************************************)
(* Proofs about the two ends of a preview.  First BaseSelectedCardPanel,   *)
(* for any cards, any number of card-back sources and any bound on the     *)
(* number of generations: its invariants, and that it implements           *)
(* PreviewDisplay.  Then the six preview sources, for any listings, any    *)
(* catalogues and any calls: what an answer owes to what was heard and     *)
(* asked.  Init, Next and Spec are the panel's.                            *)
(***************************************************************************)
EXTENDS SelectedCardPanel, PreviewSources, TLAPS

-----------------------------------------------------------------------------
(***************************************************************************)
(* The inductive invariant.                                                *)
(***************************************************************************)

\* Generations that have not started have no worker, and neither has a
\* generation that was spent on clearing the selection.
FutureIsUnborn == \A g \in Gens : g > currentGen => thread[g].stage = "unborn"

SelectionIsFetched ==
    /\ card.id = lastFetchedId
    /\ card.id = NoId => /\ bitmap = Placeholder
                         /\ status = "blank"
                         /\ currentGen \in Gens => thread[currentGen].stage = "unborn"
    /\ card.id # NoId => /\ currentGen \in Gens
                         /\ thread[currentGen].stage # "unborn"
                         /\ thread[currentGen].key \in Keys

\* The queue holds each posted worker once and nothing else.
QueueIsPosted ==
    /\ \A i \in 1 .. Len(callbacks) : thread[callbacks[i]].stage = "posted"
    /\ \A i, j \in 1 .. Len(callbacks) : callbacks[i] = callbacks[j] => i = j
    /\ \A g \in Gens : thread[g].stage = "posted" =>
                          \E i \in 1 .. Len(callbacks) : callbacks[i] = g

\* Before its callback the current generation shows the loading text; after
\* it the image, if any, is of the coordinates the generation fetched.
ScreenIsCurrent ==
    card.id # NoId =>
      /\ thread[currentGen].stage # "over" => status = "loading" /\ bitmap = Placeholder
      /\ (thread[currentGen].stage = "over" /\ alive) => status # "loading"
      /\ bitmap.kind # "placeholder" => bitmap.key = thread[currentGen].key

\* There is a source left to try while a card back is sought.
CardBackTriesLast == \A g \in Gens : thread[g].stage = "cardBack" => thread[g].tries > 0

IInv == TypeOK /\ CardBackTriesLast /\ FutureIsUnborn /\ SelectionIsFetched /\ QueueIsPosted /\ ScreenIsCurrent

-----------------------------------------------------------------------------
\* The placeholder is a bitmap, and workers are threads.
LEMMA ConstantsAreTyped ==
    /\ Placeholder \in Bitmaps
    /\ Unborn \in Threads
    /\ \A k \in Keys : Worker(k) \in Threads
<1>1. Placeholder \in Bitmaps
  BY DEF Placeholder, Bitmaps
<1>2. Unborn \in Threads
  BY DEF Unborn, Threads, Stages, Payloads
<1>3. \A k \in Keys : Worker(k) \in Threads
  BY PanelAssumption DEF Worker, Threads, Stages, Payloads
<1> QED BY <1>1, <1>2, <1>3

\* The invariant, at first.
LEMMA InitEstablishesIInv == Init => IInv
<1> SUFFICES ASSUME Init PROVE IInv
  OBVIOUS
<1> USE PanelAssumption DEF Init
<1>1. /\ card.id = NoId
      /\ currentGen \notin Gens
      /\ Len(callbacks) = 0
      /\ \A g \in Gens : thread[g].stage = "unborn"
  BY DEF NoCard, Gens, Unborn
<1>2. TypeOK
  <2>1. callbacks \in Seq(Gens) /\ status \in Statuses /\ currentGen \in 0 .. MaxGen
    BY DEF Statuses
  <2> QED BY <2>1, ConstantsAreTyped DEF TypeOK
<1>3. FutureIsUnborn /\ QueueIsPosted /\ CardBackTriesLast
  BY <1>1 DEF FutureIsUnborn, QueueIsPosted, CardBackTriesLast
<1>4. SelectionIsFetched /\ ScreenIsCurrent
  BY <1>1 DEF SelectionIsFetched, ScreenIsCurrent
<1> QED BY <1>2, <1>3, <1>4 DEF IInv

-----------------------------------------------------------------------------
\* What the UI thread does to the selection keeps the invariant.
LEMMA SetCardKeepsIInv == IInv /\ SetCard => IInv'
<1> SUFFICES ASSUME IInv, SetCard PROVE IInv'
  OBVIOUS
<1> USE PanelAssumption
<1>1. ASSUME NEW c \in Cards \cup {NoCard}, RepaintDetails(c) PROVE IInv'
  <2> USE <1>1 DEF RepaintDetails, IInv
  <2>1. TypeOK'
    BY DEF TypeOK, Gens
  <2>2. card'.id = card.id
    BY DEF SelectionIsFetched, FetchTargetChanged
  <2>3. FutureIsUnborn' /\ QueueIsPosted' /\ CardBackTriesLast'
    BY DEF FutureIsUnborn, QueueIsPosted, CardBackTriesLast
  <2>4. SelectionIsFetched' /\ ScreenIsCurrent'
    BY <2>2 DEF SelectionIsFetched, ScreenIsCurrent
  <2> QED BY <2>1, <2>3, <2>4
<1>2. ASSUME ClearSelection PROVE IInv'
  <2> USE <1>2 DEF ClearSelection, IInv
  <2>1. TypeOK'
    BY DEF TypeOK, Bitmaps, Placeholder, Statuses, NoCard
  <2>2. FutureIsUnborn'
    BY DEF FutureIsUnborn, TypeOK, Gens
  <2>3. SelectionIsFetched'
    BY DEF SelectionIsFetched, FutureIsUnborn, TypeOK, Gens, NoCard
  <2>4. QueueIsPosted' /\ CardBackTriesLast'
    BY DEF QueueIsPosted, CardBackTriesLast
  <2>5. ScreenIsCurrent'
    BY DEF ScreenIsCurrent, NoCard
  <2> QED BY <2>1, <2>2, <2>3, <2>4, <2>5
<1>3. ASSUME NEW c \in Cards, StartPreviewFetch(c) PROVE IInv'
  <2> DEFINE g == currentGen + 1
  <2> USE <1>3 DEF StartPreviewFetch, IInv
  <2>0. /\ g \in Gens /\ thread[g].stage = "unborn" /\ currentGen' = g
        /\ Worker(c.key) \in Threads /\ c.key \in Keys /\ c.id \in Ids
    BY DEF FutureIsUnborn, TypeOK, Gens, Worker, Threads, Stages, Payloads, Cards
  <2>1. TypeOK'
    BY <2>0 DEF TypeOK, Bitmaps, Placeholder, Statuses
  <2>2. thread' = [thread EXCEPT ![g] = Worker(c.key)] /\ thread'[g] = Worker(c.key)
    BY <2>0 DEF TypeOK
  <2>3. FutureIsUnborn'
    BY <2>0, <2>2 DEF FutureIsUnborn, TypeOK, Gens
  <2>4. SelectionIsFetched'
    BY <2>0, <2>2 DEF SelectionIsFetched, Worker
  <2>5. QueueIsPosted' /\ CardBackTriesLast'
    BY <2>0, <2>2 DEF QueueIsPosted, CardBackTriesLast, TypeOK, Worker
  <2>6. ScreenIsCurrent'
    BY <2>0, <2>2 DEF ScreenIsCurrent, Worker, Placeholder
  <2> QED BY <2>1, <2>3, <2>4, <2>5, <2>6
<1> QED BY <1>1, <1>2, <1>3 DEF SetCard

-----------------------------------------------------------------------------
\* What a step of a worker does to its record.
LEMMA WorkerStepAdvances ==
    ASSUME IInv, NEW g \in Gens, WorkerStep(g)
    PROVE  /\ UNCHANGED panelVars
           /\ thread' \in [Gens -> Threads]
           /\ \A h \in Gens \ {g} : thread'[h] = thread[h]
           /\ thread'[g].key = thread[g].key
           /\ thread[g].stage \in {"lookup", "cardBack", "post"}
           /\ thread'[g].stage \in {"lookup", "cardBack", "post", "posted"}
           /\ thread'[g].stage = "cardBack" => thread'[g].tries > 0
<1> USE PanelAssumption
<1> SUFFICES ASSUME FetchPreviewBytes(g) \/ FetchCardBack(g) \/ PostCallback(g)
             PROVE  /\ UNCHANGED panelVars
                    /\ thread' \in [Gens -> Threads]
                    /\ \A h \in Gens \ {g} : thread'[h] = thread[h]
                    /\ thread'[g].key = thread[g].key
                    /\ thread[g].stage \in {"lookup", "cardBack", "post"}
                    /\ thread'[g].stage \in {"lookup", "cardBack", "post", "posted"}
                    /\ thread'[g].stage = "cardBack" => thread'[g].tries > 0
  BY DEF WorkerStep
<1> DEFINE t == thread[g]
<1>0. t \in Threads /\ t.tries \in Nat
  BY DEF IInv, TypeOK, Threads
<1>1. \E r \in Threads :
         /\ thread' = [thread EXCEPT ![g] = r]
         /\ UNCHANGED panelVars
         /\ t.stage \in {"lookup", "cardBack", "post"}
         /\ r.key = t.key
         /\ r.stage \in {"lookup", "cardBack", "post", "posted"}
         /\ r.stage = "cardBack" => r.tries > 0
  <2> DEFINE found(p) == [t EXCEPT !.stage = "post", !.payload = p]
             on(st)   == [t EXCEPT !.stage = st]
             less(st) == [t EXCEPT !.tries = t.tries - 1, !.stage = st]
             gone     == [t EXCEPT !.stage = "posted", !.tries = 0]
  <2>1. CASE FetchPreviewBytes(g)
    <3>1. /\ found("preview") \in Threads
          /\ on("post") \in Threads /\ on("cardBack") \in Threads
      BY <1>0 DEF Threads, Stages, Payloads
    <3>2. CASE thread' = [thread EXCEPT ![g] = found("preview")]
      BY <3>1, <3>2, <2>1, <1>0 DEF FetchPreviewBytes, Threads
    <3>3. CASE thread' = [thread EXCEPT ![g] = on(IF t.tries > 0 THEN "cardBack" ELSE "post")]
      BY <3>1, <3>3, <2>1, <1>0 DEF FetchPreviewBytes, Threads
    <3> QED BY <3>2, <3>3, <2>1 DEF FetchPreviewBytes
  <2>2. CASE FetchCardBack(g)
    <3>1. t.stage = "cardBack" /\ t.tries - 1 \in Nat /\ (t.tries > 1 => t.tries - 1 > 0)
      BY <2>2, <1>0 DEF FetchCardBack, IInv, CardBackTriesLast
    <3>2. found("cardBack") \in Threads
      BY <1>0 DEF Threads, Stages, Payloads
    <3>3. CASE thread' = [thread EXCEPT ![g] = found("cardBack")]
      BY <3>1, <3>2, <3>3, <2>2, <1>0 DEF FetchCardBack, Threads
    <3>4. ASSUME NEW st \in {"cardBack", "post"}, st = "cardBack" => t.tries > 1,
                 thread' = [thread EXCEPT ![g] = less(st)]
          PROVE  \E r \in Threads :
                    /\ thread' = [thread EXCEPT ![g] = r]
                    /\ UNCHANGED panelVars
                    /\ t.stage \in {"lookup", "cardBack", "post"}
                    /\ r.key = t.key
                    /\ r.stage \in {"lookup", "cardBack", "post", "posted"}
                    /\ r.stage = "cardBack" => r.tries > 0
      <4>1. less(st) \in Threads
        BY <3>1, <3>4, <1>0 DEF Threads, Stages
      <4>2. /\ less(st).key = t.key /\ less(st).stage = st
            /\ less(st).tries = t.tries - 1
        BY <1>0 DEF Threads
      <4> HIDE DEF less
      <4> QED BY <4>1, <4>2, <3>1, <3>4, <2>2 DEF FetchCardBack
    <3> QED BY <3>3, <3>4, <2>2 DEF FetchCardBack
  <2>3. CASE PostCallback(g)
    <3>1. gone \in Threads
      BY <1>0 DEF Threads, Stages
    <3>2. thread' = [thread EXCEPT ![g] = gone]
      BY <2>3 DEF PostCallback
    <3> QED BY <3>1, <3>2, <2>3, <1>0 DEF PostCallback, Threads
  <2> QED BY <2>1, <2>2, <2>3
<1> QED BY <1>1 DEF IInv, TypeOK

\* A worker on its way to its callback does not disturb the screen.
LEMMA WorkerKeepsIInv ==
    ASSUME IInv, NEW g \in Gens, WorkerStep(g)
    PROVE  IInv'
<1> USE PanelAssumption
<1> SUFFICES ASSUME FetchPreviewBytes(g) \/ FetchCardBack(g) \/ PostCallback(g)
             PROVE  IInv'
  BY DEF WorkerStep
<1>1. /\ UNCHANGED panelVars
      /\ thread' \in [Gens -> Threads]
      /\ \A h \in Gens \ {g} : thread'[h] = thread[h]
      /\ thread'[g].key = thread[g].key
      /\ thread[g].stage \in {"lookup", "cardBack", "post"}
      /\ thread'[g].stage \in {"lookup", "cardBack", "post", "posted"}
      /\ thread'[g].stage = "cardBack" => thread'[g].tries > 0
  BY WorkerStepAdvances DEF WorkerStep
<1>2. \/ callbacks' = callbacks /\ thread'[g].stage # "posted"
      \/ callbacks' = Append(callbacks, g) /\ thread'[g].stage = "posted"
  <2> USE DEF IInv, TypeOK, Threads
  <2>1. CASE FetchPreviewBytes(g)
    BY <2>1 DEF FetchPreviewBytes
  <2>2. CASE FetchCardBack(g)
    BY <2>2 DEF FetchCardBack
  <2>3. CASE PostCallback(g)
    BY <2>3 DEF PostCallback
  <2> QED BY <2>1, <2>2, <2>3
<1>3. TypeOK'
  BY <1>1, <1>2 DEF IInv, TypeOK, panelVars
<1>4. FutureIsUnborn' /\ CardBackTriesLast'
  BY <1>1 DEF IInv, FutureIsUnborn, CardBackTriesLast, panelVars
<1>5. SelectionIsFetched'
  BY <1>1 DEF IInv, SelectionIsFetched, panelVars
<1>6. QueueIsPosted'
  <2>1. CASE callbacks' = callbacks /\ thread'[g].stage # "posted"
    BY <2>1, <1>1 DEF IInv, QueueIsPosted, TypeOK
  <2>2. CASE callbacks' = Append(callbacks, g) /\ thread'[g].stage = "posted"
    <3>1. /\ Len(callbacks') = Len(callbacks) + 1
          /\ \A i \in 1 .. Len(callbacks) : callbacks'[i] = callbacks[i]
          /\ callbacks'[Len(callbacks) + 1] = g
          /\ Len(callbacks) \in Nat
          /\ \A i \in 1 .. Len(callbacks) : callbacks[i] \in Gens
      BY <2>2 DEF IInv, TypeOK
    <3>2. \A i \in 1 .. Len(callbacks) : callbacks[i] # g
      BY <3>1, <1>1 DEF IInv, QueueIsPosted
    <3> QED BY <3>1, <3>2, <2>2, <1>1 DEF IInv, QueueIsPosted
  <2> QED BY <2>1, <2>2, <1>2
<1>7. ScreenIsCurrent'
  BY <1>1 DEF IInv, ScreenIsCurrent, SelectionIsFetched, panelVars
<1> QED BY <1>3, <1>4, <1>5, <1>6, <1>7 DEF IInv

-----------------------------------------------------------------------------
\* A callback leaves the queue for good, and paints only its own generation.
LEMMA RunCallbackKeepsIInv == IInv /\ RunCallback => IInv'
<1> SUFFICES ASSUME IInv, RunCallback PROVE IInv'
  OBVIOUS
<1> USE PanelAssumption
<1> DEFINE g == Head(callbacks)
<1>1. /\ Len(callbacks) \in Nat /\ Len(callbacks) > 0
      /\ g \in Gens /\ g = callbacks[1]
      /\ Len(callbacks') = Len(callbacks) - 1
      /\ \A i \in 1 .. Len(callbacks') : callbacks'[i] = callbacks[i + 1]
      /\ callbacks' \in Seq(Gens)
  BY DEF RunCallback, IInv, TypeOK
<1>2. thread[g].stage = "posted"
  BY <1>1 DEF IInv, QueueIsPosted
<1>3. thread[g] \in Threads
  BY <1>1 DEF IInv, TypeOK
<1> HIDE DEF g
<1>4. /\ thread' \in [Gens -> Threads]
      /\ \A h \in Gens \ {g} : thread'[h] = thread[h]
      /\ thread'[g].key = thread[g].key
      /\ thread'[g].stage = "over"
  <2> DEFINE r == [thread[g] EXCEPT !.stage = "over", !.payload = "none"]
  <2>1. r \in Threads /\ r.key = thread[g].key /\ r.stage = "over"
    BY <1>3 DEF Threads, Stages, Payloads
  <2>2. thread' = [thread EXCEPT ![g] = r]
    BY DEF RunCallback, g
  <2> HIDE DEF r
  <2> QED BY <1>1, <2>1, <2>2 DEF IInv, TypeOK
<1>5. UNCHANGED <<card, lastFetchedId, currentGen, alive>>
  BY DEF RunCallback
<1>6. /\ bitmap' \in Bitmaps
      /\ status' \in Statuses
      /\ bitmap' # bitmap \/ status' # status => Accepted(g)
      /\ Accepted(g) => status' # "loading"
      /\ Accepted(g) /\ bitmap'.kind # "placeholder" => bitmap'.key = thread[g].key
  <2>1. CASE Accepted(g)
    <3>1. Paint(g)
      BY <2>1 DEF RunCallback, g
    <3>2. \/ bitmap' = Placeholder
          \/ /\ thread[g].payload # "none"
             /\ bitmap' = [kind |-> thread[g].payload, key |-> thread[g].key]
      BY <3>1 DEF Paint
    <3>3. status' \in Statuses /\ status' # "loading"
      BY <3>1 DEF Paint, Statuses
    <3> QED BY <2>1, <3>2, <3>3, <1>3, ConstantsAreTyped
            DEF Placeholder, Bitmaps, Threads, Payloads
  <2>2. CASE ~ Accepted(g)
    BY <2>2 DEF RunCallback, g, IInv, TypeOK
  <2> QED BY <2>1, <2>2
<1>7. TypeOK'
  BY <1>1, <1>4, <1>5, <1>6 DEF IInv, TypeOK
<1>8. FutureIsUnborn' /\ CardBackTriesLast'
  BY <1>1, <1>2, <1>4, <1>5 DEF IInv, FutureIsUnborn, CardBackTriesLast
<1>9. SelectionIsFetched'
  <2>1. card.id = NoId => ~ Accepted(g)
    BY <1>1, <1>2 DEF IInv, SelectionIsFetched, Accepted
  <2> QED BY <2>1, <1>1, <1>2, <1>4, <1>5, <1>6 DEF IInv, SelectionIsFetched
<1>10. QueueIsPosted'
  <2>1. \A i \in 1 .. Len(callbacks') : i + 1 \in 1 .. Len(callbacks) /\ callbacks[i + 1] \in Gens
    BY <1>1 DEF IInv, TypeOK
  <2>2. \A i \in 1 .. Len(callbacks') : callbacks'[i] # g
    BY <1>1, <2>1 DEF IInv, QueueIsPosted
  <2>3. \A i \in 1 .. Len(callbacks') : thread'[callbacks'[i]].stage = "posted"
    BY <1>1, <1>4, <2>1, <2>2 DEF IInv, QueueIsPosted
  <2>4. ASSUME NEW i \in 1 .. Len(callbacks'), NEW j \in 1 .. Len(callbacks'),
               callbacks'[i] = callbacks'[j]
        PROVE  i = j
    <3>1. callbacks[i + 1] = callbacks[j + 1]
      BY <2>4, <1>1
    <3>2. i + 1 = j + 1
      BY <3>1, <2>1 DEF IInv, QueueIsPosted
    <3> QED BY <3>2
  <2>5. ASSUME NEW h \in Gens, thread'[h].stage = "posted"
        PROVE  \E i \in 1 .. Len(callbacks') : callbacks'[i] = h
    <3>1. h # g /\ thread[h].stage = "posted"
      BY <1>4, <2>5
    <3>2. PICK i \in 1 .. Len(callbacks) : callbacks[i] = h
      BY <3>1 DEF IInv, QueueIsPosted
    <3>3. i - 1 \in 1 .. Len(callbacks') /\ callbacks'[i - 1] = h
      BY <3>1, <3>2, <1>1
    <3> QED BY <3>3
  <2> QED BY <2>3, <2>4, <2>5 DEF QueueIsPosted
<1>11. ScreenIsCurrent'
  <2> SUFFICES ASSUME card.id # NoId
               PROVE  /\ thread'[currentGen].stage # "over" => status' = "loading" /\ bitmap' = Placeholder
                      /\ (thread'[currentGen].stage = "over" /\ alive) => status' # "loading"
                      /\ bitmap'.kind # "placeholder" => bitmap'.key = thread'[currentGen].key
    BY <1>5 DEF ScreenIsCurrent
  <2>1. currentGen \in Gens
    BY DEF IInv, SelectionIsFetched
  <2>2. CASE currentGen = g /\ alive
    BY <2>1, <2>2, <1>4, <1>6 DEF Accepted
  <2>3. CASE currentGen = g /\ ~ alive
    BY <2>1, <2>3, <1>4, <1>6 DEF Accepted, IInv, ScreenIsCurrent
  <2>4. CASE currentGen # g
    BY <2>1, <2>4, <1>4, <1>6 DEF Accepted, IInv, ScreenIsCurrent
  <2> QED BY <2>2, <2>3, <2>4
<1> QED BY <1>7, <1>8, <1>9, <1>10, <1>11 DEF IInv

-----------------------------------------------------------------------------
\* The invariant, for every step.
LEMMA NextKeepsIInv == IInv /\ [Next]_vars => IInv'
<1> SUFFICES ASSUME IInv, [Next]_vars PROVE IInv'
  OBVIOUS
<1>1. CASE SetCard
  BY <1>1, SetCardKeepsIInv
<1>2. CASE Destroy
  <2> USE <1>2 DEF Destroy, IInv
  <2>1. TypeOK'
    BY DEF TypeOK
  <2>2. FutureIsUnborn' /\ SelectionIsFetched' /\ QueueIsPosted' /\ CardBackTriesLast'
    BY DEF FutureIsUnborn, SelectionIsFetched, QueueIsPosted, CardBackTriesLast
  <2>3. ScreenIsCurrent'
    BY DEF ScreenIsCurrent
  <2> QED BY <2>1, <2>2, <2>3
<1>3. CASE RunCallback
  BY <1>3, RunCallbackKeepsIInv
<1>4. CASE \E g \in Gens : WorkerStep(g)
  BY <1>4, WorkerKeepsIInv
<1>5. CASE UNCHANGED vars
  BY <1>5 DEF vars, IInv, TypeOK, FutureIsUnborn, SelectionIsFetched,
              QueueIsPosted, CardBackTriesLast, ScreenIsCurrent
<1> QED BY <1>1, <1>2, <1>3, <1>4, <1>5 DEF Next

\* The inductive invariant holds in every behaviour.
THEOREM Invariance == SafeSpec => []IInv
BY InitEstablishesIInv, NextKeepsIInv, PTL DEF SafeSpec

\* The variables of the panel, its workers and its callbacks keep their types.
THEOREM TypeCorrect == SafeSpec => []TypeOK
<1>1. IInv => TypeOK
  BY DEF IInv
<1> QED BY <1>1, Invariance, PTL

\* No late answer for an earlier selection is ever painted.
THEOREM OnlyTheCurrentFetchIsPainted == SafeSpec => []PaintsOnlyTheCurrentFetch
<1>1. IInv => PaintsOnlyTheCurrentFetch
  BY DEF IInv, PaintsOnlyTheCurrentFetch, SelectionIsFetched, ScreenIsCurrent,
         FetchedKey, Placeholder
<1> QED BY <1>1, Invariance, PTL

\* The loading text is on screen exactly while its callback is on the way.
THEOREM LoadingIsPending == SafeSpec => []LoadingMeansPending
<1>1. ASSUME IInv PROVE LoadingMeansPending
  <2> SUFFICES ASSUME alive PROVE LoadingMeansPending
    BY DEF LoadingMeansPending
  <2>1. CASE card.id = NoId
    BY <1>1, <2>1 DEF IInv, LoadingMeansPending, SelectionIsFetched
  <2>2. CASE card.id # NoId
    <3> DEFINE t == thread[currentGen]
    <3>1. /\ currentGen \in Gens /\ t.stage # "unborn"
          /\ t.stage \in Stages
          /\ status = "loading" <=> t.stage # "over"
      BY <1>1, <2>2 DEF IInv, SelectionIsFetched, ScreenIsCurrent, TypeOK, Threads
    <3>2. t.stage = "posted" <=> \E i \in 1 .. Len(callbacks) : callbacks[i] = currentGen
      BY <1>1, <3>1 DEF IInv, QueueIsPosted
    <3> QED BY <2>2, <3>1, <3>2 DEF LoadingMeansPending, Stages
  <2> QED BY <2>1, <2>2
<1> QED BY <1>1, Invariance, PTL

\* Nothing touches a destroyed panel.
THEOREM DestroyedIsUntouched == SafeSpec => NothingAfterDestroy
<1>1. IInv /\ [Next]_vars => [~ alive => UNCHANGED panelVars]_vars
  <2> SUFFICES ASSUME Next, ~ alive PROVE UNCHANGED panelVars
    OBVIOUS
  <2>1. CASE SetCard
    BY <2>1 DEF SetCard
  <2>2. CASE Destroy
    BY <2>2 DEF Destroy
  <2>3. CASE RunCallback
    BY <2>3 DEF RunCallback, Accepted, panelVars
  <2>4. CASE \E g \in Gens : WorkerStep(g)
    BY <2>4 DEF WorkerStep, FetchPreviewBytes, FetchCardBack, PostCallback
  <2> QED BY <2>1, <2>2, <2>3, <2>4 DEF Next
<1> QED BY <1>1, Invariance, PTL DEF SafeSpec, NothingAfterDestroy

-----------------------------------------------------------------------------
(***************************************************************************)
(* Refinement: every step of the panel is a step of PreviewDisplay or      *)
(* changes nothing that is on screen.                                      *)
(***************************************************************************)

\* A settled callback shows one of the outcomes of the current fetch.
LEMMA PaintSettles ==
    ASSUME IInv, RunCallback, Accepted(Head(callbacks))
    PROVE  Display!Settle
<1> DEFINE g == Head(callbacks)
<1>1. /\ Len(callbacks) \in Nat /\ Len(callbacks) > 0 /\ g = callbacks[1]
      /\ g \in Gens /\ thread[g] \in Threads
  BY DEF RunCallback, IInv, TypeOK
<1>2. thread[g].stage = "posted" /\ g = currentGen /\ alive
  BY <1>1 DEF IInv, QueueIsPosted, Accepted
<1>3. card.id # NoId
  BY <1>1, <1>2 DEF IInv, SelectionIsFetched
<1>4. status = "loading" /\ bitmap = Placeholder
  BY <1>1, <1>2, <1>3 DEF IInv, ScreenIsCurrent
<1>5. Paint(g) /\ UNCHANGED <<card, currentGen, alive>>
  BY DEF RunCallback
<1>6. FetchedKey' = FetchedKey /\ FetchedKey = thread[g].key
  <2>1. thread'[g].key = thread[g].key
    BY <1>1 DEF RunCallback, Threads, IInv, TypeOK
  <2> QED BY <2>1, <1>2, <1>3, <1>5 DEF FetchedKey
<1>7. Shown' \in Display!Outcomes(FetchedKey)
  <2>0. thread[g].payload \in {"none", "preview", "cardBack"}
    BY <1>1 DEF Threads, Payloads
  <2>1. CASE bitmap' = Placeholder /\ status' = "unavailable"
    BY <2>1 DEF Shown, Placeholder, Display!Outcomes
  <2>2. CASE bitmap' = Placeholder /\ status' = "undecodable"
    BY <2>2 DEF Shown, Placeholder, Display!Outcomes
  <2>3. CASE /\ thread[g].payload # "none"
             /\ bitmap' = [kind |-> thread[g].payload, key |-> thread[g].key]
             /\ status' # "loading"
    BY <2>0, <2>3, <1>6 DEF Shown, Display!Outcomes
  <2> QED BY <2>1, <2>2, <2>3, <1>5 DEF Paint
<1>8. Shown = Display!Loading
  BY <1>4 DEF Shown, Display!Loading
<1> QED BY <1>2, <1>5, <1>6, <1>7, <1>8 DEF Display!Settle

\* Every step is one of the display's, or not seen by it.
LEMMA StepRefines == IInv /\ [Next]_vars => [Display!Next]_(Display!vars)
<1> SUFFICES ASSUME IInv, [Next]_vars PROVE Display!Next \/ UNCHANGED Display!vars
  OBVIOUS
<1> USE DEF Display!vars
<1>1. ASSUME NEW c \in Cards \cup {NoCard}, RepaintDetails(c) PROVE UNCHANGED Display!vars
  BY <1>1 DEF RepaintDetails, FetchTargetChanged, IInv, SelectionIsFetched, FetchedKey, Shown
<1>2. ASSUME alive, ClearSelection PROVE Display!Clear
  BY <1>2 DEF ClearSelection, Display!Clear, Display!Blank, FetchedKey, Shown, NoCard, Placeholder
<1>3. ASSUME alive, NEW c \in Cards, StartPreviewFetch(c) PROVE Display!Next
  <2>1. c.key \in Keys /\ c.id # NoId /\ currentGen + 1 \in Gens /\ currentGen' = currentGen + 1
    BY <1>3, PanelAssumption DEF Cards, StartPreviewFetch, IInv, TypeOK, Gens
  <2>2. thread'[currentGen'].key = c.key
    BY <1>3, <2>1 DEF StartPreviewFetch, Worker, IInv, TypeOK
  <2>3. FetchedKey' = c.key
    BY <1>3, <2>1, <2>2 DEF StartPreviewFetch, FetchedKey
  <2>4. Shown' = Display!Loading
    BY <1>3 DEF StartPreviewFetch, Shown, Display!Loading
  <2>5. Display!Aim(c.key)
    BY <1>3, <2>3, <2>4 DEF StartPreviewFetch, Display!Aim
  <2> QED BY <2>1, <2>5 DEF Display!Next
<1>4. CASE SetCard
  BY <1>1, <1>2, <1>3, <1>4 DEF SetCard, Display!Next
<1>5. CASE Destroy
  BY <1>5 DEF Destroy, Display!Next, Display!Close, FetchedKey, Shown
<1>6. CASE RunCallback
  <2>1. CASE Accepted(Head(callbacks))
    BY <1>6, <2>1, PaintSettles DEF Display!Next
  <2>2. CASE ~ Accepted(Head(callbacks))
    <3>1. Head(callbacks) \in Gens
      BY <1>6 DEF RunCallback, IInv, TypeOK
    <3>2. UNCHANGED <<card, currentGen, alive, bitmap, status>>
      BY <1>6, <2>2 DEF RunCallback
    <3>3. \A h \in Gens : thread'[h].key = thread[h].key
      BY <1>6, <3>1 DEF RunCallback, IInv, TypeOK, Threads
    <3>4. FetchedKey' = FetchedKey
      BY <3>2, <3>3 DEF FetchedKey, IInv, SelectionIsFetched
    <3> QED BY <3>2, <3>4 DEF Shown
  <2> QED BY <2>1, <2>2
<1>7. CASE \E g \in Gens : WorkerStep(g)
  <2>1. PICK g \in Gens : WorkerStep(g)
    BY <1>7
  <2>2. UNCHANGED panelVars
    BY <2>1 DEF WorkerStep, FetchPreviewBytes, FetchCardBack, PostCallback
  <2>3. \A h \in Gens : thread'[h].key = thread[h].key
    BY <2>1, WorkerStepAdvances
  <2>4. FetchedKey' = FetchedKey
    BY <2>2, <2>3 DEF panelVars, FetchedKey, IInv, SelectionIsFetched
  <2> QED BY <2>2, <2>4 DEF panelVars, Shown
<1>8. CASE UNCHANGED vars
  BY <1>8 DEF vars, FetchedKey, Shown
<1> QED BY <1>4, <1>5, <1>6, <1>7, <1>8 DEF Next

\* The safety part of "the panel implements the abstract preview display".
THEOREM Refinement == SafeSpec => Display!SafeSpec
<1>1. Init => Display!Init
  BY DEF Init, Display!Init, Display!Blank, FetchedKey, Shown, NoCard, Placeholder
<1> QED BY <1>1, StepRefines, Invariance, PTL DEF SafeSpec, Display!SafeSpec

-----------------------------------------------------------------------------
(***************************************************************************)
(* The preview sources.  What an answer owes to what was heard and asked,  *)
(* and what a request under way has to know so that it can pay.            *)
(***************************************************************************)

Verdicts == {"ok", "down", "bad"}
AllAnswered(h)  == \A i \in 1 .. Len(h) : h[i] = "ok"
SomeAnswered(h) == \E i \in 1 .. Len(h) : h[i] = "ok"

\* A miss is confirmed by the upstreams that the source's verdict rests on.
HonestMiss(s, a, res, h) ==
    res.kind = "NotFound" /\ h # <<>> =>
      /\ s \in {"magic", "yugioh", "digi"} => AllAnswered(h)
      /\ s \in {"pokemon", "bandai"} => h[Len(h)] = "ok"
      /\ s \notin {"magic", "yugioh", "digi", "pokemon", "bandai"} =>
           Japanese!HasPrintsForSet(a.set) \/ SomeAnswered(h)

\* A Japanese card's image is of its number.
HonestImage(s, a, res) ==
    s = "japanese" /\ res.kind = "Image" /\ WithoutTotal(a.no) # NoNumber =>
      LocalIdsMatch(res.of[1].no, WithoutTotal(a.no))

\* The number of a print is the one that was asked for, as the source compares them.
IsTheNumber(s, a, no) ==
    CASE s \in {"pokemon", "japanese"} -> LocalIdsMatch(no, WithoutTotal(a.no))
      [] s = "yugioh" -> DigitsEqual(no, a.no)
      [] s = "bandai" -> NormalizeCardNumber(no) = NormalizeCardNumber(a.no)
      [] OTHER -> CardNumbersMatch(a.no, no)

HonestNumbers(s, a, res) ==
    res.kind = "Prints" /\ a.op = "byNumber" =>
      \A i \in DOMAIN res.of : IsTheNumber(s, a, res.of[i].no)

\* Two prints of one answer differ in what the source tells prints apart by.
Differ(s, a, p, q) ==
    \/ p.no # q.no
    \/ /\ s # "digi" /\ s # "japanese"
       /\ p.rarity # q.rarity \/ (a.op = "byNumber" /\ p.name # q.name)

HonestPrints(s, a, res) ==
    res.kind = "Prints" /\ s # "bandai" =>
      \A i, j \in DOMAIN res.of : i # j => Differ(s, a, res.of[i], res.of[j])

Honest(s, a, res, h) ==
    HonestMiss(s, a, res, h) /\ HonestImage(s, a, res) /\ HonestNumbers(s, a, res) /\ HonestPrints(s, a, res)

NameRequests   == {"names", "namesAnywhere", "detail", "nameSearch"}
NumberRequests == {"numberById", "numberSearch", "number", "cardset", "askNumber", "gallery",
                   "numbers", "numbersAnywhere"}

\* The catalogue's prints that wait while the card sets are asked for.
KeptPrints(a, k) ==
    /\ \A i \in DOMAIN k : DigitsEqual(k[i].no, a.no)
    /\ \A i, j \in DOMAIN k : i # j => k[i].name # k[j].name

\* The request r of the call a may be under way, keeping k, after h was heard.
Pending(a, r, k, h) ==
    /\ r \in NameRequests => a.op = "byName"
    /\ r \in NumberRequests => a.op = "byNumber"
    /\ r \in {"Begin", "search", "yugipedia"} => h = <<>>
    /\ r = "fallback" => k \in BOOLEAN /\ (~ k => AllAnswered(h))
    /\ r = "imageChosen" => /\ SomeAnswered(h)
                            /\ WithoutTotal(a.no) # NoNumber => LocalIdsMatch(k, WithoutTotal(a.no))
    /\ r = "number" => WithoutTotal(a.no) # NoNumber
    /\ r = "askNumber" => a.no # NoNumber
    /\ r = "cardset" => KeptPrints(a, k)

IsCatalog(c) == c = Nothing \/ c \in Seq(ToSet(c))

SourcesTypeOK ==
    /\ source \in DOMAIN RowsOf /\ ask \in AsksOf[source]
    /\ heard \in Seq(Verdicts)
    /\ IsCatalog(catalogFile) /\ IsCatalog(catalogCache)

SourcesInv ==
    /\ SourcesTypeOK
    /\ at = "Idle" => result = Nothing \/ Honest(source, ask, result, heard)
    /\ at # "Idle" => result = Nothing /\ Pending(ask, at, kept, heard)

-----------------------------------------------------------------------------
\* What the steps of all sources have in common.

\* A reply is heard: the history grows by it.
LEMMA HeardGrows ==
    ASSUME heard \in Seq(Verdicts), NEW reply, Hears(reply)
    PROVE  /\ heard' \in Seq(Verdicts) /\ heard' # <<>>
           /\ SomeAnswered(heard) => SomeAnswered(heard')
           /\ Spoke(reply) => /\ heard'[Len(heard')] = "ok" /\ SomeAnswered(heard')
                              /\ AllAnswered(heard) => AllAnswered(heard')
<1> DEFINE v == CASE reply = Down -> "down" [] reply = Bad -> "bad" [] OTHER -> "ok"
<1>1. v \in Verdicts /\ (Spoke(reply) => v = "ok")
  BY DEF Verdicts, Spoke
<1>2. heard' = Append(heard, v)
  BY DEF Hears
<1> HIDE DEF v
<1>3. /\ heard' \in Seq(Verdicts) /\ Len(heard) \in Nat /\ Len(heard') = Len(heard) + 1
      /\ \A i \in 1 .. Len(heard) : heard'[i] = heard[i]
      /\ heard'[Len(heard')] = v
  BY <1>1, <1>2
<1>4. heard' # <<>>
  BY <1>3
<1>5. SomeAnswered(heard) => SomeAnswered(heard')
  BY <1>3 DEF SomeAnswered
<1>6. ASSUME Spoke(reply)
      PROVE  /\ heard'[Len(heard')] = "ok" /\ SomeAnswered(heard')
             /\ AllAnswered(heard) => AllAnswered(heard')
  <2>1. heard'[Len(heard')] = "ok" /\ Len(heard') \in 1 .. Len(heard')
    BY <1>1, <1>3, <1>6
  <2>2. \A i \in 1 .. Len(heard') : i \in 1 .. Len(heard) \/ i = Len(heard')
    BY <1>3
  <2> QED BY <1>3, <2>1, <2>2 DEF SomeAnswered, AllAnswered
<1> QED BY <1>3, <1>4, <1>5, <1>6

\* The end of a call, and a request within it.
Ends(res)  == at' = "Idle" /\ result' = res /\ UNCHANGED <<source, ask>>
Goes(r, k) == at' = r /\ kept' = k /\ UNCHANGED <<source, ask, result>>

SourcesSteady == heard' \in Seq(Verdicts) /\ IsCatalog(catalogFile)' /\ IsCatalog(catalogCache)'

LEMMA EndKeepsInv ==
    ASSUME SourcesInv, SourcesSteady, NEW res, Ends(res), Honest(source, ask, res, heard')
    PROVE  SourcesInv'
BY DEF SourcesInv, SourcesTypeOK, SourcesSteady, Ends

LEMMA RequestKeepsInv ==
    ASSUME SourcesInv, SourcesSteady, at # "Idle", NEW r, NEW k, r # "Idle", Goes(r, k),
           Pending(ask, r, k, heard')
    PROVE  SourcesInv'
BY DEF SourcesInv, SourcesTypeOK, SourcesSteady, Goes

\* Transient and Error claim nothing.
LEMMA NoClaim ==
    ASSUME NEW s, NEW a, NEW h, NEW res, res.kind \in {"Transient", "Error"}
    PROVE  Honest(s, a, res, h)
BY DEF Honest, HonestMiss, HonestImage, HonestNumbers, HonestPrints

\* A list that an upstream sends is a sequence of rows.
LEMMA ListsAreSequences ==
    /\ Lists \subseteq Seq(Rows)
    /\ \A reply \in ListReplies : Spoke(reply) => reply \in Seq(Rows)
    /\ \A S, reply : reply \in CardReplies(S) /\ Spoke(reply) => \E r \in S : reply = <<r>>
<1>1. ASSUME NEW s \in Lists PROVE s \in Seq(Rows)
  <2>1. PICK n \in 0 .. MaxRows : s \in [1 .. n -> Rows]
    BY DEF Lists
  <2>2. n \in Nat
    BY <2>1, LookupAssumption
  <2> QED BY <2>1, <2>2
<1> QED BY <1>1 DEF ListReplies, CardReplies, Spoke

\* Cutting off the total does not change whether two numbers match.
LEMMA CutNumbersMatch ==
    ASSUME NEW m \in Numbers, NEW n \in Numbers, LocalIdsMatch(m, WithoutTotal(n))
    PROVE  LocalIdsMatch(WithoutTotal(m), WithoutTotal(n))
<1>1. /\ m \in [pre : STRING, val : Nat, pad : BOOLEAN, total : BOOLEAN]
      /\ n \in [pre : STRING, val : Nat, pad : BOOLEAN, total : BOOLEAN]
      /\ m.pre = "" /\ m.val = 0 => m = NoNumber
  BY DEF Numbers
<1>2. WithoutTotal(m).pre = m.pre /\ WithoutTotal(m).val = m.val
  BY <1>1 DEF WithoutTotal
<1>3. NoNumber.pre = "" /\ NoNumber.val = 0
  BY DEF NoNumber, Number
<1>4. WithoutTotal(m) # NoNumber
  BY <1>1, <1>2, <1>3 DEF LocalIdsMatch
<1>5. m = WithoutTotal(n) => WithoutTotal(m) = WithoutTotal(n)
  BY <1>1 DEF WithoutTotal
<1> QED BY <1>2, <1>4, <1>5 DEF LocalIdsMatch

\* Neither does an image of another source than the Japanese one, nor a miss where the
\* upstream asked last decides and has answered.
LEMMA ImageElsewhere ==
    ASSUME NEW s, s # "japanese", NEW a, NEW h, NEW res, res.kind = "Image"
    PROVE  Honest(s, a, res, h)
BY DEF Honest, HonestMiss, HonestImage, HonestNumbers, HonestPrints

LEMMA MissHeardLast ==
    ASSUME NEW s \in {"pokemon", "bandai"}, NEW a, NEW h, NEW res, res.kind = "NotFound",
           h[Len(h)] = "ok"
    PROVE  Honest(s, a, res, h)
BY DEF Honest, HonestMiss, HonestImage, HonestNumbers, HonestPrints

\* What a loop keeps was listed and passes.
LEMMA KeptPasses ==
    ASSUME NEW X, NEW s \in Seq(X), NEW S
    PROVE  /\ KeepIn(s, S) \in Seq(X)
           /\ \A n \in DOMAIN KeepIn(s, S) : KeepIn(s, S)[n] \in S /\ KeepIn(s, S)[n] \in X
           /\ KeepIn(s, S) # <<>> => Head(KeepIn(s, S)) \in S /\ Head(KeepIn(s, S)) \in X
<1> DEFINE t == KeepIn(s, S)
<1>1. t \in Seq(X) /\ \A n \in 1 .. Len(t) : t[n] \in S
  BY KeptWasThere
<1> HIDE DEF t
<1>2. DOMAIN t = 1 .. Len(t) /\ \A n \in 1 .. Len(t) : t[n] \in X
  BY <1>1
<1>3. t # <<>> => 1 \in 1 .. Len(t) /\ Head(t) = t[1]
  BY <1>1
<1> QED BY <1>1, <1>2, <1>3 DEF t

-----------------------------------------------------------------------------
\* Magic: one search.

LEMMA MagicKeepsInv ==
    ASSUME SourcesInv, source = "magic", Magic!Next, UNCHANGED <<source, catalogVars>>
    PROVE  SourcesInv'
<1>0. heard \in Seq(Verdicts) /\ IsCatalog(catalogFile)' /\ IsCatalog(catalogCache)'
  BY DEF SourcesInv, SourcesTypeOK, catalogVars, IsCatalog
<1>1. CASE Magic!BuildSearchUrl
  <2>1. Goes("search", kept) /\ heard' = heard /\ at = "Begin"
    BY <1>1 DEF Magic!BuildSearchUrl, Magic!Starts, Magic!Ask, Goes
  <2>2. Pending(ask, "search", kept, heard')
    BY <2>1 DEF SourcesInv, Pending, NameRequests, NumberRequests
  <2> QED BY <1>0, <2>1, <2>2, RequestKeepsInv DEF SourcesSteady
<1>2. CASE Magic!FetchImageUrl
  <2>1. at = "search" /\ heard = <<>>
    BY <1>2 DEF Magic!FetchImageUrl, SourcesInv, Pending
  <2>2. PICK reply : Hears(reply) /\ Ends(Magic!ParseResponse(reply))
    BY <1>2 DEF Magic!FetchImageUrl, Magic!Hears, Magic!Answer, Hears, Ends
  <2>3. SourcesSteady
    BY <1>0, <2>2, HeardGrows DEF SourcesSteady
  <2>4. AllAnswered(heard)
    BY <2>1 DEF AllAnswered
  <2>5. Honest(source, ask, Magic!ParseResponse(reply), heard')
    <3>1. CASE ~ Spoke(reply)
      BY <3>1, NoClaim DEF Magic!ParseResponse, Magic!Spoke, Spoke, Magic!Transient
    <3>2. CASE Spoke(reply)
      <4>1. AllAnswered(heard')
        BY <1>0, <2>2, <2>4, <3>2, HeardGrows
      <4>2. Magic!ParseResponse(reply).kind \in {"NotFound", "Image"}
        BY <3>2 DEF Magic!ParseResponse, Magic!Spoke, Spoke, Magic!NotFound, Magic!Image
      <4> QED BY <4>1, <4>2 DEF Honest, HonestMiss, HonestImage, HonestNumbers, HonestPrints
    <3> QED BY <3>1, <3>2
  <2> QED BY <2>2, <2>3, <2>5, EndKeepsInv
<1> QED BY <1>1, <1>2 DEF Magic!Next

-----------------------------------------------------------------------------
\* Pokemon: prints by name and number, for the western sets.

\* The source's copies of the loops are the loops of Filtering.
LEMMA PokemonFilters ==
    /\ \A s, at_ : Pokemon!ElementsAt(s, at_) = ElementsAt(s, at_)
    /\ \A s, S : Pokemon!KeepIn(s, S) = KeepIn(s, S)
<1>1. \A s, at_ : Pokemon!ElementsAt(s, at_) = ElementsAt(s, at_)
  BY Zenon DEF Pokemon!ElementsAt, ElementsAt, Pokemon!Kth, Kth, Pokemon!Before, Before,
               Pokemon!Cardinality, Cardinality
<1> QED BY <1>1 DEF Pokemon!KeepIn, KeepIn

\* It compares numbers as the others do.
LEMMA PokemonCompares ==
    /\ \A m : Pokemon!WithoutTotal(m) = WithoutTotal(m)
    /\ \A m, n : Pokemon!LocalIdsMatch(m, n) = LocalIdsMatch(m, n)
    /\ Pokemon!NoNumber = NoNumber /\ Pokemon!No = WithoutTotal(ask.no)
    /\ \A r : Pokemon!PrintOf(r) = [name |-> r.name, no |-> WithoutTotal(r.no), rarity |-> r.rarity]
<1>1. \A m : Pokemon!WithoutTotal(m) = WithoutTotal(m)
  BY DEF Pokemon!WithoutTotal, WithoutTotal
<1>2. Pokemon!NoNumber = NoNumber
  BY DEF Pokemon!NoNumber, NoNumber, Pokemon!Number, Number
<1>3. \A m, n : Pokemon!LocalIdsMatch(m, n) = LocalIdsMatch(m, n)
  BY <1>2 DEF Pokemon!LocalIdsMatch, LocalIdsMatch
<1> QED BY <1>1, <1>2, <1>3 DEF Pokemon!No, Pokemon!PrintOf

PokemonPrints == {Pokemon!PrintOf(r) : r \in Rows}

LEMMA PokemonPrintsOfRows ==
    ASSUME NEW s \in Seq(Rows)
    PROVE  /\ Pokemon!PrintsOf(s) \in Seq(PokemonPrints)
           /\ DOMAIN Pokemon!PrintsOf(s) = DOMAIN s
           /\ \A i \in DOMAIN s : Pokemon!PrintsOf(s)[i] = Pokemon!PrintOf(s[i])
<1>1. DOMAIN s = 1 .. Len(s) /\ Len(s) \in Nat /\ \A i \in 1 .. Len(s) : s[i] \in Rows
  OBVIOUS
<1>2. Pokemon!PrintsOf(s) = [i \in 1 .. Len(s) |-> Pokemon!PrintOf(s[i])]
  BY <1>1 DEF Pokemon!PrintsOf
<1>3. \A i \in 1 .. Len(s) : Pokemon!PrintOf(s[i]) \in PokemonPrints
  BY <1>1 DEF PokemonPrints
<1> QED BY <1>1, <1>2, <1>3

\* One print per number and rarity.
LEMMA PokemonNamesDiffer ==
    ASSUME NEW s \in Seq(PokemonPrints), NEW a, a.op = "byName", NEW h
    PROVE  Honest("pokemon", a, Pokemon!Prints(Pokemon!FirstOfEach(s, Pokemon!NameKey)), h)
<1> DEFINE K == [n \in DOMAIN s |-> Pokemon!NameKey(s[n])]
           t == Firsts(s, K)
<1>1. Pokemon!FirstOfEach(s, Pokemon!NameKey) = t
  <2>1. \A n \in DOMAIN s : \A m \in 1 .. n - 1 : m \in DOMAIN s
    OBVIOUS
  <2>2. {n \in DOMAIN s : \A m \in 1 .. n - 1 : K[m] # K[n]} =
          {n \in DOMAIN s : \A m \in 1 .. n - 1 : Pokemon!NameKey(s[m]) # Pokemon!NameKey(s[n])}
    BY <2>1
  <2> QED BY <2>2, PokemonFilters DEF Pokemon!FirstOfEach, Firsts
<1>2. \A n \in DOMAIN s : K[n] = <<s[n].no, s[n].rarity>>
  BY DEF Pokemon!NameKey
<1> HIDE DEF K
<1>3. \A i, j \in DOMAIN t :
        i # j => \E m, n \in DOMAIN s : t[i] = s[m] /\ t[j] = s[n] /\ K[m] # K[n]
  BY FirstsDiffer
<1> HIDE DEF t
<1>4. ASSUME NEW i \in DOMAIN t, NEW j \in DOMAIN t, i # j
      PROVE  t[i].no # t[j].no \/ t[i].rarity # t[j].rarity
  <2>1. PICK m, n \in DOMAIN s : t[i] = s[m] /\ t[j] = s[n] /\ K[m] # K[n]
    BY <1>3, <1>4
  <2> QED BY <1>2, <2>1
<1> QED BY <1>1, <1>4 DEF Honest, HonestMiss, HonestImage, HonestNumbers, HonestPrints, Differ, Pokemon!Prints

\* One print as a whole, each with the number that was asked for.
LEMMA PokemonNumbersDiffer ==
    ASSUME NEW rows \in Seq(Rows), NEW h, source = "pokemon", ask.op = "byNumber", SourcesInv
    PROVE  Honest("pokemon", ask,
             Pokemon!Prints(Pokemon!FirstOfEach(Pokemon!PrintsOf(Pokemon!OfTheNumber(rows)),
                                                Pokemon!WholeKey)), h)
<1> DEFINE S == {r \in Rows : r.name # "" /\ LocalIdsMatch(r.no, WithoutTotal(ask.no))}
           found == KeepIn(rows, S)
           s == Pokemon!PrintsOf(found)
           K == [n \in DOMAIN s |-> s[n]]
           t == Firsts(s, K)
<1>1. found \in Seq(Rows) /\ \A n \in DOMAIN found : found[n] \in Rows /\ found[n] \in S
  BY KeptPasses
<1>2. Pokemon!OfTheNumber(rows) = found
  <2>1. S = {r \in Rows : r.name # "" /\ Pokemon!LocalIdsMatch(r.no, Pokemon!No)}
    BY PokemonCompares
  <2> HIDE DEF S
  <2> QED BY <2>1, PokemonFilters DEF Pokemon!OfTheNumber, Pokemon!Rows, Rows
<1> HIDE DEF found
<1>3. /\ s \in Seq(PokemonPrints) /\ DOMAIN s = DOMAIN found
      /\ \A n \in DOMAIN s : s[n] = Pokemon!PrintOf(found[n])
  BY <1>1, PokemonPrintsOfRows
<1> HIDE DEF s
<1>4. \A n \in DOMAIN s : LocalIdsMatch(s[n].no, WithoutTotal(ask.no))
  <2> SUFFICES ASSUME NEW n \in DOMAIN s PROVE LocalIdsMatch(s[n].no, WithoutTotal(ask.no))
    OBVIOUS
  <2>0. n \in DOMAIN found
    BY <1>3
  <2>1. found[n] \in Rows /\ LocalIdsMatch(found[n].no, WithoutTotal(ask.no))
    BY <1>1, <2>0
  <2>2. found[n].no \in Numbers /\ ask.no \in Numbers
    BY <2>1, SourcesAssumption DEF SourcesInv, SourcesTypeOK, Rows
  <2>3. s[n].no = WithoutTotal(found[n].no)
    BY <1>3, PokemonCompares
  <2> QED BY <2>1, <2>2, <2>3, CutNumbersMatch
<1>5. \A n \in DOMAIN s : s[n] = [name |-> s[n].name, no |-> s[n].no, rarity |-> s[n].rarity]
  BY <1>3 DEF Pokemon!PrintOf
<1>6. Pokemon!FirstOfEach(s, Pokemon!WholeKey) = t
  <2>1. \A n \in DOMAIN s : \A m \in 1 .. n - 1 : m \in DOMAIN s
    BY <1>3
  <2>2. {n \in DOMAIN s : \A m \in 1 .. n - 1 : K[m] # K[n]} =
          {n \in DOMAIN s : \A m \in 1 .. n - 1 : Pokemon!WholeKey(s[m]) # Pokemon!WholeKey(s[n])}
    BY <2>1 DEF Pokemon!WholeKey
  <2> QED BY <2>2, PokemonFilters DEF Pokemon!FirstOfEach, Firsts
<1>7. \A n \in DOMAIN s : K[n] = s[n]
  OBVIOUS
<1> HIDE DEF K
<1>8. /\ \A i \in DOMAIN t : \E m \in DOMAIN s : t[i] = s[m]
      /\ \A i, j \in DOMAIN t :
           i # j => \E m, n \in DOMAIN s : t[i] = s[m] /\ t[j] = s[n] /\ K[m] # K[n]
  BY <1>3, FirstsDiffer
<1> HIDE DEF t
<1>9. \A i \in DOMAIN t : LocalIdsMatch(t[i].no, WithoutTotal(ask.no))
  BY <1>4, <1>8
<1>10. ASSUME NEW i \in DOMAIN t, NEW j \in DOMAIN t, i # j
       PROVE  t[i].no # t[j].no \/ t[i].rarity # t[j].rarity \/ t[i].name # t[j].name
  <2>1. PICK m, n \in DOMAIN s : t[i] = s[m] /\ t[j] = s[n] /\ K[m] # K[n]
    BY <1>8, <1>10
  <2> QED BY <1>5, <1>7, <2>1
<1>11. Honest("pokemon", ask, Pokemon!Prints(t), h)
  BY <1>9, <1>10 DEF Honest, HonestMiss, HonestImage, HonestNumbers, HonestPrints, Differ,
                     IsTheNumber, Pokemon!Prints
<1> QED BY <1>2, <1>6, <1>11 DEF s

LEMMA PokemonSteps ==
    /\ \A reply : Pokemon!Hears(reply) <=> Hears(reply)
    /\ \A reply : Pokemon!Spoke(reply) <=> Spoke(reply)
    /\ Pokemon!ListReplies = ListReplies /\ Pokemon!Rows = Rows
    /\ \A S : Pokemon!CardReplies(S) = CardReplies(S)
BY DEF Pokemon!Hears, Hears, Pokemon!Spoke, Spoke, Pokemon!ListReplies, ListReplies, Pokemon!Lists, Lists,
       Pokemon!Rows, Rows, Pokemon!CardReplies, CardReplies

LEMMA PokemonKeepsInv ==
    ASSUME SourcesInv, source = "pokemon", Pokemon!Next, UNCHANGED <<source, catalogVars>>
    PROVE  SourcesInv'
<1>0. heard \in Seq(Verdicts) /\ IsCatalog(catalogFile)' /\ IsCatalog(catalogCache)'
  BY DEF SourcesInv, SourcesTypeOK, catalogVars, IsCatalog
<1>a. /\ heard' = heard => SourcesSteady
      /\ \A reply : Hears(reply) => SourcesSteady
  BY <1>0, HeardGrows DEF SourcesSteady
<1>1. CASE Pokemon!BeginImage
  <2>1. PICK r \in {"imageById", "imageSearch"} : Goes(r, kept) /\ heard' = heard /\ at = "Begin"
    BY <1>1 DEF Pokemon!BeginImage, Pokemon!Starts, Pokemon!Ask, Goes
  <2>2. Pending(ask, r, kept, heard')
    BY <2>1 DEF Pending, NameRequests, NumberRequests
  <2> QED BY <1>a, <2>1, <2>2, RequestKeepsInv
<1>2. CASE Pokemon!ParseCardByIdResponse
  <2>1. PICK reply :
          /\ Hears(reply) /\ at = "imageById"
          /\ Ends(Pokemon!Image(Head(reply))) \/ Goes("imageSearch", kept)
    BY <1>2, PokemonSteps DEF Pokemon!ParseCardByIdResponse, Pokemon!Answer, Pokemon!Ask, Ends, Goes
  <2>2. Pending(ask, "imageSearch", kept, heard')
    BY DEF Pending, NameRequests, NumberRequests
  <2>3. Honest(source, ask, Pokemon!Image(Head(reply)), heard')
    BY ImageElsewhere DEF Pokemon!Image
  <2> QED BY <1>a, <2>1, <2>2, <2>3, EndKeepsInv, RequestKeepsInv
<1>3. CASE Pokemon!ParseSearchResponse
  <2>1. PICK reply : Hears(reply)
                     /\ Ends(IF Spoke(reply) THEN Pokemon!FirstImage(reply) ELSE Pokemon!Transient)
    BY <1>3, PokemonSteps DEF Pokemon!ParseSearchResponse, Pokemon!Answer, Ends
  <2>2. Honest(source, ask, IF Spoke(reply) THEN Pokemon!FirstImage(reply) ELSE Pokemon!Transient, heard')
    <3>1. CASE Spoke(reply)
      <4>1. heard'[Len(heard')] = "ok"
        BY <1>0, <2>1, <3>1, HeardGrows
      <4>2. Pokemon!FirstImage(reply).kind \in {"NotFound", "Image"}
        BY DEF Pokemon!FirstImage, Pokemon!NotFound, Pokemon!Image
      <4> QED BY <3>1, <4>1, <4>2, ImageElsewhere, MissHeardLast
    <3>2. CASE ~ Spoke(reply)
      BY <3>2, NoClaim DEF Pokemon!Transient
    <3> QED BY <3>1, <3>2
  <2> QED BY <1>a, <2>1, <2>2, EndKeepsInv
<1>4. CASE Pokemon!BeginByName
  <2>1. PICK r \in {"detail", "nameSearch"} :
               Goes(r, kept) /\ heard' = heard /\ at = "Begin" /\ ask.op = "byName"
    BY <1>4 DEF Pokemon!BeginByName, Pokemon!Starts, Pokemon!Ask, Goes
  <2>2. Pending(ask, r, kept, heard')
    BY <2>1 DEF Pending, NameRequests, NumberRequests
  <2> QED BY <1>a, <2>1, <2>2, RequestKeepsInv
<1>5. CASE Pokemon!DetectFromSetDetail
  <2>1. at = "detail" /\ ask.op = "byName"
    BY <1>5 DEF Pokemon!DetectFromSetDetail, SourcesInv, Pending, NameRequests
  <2>2. PICK reply \in ListReplies :
          /\ Hears(reply)
          /\ \/ Spoke(reply) /\ Ends(Pokemon!Prints(Pokemon!ParsePrintVariants(reply)))
             \/ Goes("nameSearch", kept)
    BY <1>5, PokemonSteps DEF Pokemon!DetectFromSetDetail, Pokemon!Answer, Pokemon!Ask, Ends, Goes
  <2>3. Pending(ask, "nameSearch", kept, heard')
    BY <2>1 DEF Pending, NameRequests, NumberRequests
  <2>4. ASSUME Spoke(reply)
        PROVE  Honest(source, ask, Pokemon!Prints(Pokemon!ParsePrintVariants(reply)), heard')
    <3>1. reply \in Seq(Rows)
      BY <2>4, ListsAreSequences
    <3>2. PICK S : Pokemon!ParsePrintVariants(reply) =
                     Pokemon!FirstOfEach(Pokemon!PrintsOf(KeepIn(reply, S)), Pokemon!NameKey)
      BY PokemonFilters DEF Pokemon!ParsePrintVariants
    <3>3. KeepIn(reply, S) \in Seq(Rows)
      BY <3>1, KeptPasses
    <3> QED BY <2>1, <3>2, <3>3, PokemonPrintsOfRows, PokemonNamesDiffer
  <2> QED BY <1>a, <2>1, <2>2, <2>3, <2>4, EndKeepsInv, RequestKeepsInv
<1>6. CASE Pokemon!DetectFromSearch
  <2>1. at = "nameSearch" /\ ask.op = "byName"
    BY <1>6 DEF Pokemon!DetectFromSearch, SourcesInv, Pending, NameRequests
  <2>2. PICK reply \in ListReplies : \E S :
          LET found == Pokemon!FirstOfEach(Pokemon!PrintsOf(KeepIn(reply, S)), Pokemon!NameKey)
          IN  Hears(reply) /\ Ends(IF Spoke(reply) THEN Pokemon!PrintsOrError(found) ELSE Pokemon!Error)
    BY <1>6, PokemonSteps, PokemonFilters DEF Pokemon!DetectFromSearch, Pokemon!Answer, Ends
  <2>3. PICK S :
          LET found == Pokemon!FirstOfEach(Pokemon!PrintsOf(KeepIn(reply, S)), Pokemon!NameKey)
          IN  Hears(reply) /\ Ends(IF Spoke(reply) THEN Pokemon!PrintsOrError(found) ELSE Pokemon!Error)
    BY <2>2
  <2> DEFINE found == Pokemon!FirstOfEach(Pokemon!PrintsOf(KeepIn(reply, S)), Pokemon!NameKey)
             res == IF Spoke(reply) THEN Pokemon!PrintsOrError(found) ELSE Pokemon!Error
  <2>4. Honest(source, ask, Pokemon!Error, heard')
    BY NoClaim DEF Pokemon!Error
  <2>5. ASSUME Spoke(reply) PROVE Honest(source, ask, Pokemon!Prints(found), heard')
    <3>1. reply \in Seq(Rows)
      BY <2>5, ListsAreSequences
    <3>2. KeepIn(reply, S) \in Seq(Rows)
      BY <3>1, KeptPasses
    <3> QED BY <2>1, <3>2, PokemonPrintsOfRows, PokemonNamesDiffer
  <2> HIDE DEF found
  <2>6. Honest(source, ask, res, heard')
    BY <2>4, <2>5 DEF Pokemon!PrintsOrError
  <2>7. Hears(reply) /\ Ends(res)
    BY <2>3 DEF found
  <2> QED BY <1>a, <2>6, <2>7, EndKeepsInv
<1>7. CASE Pokemon!BeginByNumber
  <2>1. /\ heard' = heard /\ at = "Begin" /\ ask.op = "byNumber"
        /\ Ends(Pokemon!Error) \/ Goes("numberById", kept)
    BY <1>7 DEF Pokemon!BeginByNumber, Pokemon!Starts, Pokemon!Ask, Pokemon!Answer, Goes, Ends
  <2>2. Pending(ask, "numberById", kept, heard')
    BY <2>1 DEF Pending, NameRequests, NumberRequests
  <2>3. Honest(source, ask, Pokemon!Error, heard')
    BY NoClaim DEF Pokemon!Error
  <2> QED BY <1>a, <2>1, <2>2, <2>3, RequestKeepsInv, EndKeepsInv
<1>8. CASE Pokemon!ParsePrintFromCardById
  <2>1. at = "numberById" /\ ask.op = "byNumber"
    BY <1>8 DEF Pokemon!ParsePrintFromCardById, SourcesInv, Pending, NumberRequests
  <2>2. PICK reply \in CardReplies(Rows) :
          /\ Hears(reply)
          /\ \/ /\ Spoke(reply) /\ LocalIdsMatch(Head(reply).no, WithoutTotal(ask.no))
                /\ Ends(Pokemon!Prints(Pokemon!PrintsOf(reply)))
             \/ Goes("numberSearch", kept)
    BY <1>8, PokemonSteps, PokemonCompares
       DEF Pokemon!ParsePrintFromCardById, Pokemon!Answer, Pokemon!Ask, Ends, Goes
  <2>3. Pending(ask, "numberSearch", kept, heard')
    BY <2>1 DEF Pending, NameRequests, NumberRequests
  <2>4. ASSUME Spoke(reply), LocalIdsMatch(Head(reply).no, WithoutTotal(ask.no))
        PROVE  Honest(source, ask, Pokemon!Prints(Pokemon!PrintsOf(reply)), heard')
    <3>1. PICK r \in Rows : reply = <<r>>
      BY <2>4, ListsAreSequences
    <3>2. r.no \in Numbers /\ ask.no \in Numbers /\ Head(reply) = r
      BY <3>1, SourcesAssumption DEF SourcesInv, SourcesTypeOK, Rows
    <3>3. LocalIdsMatch(WithoutTotal(r.no), WithoutTotal(ask.no))
      BY <2>4, <3>2, CutNumbersMatch
    <3>4. DOMAIN Pokemon!PrintsOf(reply) = {1} /\ Pokemon!PrintsOf(reply)[1].no = WithoutTotal(r.no)
      <4>1. reply \in Seq(Rows) /\ DOMAIN reply = {1} /\ reply[1] = r
        BY <3>1
      <4>2. DOMAIN Pokemon!PrintsOf(reply) = {1} /\ Pokemon!PrintsOf(reply)[1] = Pokemon!PrintOf(r)
        BY <4>1, PokemonPrintsOfRows
      <4> QED BY <4>2, PokemonCompares
    <3> QED BY <3>3, <3>4 DEF Honest, HonestMiss, HonestImage, HonestNumbers, HonestPrints,
                              IsTheNumber, Pokemon!Prints
  <2> QED BY <1>a, <2>1, <2>2, <2>3, <2>4, EndKeepsInv, RequestKeepsInv
<1>9. CASE Pokemon!DetectByNumberSearch
  <2>1. at = "numberSearch" /\ ask.op = "byNumber"
    BY <1>9 DEF Pokemon!DetectByNumberSearch, SourcesInv, Pending, NumberRequests
  <2> DEFINE found(rows) == Pokemon!FirstOfEach(Pokemon!PrintsOf(Pokemon!OfTheNumber(rows)), Pokemon!WholeKey)
  <2>2. PICK reply \in ListReplies :
          /\ Hears(reply)
          /\ Ends(IF Spoke(reply) THEN Pokemon!PrintsOrError(found(reply)) ELSE Pokemon!Error)
    BY <1>9, PokemonSteps DEF Pokemon!DetectByNumberSearch, Pokemon!Answer, Ends
  <2>3. Honest(source, ask, Pokemon!Error, heard')
    BY NoClaim DEF Pokemon!Error
  <2>4. ASSUME Spoke(reply) PROVE Honest(source, ask, Pokemon!Prints(found(reply)), heard')
    BY <2>1, <2>4, ListsAreSequences, PokemonNumbersDiffer
  <2> HIDE DEF found
  <2>5. Honest(source, ask, IF Spoke(reply) THEN Pokemon!PrintsOrError(found(reply)) ELSE Pokemon!Error, heard')
    BY <2>3, <2>4 DEF Pokemon!PrintsOrError
  <2> QED BY <1>a, <2>2, <2>5, EndKeepsInv
<1> QED BY <1>1, <1>2, <1>3, <1>4, <1>5, <1>6, <1>7, <1>8, <1>9 DEF Pokemon!Next

-----------------------------------------------------------------------------
\* Digi-Battle: searches that are repeated without the pack.

\* The source's copies of the loops and of the steps are those of all.
LEMMA DigiFilters ==
    /\ \A s, at_ : Digi!ElementsAt(s, at_) = ElementsAt(s, at_)
    /\ \A s, S : Digi!KeepIn(s, S) = KeepIn(s, S)
<1>1. \A s, at_ : Digi!ElementsAt(s, at_) = ElementsAt(s, at_)
  BY Zenon DEF Digi!ElementsAt, ElementsAt, Digi!Kth, Kth, Digi!Before, Before,
               Digi!Cardinality, Cardinality
<1> QED BY <1>1 DEF Digi!KeepIn, KeepIn

LEMMA DigiSteps ==
    /\ \A reply : Digi!Hears(reply) <=> Hears(reply)
    /\ \A reply : Digi!Spoke(reply) <=> Spoke(reply)
    /\ Digi!ListReplies = ListReplies /\ Digi!Rows = Rows
    /\ \A m, n : Digi!CardNumbersMatch(m, n) <=> CardNumbersMatch(m, n)
<1>1. Digi!NoNumber = NoNumber
  BY DEF Digi!NoNumber, NoNumber, Digi!Number, Number
<1> QED BY <1>1
        DEF Digi!Hears, Hears, Digi!Spoke, Spoke, Digi!ListReplies, ListReplies, Digi!Lists, Lists,
            Digi!Rows, Rows, Digi!CardNumbersMatch, CardNumbersMatch

\* One print per number, and by number only those that match.
LEMMA DigiPrintsDiffer ==
    ASSUME NEW rows \in Seq(Rows), NEW h
    PROVE  Honest("digi", ask, Digi!Prints(Digi!ParsePrintVariants(rows)), h)
<1> DEFINE S == {r \in Rows :
                   /\ Digi!CardInPack(r) /\ r.no # Digi!NoNumber
                   /\ IF Digi!Asks("byName") THEN Digi!Named(r) ELSE CardNumbersMatch(ask.no, r.no)}
           s == KeepIn(rows, S)
           K == [n \in DOMAIN s |-> s[n].no]
           t == Firsts(s, K)
<1>1. s \in Seq(Rows) /\ \A n \in DOMAIN s : s[n] \in S
  BY KeptPasses
<1>2. \A n \in DOMAIN s : ask.op = "byNumber" => CardNumbersMatch(ask.no, s[n].no)
  BY <1>1 DEF Digi!Asks
<1>3. Digi!ParsePrintVariants(rows) = t
  <2>1. S = {r \in Digi!Rows :
               /\ Digi!CardInPack(r) /\ r.no # Digi!NoNumber
               /\ IF Digi!Asks("byName") THEN Digi!Named(r) ELSE Digi!CardNumbersMatch(ask.no, r.no)}
    BY DigiSteps
  <2> HIDE DEF S
  <2>2. Digi!ParsePrintVariants(rows) = Digi!FirstOfEach(s, Digi!NoKey)
    BY <2>1, DigiFilters DEF Digi!ParsePrintVariants
  <2> HIDE DEF s
  <2>3. \A n \in DOMAIN s : \A m \in 1 .. n - 1 : m \in DOMAIN s
    BY <1>1
  <2>4. {n \in DOMAIN s : \A m \in 1 .. n - 1 : K[m] # K[n]} =
          {n \in DOMAIN s : \A m \in 1 .. n - 1 : Digi!NoKey(s[m]) # Digi!NoKey(s[n])}
    BY <2>3 DEF Digi!NoKey
  <2> QED BY <2>2, <2>4, DigiFilters DEF Firsts, Digi!FirstOfEach
<1> HIDE DEF s
<1>4. \A n \in DOMAIN s : K[n] = s[n].no
  OBVIOUS
<1> HIDE DEF K
<1>5. /\ \A i \in DOMAIN t : \E m \in DOMAIN s : t[i] = s[m]
      /\ \A i, j \in DOMAIN t :
           i # j => \E m, n \in DOMAIN s : t[i] = s[m] /\ t[j] = s[n] /\ K[m] # K[n]
  BY <1>1, FirstsDiffer
<1> HIDE DEF t
<1>6. \A i \in DOMAIN t : ask.op = "byNumber" => CardNumbersMatch(ask.no, t[i].no)
  BY <1>2, <1>5
<1>7. ASSUME NEW i \in DOMAIN t, NEW j \in DOMAIN t, i # j PROVE t[i].no # t[j].no
  <2>1. PICK m, n \in DOMAIN s : t[i] = s[m] /\ t[j] = s[n] /\ K[m] # K[n]
    BY <1>5, <1>7
  <2> QED BY <1>4, <2>1
<1>8. Honest("digi", ask, Digi!Prints(t), h)
  BY <1>6, <1>7 DEF Honest, HonestMiss, HonestImage, HonestNumbers, HonestPrints, Differ,
                    IsTheNumber, Digi!Prints
<1> QED BY <1>3, <1>8

LEMMA DigiKeepsInv ==
    ASSUME SourcesInv, source = "digi", Digi!Next, UNCHANGED <<source, catalogVars>>
    PROVE  SourcesInv'
<1>0. heard \in Seq(Verdicts) /\ IsCatalog(catalogFile)' /\ IsCatalog(catalogCache)'
  BY DEF SourcesInv, SourcesTypeOK, catalogVars, IsCatalog
<1>a. /\ heard' = heard => SourcesSteady
      /\ \A reply : Hears(reply) => SourcesSteady
  BY <1>0, HeardGrows DEF SourcesSteady
<1>b. Honest(source, ask, Digi!Error, heard') /\ Honest(source, ask, Digi!Transient, heard')
  BY NoClaim DEF Digi!Error, Digi!Transient
<1>c. ASSUME NEW reply \in ListReplies, Spoke(reply)
      PROVE  /\ Honest(source, ask, Digi!Prints(Digi!ParsePrintVariants(reply)), heard')
             /\ Honest(source, ask, Digi!PrintsOrError(Digi!ParsePrintVariants(reply)), heard')
  BY <1>b, <1>c, ListsAreSequences, DigiPrintsDiffer DEF Digi!PrintsOrError
<1>1. CASE Digi!BeginImage
  <2>1. at = "Begin" /\ heard' = heard /\ heard = <<>>
    BY <1>1 DEF Digi!BeginImage, Digi!Starts, SourcesInv, Pending
  <2>2. \/ Ends(Digi!BuildImageUrl(ask.no)) \/ Ends(Digi!NotFound) \/ Goes("search", kept)
    BY <1>1 DEF Digi!BeginImage, Digi!Answer, Digi!Ask, Ends, Goes
  <2>3. Pending(ask, "search", kept, heard')
    BY <2>1 DEF Pending, NameRequests, NumberRequests
  <2>4. Honest(source, ask, Digi!BuildImageUrl(ask.no), heard')
    BY ImageElsewhere DEF Digi!BuildImageUrl, Digi!Image
  <2>5. Honest(source, ask, Digi!NotFound, heard')
    BY <2>1 DEF Honest, HonestMiss, HonestImage, HonestNumbers, HonestPrints, Digi!NotFound
  <2> QED BY <1>a, <2>1, <2>2, <2>3, <2>4, <2>5, EndKeepsInv, RequestKeepsInv
<1>2. CASE Digi!FetchImageUrl
  <2>1. at = "search" /\ heard = <<>>
    BY <1>2 DEF Digi!FetchImageUrl, SourcesInv, Pending
  <2>2. PICK reply :
          /\ Hears(reply)
          /\ Ends(IF Spoke(reply) THEN Digi!ParseImageUrlFromSearch(reply) ELSE Digi!Transient)
    BY <1>2, DigiSteps DEF Digi!FetchImageUrl, Digi!Answer, Ends
  <2>3. ASSUME Spoke(reply) PROVE Honest(source, ask, Digi!ParseImageUrlFromSearch(reply), heard')
    <3>1. AllAnswered(heard')
      BY <1>0, <2>1, <2>2, <2>3, HeardGrows DEF AllAnswered
    <3>2. Digi!ParseImageUrlFromSearch(reply).kind \in {"NotFound", "Image"}
      BY DEF Digi!ParseImageUrlFromSearch, Digi!NotFound, Digi!BuildImageUrl, Digi!Image
    <3> QED BY <3>1, <3>2 DEF Honest, HonestMiss, HonestImage, HonestNumbers, HonestPrints
  <2>4. Honest(source, ask, IF Spoke(reply) THEN Digi!ParseImageUrlFromSearch(reply)
                                            ELSE Digi!Transient, heard')
    BY <1>b, <2>3
  <2> QED BY <1>a, <2>2, <2>4, EndKeepsInv
<1>3. CASE Digi!BeginByName
  <2>1. Goes("names", kept) /\ heard' = heard /\ at = "Begin" /\ ask.op = "byName"
    BY <1>3 DEF Digi!BeginByName, Digi!Starts, Digi!Ask, Goes
  <2>2. Pending(ask, "names", kept, heard')
    BY <2>1 DEF Pending, NameRequests, NumberRequests
  <2> QED BY <1>a, <2>1, <2>2, RequestKeepsInv
<1>4. CASE Digi!DetectPrintVariants
  <2>1. at \in {"names", "namesAnywhere"} /\ ask.op = "byName"
    BY <1>4 DEF Digi!DetectPrintVariants, SourcesInv, Pending, NameRequests
  <2>2. PICK reply \in ListReplies :
          /\ Hears(reply)
          /\ \/ Goes("namesAnywhere", kept)
             \/ Ends(Digi!Error)
             \/ Spoke(reply) /\ Ends(Digi!PrintsOrError(Digi!ParsePrintVariants(reply)))
    BY <1>4, DigiSteps DEF Digi!DetectPrintVariants, Digi!Answer, Digi!Ask, Ends, Goes, Spoke
  <2>3. Pending(ask, "namesAnywhere", kept, heard')
    BY <2>1 DEF Pending, NameRequests, NumberRequests
  <2> QED BY <1>a, <1>b, <1>c, <2>1, <2>2, <2>3, EndKeepsInv, RequestKeepsInv
<1>5. CASE Digi!BeginByNumber
  <2>1. /\ heard' = heard /\ at = "Begin" /\ ask.op = "byNumber"
        /\ Ends(Digi!Error) \/ Goes("numbers", kept)
    BY <1>5 DEF Digi!BeginByNumber, Digi!Starts, Digi!Ask, Digi!Answer, Goes, Ends
  <2>2. Pending(ask, "numbers", kept, heard')
    BY <2>1 DEF Pending, NameRequests, NumberRequests
  <2> QED BY <1>a, <1>b, <2>1, <2>2, RequestKeepsInv, EndKeepsInv
<1>6. CASE Digi!DetectVariantsBySetNo
  <2>1. at \in {"numbers", "numbersAnywhere"} /\ ask.op = "byNumber"
    BY <1>6 DEF Digi!DetectVariantsBySetNo, SourcesInv, Pending, NumberRequests
  <2>2. PICK reply \in ListReplies :
          /\ Hears(reply)
          /\ \/ Goes("numbersAnywhere", kept)
             \/ Ends(Digi!Error)
             \/ Spoke(reply) /\ Ends(Digi!Prints(Digi!ParsePrintVariants(reply)))
             \/ Spoke(reply) /\ Ends(Digi!PrintsOrError(Digi!ParsePrintVariants(reply)))
    BY <1>6, DigiSteps DEF Digi!DetectVariantsBySetNo, Digi!Answer, Digi!Ask, Ends, Goes
  <2>3. Pending(ask, "numbersAnywhere", kept, heard')
    BY <2>1 DEF Pending, NameRequests, NumberRequests
  <2> QED BY <1>a, <1>b, <1>c, <2>1, <2>2, <2>3, EndKeepsInv, RequestKeepsInv
<1> QED BY <1>1, <1>2, <1>3, <1>4, <1>5, <1>6 DEF Digi!Next

-----------------------------------------------------------------------------
\* Yu-Gi-Oh!: two upstreams for an image, and the catalogue that outlives the calls.

\* The source's copies of the loops and of the steps are those of all.
LEMMA YuGiOhFilters ==
    /\ \A s, at_ : YuGiOh!ElementsAt(s, at_) = ElementsAt(s, at_)
    /\ \A s, S : YuGiOh!KeepIn(s, S) = KeepIn(s, S)
<1>1. \A s, at_ : YuGiOh!ElementsAt(s, at_) = ElementsAt(s, at_)
  BY Zenon DEF YuGiOh!ElementsAt, ElementsAt, YuGiOh!Kth, Kth, YuGiOh!Before, Before,
               YuGiOh!Cardinality, Cardinality
<1> QED BY <1>1 DEF YuGiOh!KeepIn, KeepIn

LEMMA YuGiOhSteps ==
    /\ \A reply : YuGiOh!Hears(reply) <=> Hears(reply)
    /\ \A reply : YuGiOh!Spoke(reply) <=> Spoke(reply)
    /\ YuGiOh!ListReplies = ListReplies /\ YuGiOh!Rows = Rows
    /\ \A m, n : YuGiOh!DigitsEqual(m, n) <=> DigitsEqual(m, n)
    /\ \A c : YuGiOh!ToSet(c) = ToSet(c)
BY DEF YuGiOh!Hears, Hears, YuGiOh!Spoke, Spoke, YuGiOh!ListReplies, ListReplies, YuGiOh!Lists, Lists,
       YuGiOh!Rows, Rows, YuGiOh!DigitsEqual, DigitsEqual, YuGiOh!ToSet, ToSet

\* One print per number and rarity.
LEMMA YuGiOhPrintsDiffer ==
    ASSUME NEW rows \in Seq(Rows), NEW h, ask.op = "byName"
    PROVE  Honest("yugioh", ask, YuGiOh!Prints(YuGiOh!ParsePrintVariants(rows)), h)
<1>1. PICK S : YuGiOh!ParsePrintVariants(rows) = YuGiOh!FirstOfEach(KeepIn(rows, S), YuGiOh!PrintKey)
  <2> DEFINE S1 == {r \in YuGiOh!Rows : YuGiOh!Named(r) /\ (YuGiOh!SetName = "" \/ r.set = YuGiOh!SetName)}
             S2 == {r \in YuGiOh!Rows : r.name = Head(rows).name /\ YuGiOh!Named(r)}
             c == KeepIn(rows, S1) = <<>> /\ (ask.name = "" \/ YuGiOh!SetName = "")
  <2>1. YuGiOh!ParsePrintVariants(rows) =
          YuGiOh!FirstOfEach(IF c THEN KeepIn(rows, S2) ELSE KeepIn(rows, S1), YuGiOh!PrintKey)
    BY YuGiOhFilters DEF YuGiOh!ParsePrintVariants
  <2> HIDE DEF S1, S2, c
  <2> QED BY <2>1
<1> DEFINE s == KeepIn(rows, S)
           K == [n \in DOMAIN s |-> YuGiOh!PrintKey(s[n])]
           t == Firsts(s, K)
<1>2. s \in Seq(Rows)
  BY KeptPasses
<1> HIDE DEF s
<1>3. YuGiOh!FirstOfEach(s, YuGiOh!PrintKey) = t
  <2>1. \A n \in DOMAIN s : \A m \in 1 .. n - 1 : m \in DOMAIN s
    BY <1>2
  <2>2. {n \in DOMAIN s : \A m \in 1 .. n - 1 : K[m] # K[n]} =
          {n \in DOMAIN s : \A m \in 1 .. n - 1 : YuGiOh!PrintKey(s[m]) # YuGiOh!PrintKey(s[n])}
    BY <2>1
  <2> QED BY <2>2, YuGiOhFilters DEF Firsts, YuGiOh!FirstOfEach
<1>4. \A n \in DOMAIN s : K[n] = <<s[n].no, s[n].rarity>>
  BY DEF YuGiOh!PrintKey
<1> HIDE DEF K
<1>5. \A i, j \in DOMAIN t :
        i # j => \E m, n \in DOMAIN s : t[i] = s[m] /\ t[j] = s[n] /\ K[m] # K[n]
  BY <1>2, FirstsDiffer
<1> HIDE DEF t
<1>6. ASSUME NEW i \in DOMAIN t, NEW j \in DOMAIN t, i # j
      PROVE  t[i].no # t[j].no \/ t[i].rarity # t[j].rarity
  <2>1. PICK m, n \in DOMAIN s : t[i] = s[m] /\ t[j] = s[n] /\ K[m] # K[n]
    BY <1>5, <1>6
  <2> QED BY <1>4, <2>1
<1>7. Honest("yugioh", ask, YuGiOh!Prints(t), h)
  BY <1>6 DEF Honest, HonestMiss, HonestImage, HonestNumbers, HonestPrints, Differ, YuGiOh!Prints
<1> QED BY <1>1, <1>3, <1>7 DEF s

\* One print per name of the catalogue, each of the number that was asked for.
LEMMA YuGiOhCatalogueDiffers ==
    ASSUME NEW X, NEW rows \in Seq(X)
    PROVE  KeptPrints(ask, YuGiOh!FromCatalog(rows))
<1> DEFINE S == {r \in ToSet(rows) : r.set = ask.set /\ DigitsEqual(r.no, ask.no) /\ r.name # ""}
           s == KeepIn(rows, S)
           K == [n \in DOMAIN s |-> s[n].name]
           t == Firsts(s, K)
<1>1. s \in Seq(X) /\ \A n \in DOMAIN s : s[n] \in S
  BY KeptPasses
<1>2. \A n \in DOMAIN s : DigitsEqual(s[n].no, ask.no)
  BY <1>1
<1>3. YuGiOh!FromCatalog(rows) = YuGiOh!FirstOfEach(s, YuGiOh!NameKey)
  <2>1. S = {r \in YuGiOh!ToSet(rows) :
               r.set = ask.set /\ YuGiOh!DigitsEqual(r.no, ask.no) /\ r.name # ""}
    BY YuGiOhSteps
  <2> HIDE DEF S
  <2> QED BY <2>1, YuGiOhFilters DEF YuGiOh!FromCatalog
<1> HIDE DEF s, S
<1>4. YuGiOh!FirstOfEach(s, YuGiOh!NameKey) = t
  <2>1. \A n \in DOMAIN s : \A m \in 1 .. n - 1 : m \in DOMAIN s
    BY <1>1
  <2>2. {n \in DOMAIN s : \A m \in 1 .. n - 1 : K[m] # K[n]} =
          {n \in DOMAIN s : \A m \in 1 .. n - 1 : YuGiOh!NameKey(s[m]) # YuGiOh!NameKey(s[n])}
    BY <2>1 DEF YuGiOh!NameKey
  <2> QED BY <2>2, YuGiOhFilters DEF Firsts, YuGiOh!FirstOfEach
<1>5. \A n \in DOMAIN s : K[n] = s[n].name
  OBVIOUS
<1> HIDE DEF K
<1>6. /\ \A i \in DOMAIN t : \E m \in DOMAIN s : t[i] = s[m]
      /\ \A i, j \in DOMAIN t :
           i # j => \E m, n \in DOMAIN s : t[i] = s[m] /\ t[j] = s[n] /\ K[m] # K[n]
  BY <1>1, FirstsDiffer
<1> HIDE DEF t
<1>7. ASSUME NEW i \in DOMAIN t, NEW j \in DOMAIN t, i # j PROVE t[i].name # t[j].name
  <2>1. PICK m, n \in DOMAIN s : t[i] = s[m] /\ t[j] = s[n] /\ K[m] # K[n]
    BY <1>6, <1>7
  <2> QED BY <1>5, <2>1
<1>8. \A i \in DOMAIN t : DigitsEqual(t[i].no, ask.no)
  BY <1>2, <1>6
<1> QED BY <1>3, <1>4, <1>7, <1>8 DEF KeptPrints

\* One print per name, number and rarity of the site's rows.
LEMMA YuGiOhCardsetDiffers ==
    ASSUME NEW rows \in Seq(Rows), NEW h, ask.op = "byNumber"
    PROVE  Honest("yugioh", ask, YuGiOh!Prints(YuGiOh!FromCardset(rows)), h)
<1> DEFINE S == {r \in Rows :
                   /\ r.name # "" /\ r.no # YuGiOh!NoNumber /\ ~ YuGiOh!European(r.no)
                   /\ r.set = ask.set /\ DigitsEqual(r.no, ask.no)}
           s == KeepIn(rows, S)
           K == [n \in DOMAIN s |-> YuGiOh!WholeKey(s[n])]
           t == Firsts(s, K)
<1>1. s \in Seq(Rows) /\ \A n \in DOMAIN s : s[n] \in S
  BY KeptPasses
<1>2. \A n \in DOMAIN s : DigitsEqual(s[n].no, ask.no)
  BY <1>1
<1>3. YuGiOh!FromCardset(rows) = YuGiOh!FirstOfEach(s, YuGiOh!WholeKey)
  <2>1. S = {r \in YuGiOh!Rows :
               /\ r.name # "" /\ r.no # YuGiOh!NoNumber /\ ~ YuGiOh!European(r.no)
               /\ r.set = ask.set /\ YuGiOh!DigitsEqual(r.no, ask.no)}
    BY YuGiOhSteps
  <2> HIDE DEF S
  <2> QED BY <2>1, YuGiOhFilters DEF YuGiOh!FromCardset
<1> HIDE DEF s, S
<1>4. YuGiOh!FirstOfEach(s, YuGiOh!WholeKey) = t
  <2>1. \A n \in DOMAIN s : \A m \in 1 .. n - 1 : m \in DOMAIN s
    BY <1>1
  <2>2. {n \in DOMAIN s : \A m \in 1 .. n - 1 : K[m] # K[n]} =
          {n \in DOMAIN s : \A m \in 1 .. n - 1 : YuGiOh!WholeKey(s[m]) # YuGiOh!WholeKey(s[n])}
    BY <2>1
  <2> QED BY <2>2, YuGiOhFilters DEF Firsts, YuGiOh!FirstOfEach
<1>5. \A n \in DOMAIN s : K[n] = <<s[n].name, s[n].no, s[n].rarity>>
  BY DEF YuGiOh!WholeKey
<1> HIDE DEF K
<1>6. /\ \A i \in DOMAIN t : \E m \in DOMAIN s : t[i] = s[m]
      /\ \A i, j \in DOMAIN t :
           i # j => \E m, n \in DOMAIN s : t[i] = s[m] /\ t[j] = s[n] /\ K[m] # K[n]
  BY <1>1, FirstsDiffer
<1> HIDE DEF t
<1>7. ASSUME NEW i \in DOMAIN t, NEW j \in DOMAIN t, i # j
      PROVE  t[i].no # t[j].no \/ t[i].rarity # t[j].rarity \/ t[i].name # t[j].name
  <2>1. PICK m, n \in DOMAIN s : t[i] = s[m] /\ t[j] = s[n] /\ K[m] # K[n]
    BY <1>6, <1>7
  <2> QED BY <1>5, <2>1
<1>8. \A i \in DOMAIN t : DigitsEqual(t[i].no, ask.no)
  BY <1>2, <1>6
<1>9. Honest("yugioh", ask, YuGiOh!Prints(t), h)
  BY <1>7, <1>8 DEF Honest, HonestMiss, HonestImage, HonestNumbers, HonestPrints, Differ,
                    IsTheNumber, YuGiOh!Prints
<1> QED BY <1>3, <1>4, <1>9

LEMMA YuGiOhKeepsInv ==
    ASSUME SourcesInv, source = "yugioh", YuGiOh!Next, UNCHANGED source
    PROVE  SourcesInv'
<1>0. heard \in Seq(Verdicts) /\ IsCatalog(catalogFile) /\ IsCatalog(catalogCache)
  BY DEF SourcesInv, SourcesTypeOK
<1>a. UNCHANGED catalogVars => /\ heard' = heard => SourcesSteady
                               /\ \A reply : Hears(reply) => SourcesSteady
  BY <1>0, HeardGrows DEF SourcesSteady, catalogVars, IsCatalog
<1>b. Honest(source, ask, YuGiOh!Error, heard') /\ Honest(source, ask, YuGiOh!Transient, heard')
  BY NoClaim DEF YuGiOh!Error, YuGiOh!Transient
<1>1. CASE YuGiOh!BeginImage /\ UNCHANGED catalogVars
  <2>1. at = "Begin" /\ heard' = heard /\ heard = <<>>
    BY <1>1 DEF YuGiOh!BeginImage, YuGiOh!Starts, SourcesInv, Pending
  <2>2. Goes("yugipedia", kept) \/ Goes("fallback", FALSE)
    BY <1>1 DEF YuGiOh!BeginImage, YuGiOh!Ask, YuGiOh!AskKeeping, Goes
  <2>3. AllAnswered(heard')
    BY <2>1 DEF AllAnswered
  <2>4. Pending(ask, "yugipedia", kept, heard') /\ Pending(ask, "fallback", FALSE, heard')
    BY <2>1, <2>3 DEF Pending, NameRequests, NumberRequests
  <2> QED BY <1>1, <1>a, <2>1, <2>2, <2>4, RequestKeepsInv
<1>2. CASE YuGiOh!ParseYugipediaResponse /\ UNCHANGED catalogVars
  <2>1. at = "yugipedia" /\ heard = <<>>
    BY <1>2 DEF YuGiOh!ParseYugipediaResponse, SourcesInv, Pending
  <2>2. PICK reply : /\ Hears(reply)
                     /\ \/ \E f : Ends(YuGiOh!Image(f))
                        \/ Goes("fallback", ~ Spoke(reply))
    BY <1>2, YuGiOhSteps DEF YuGiOh!ParseYugipediaResponse, YuGiOh!Answer, YuGiOh!AskKeeping, Ends, Goes
  <2>3. Pending(ask, "fallback", ~ Spoke(reply), heard')
    <3>1. Spoke(reply) => AllAnswered(heard')
      BY <1>0, <2>1, <2>2, HeardGrows DEF AllAnswered
    <3>2. (~ Spoke(reply)) \in BOOLEAN
      BY DEF Spoke
    <3> QED BY <3>1, <3>2 DEF Pending, NameRequests, NumberRequests
  <2>4. \A f : Honest(source, ask, YuGiOh!Image(f), heard')
    BY ImageElsewhere DEF YuGiOh!Image
  <2> QED BY <1>2, <1>a, <2>1, <2>2, <2>3, <2>4, EndKeepsInv, RequestKeepsInv
<1>3. CASE YuGiOh!FetchFallback /\ UNCHANGED catalogVars
  <2>1. at = "fallback" /\ kept \in BOOLEAN /\ (~ kept => AllAnswered(heard))
    BY <1>3 DEF YuGiOh!FetchFallback, SourcesInv, Pending
  <2>2. PICK reply :
          LET found == YuGiOh!ParseFallbackImageUrl(reply)
          IN  /\ Hears(reply)
              /\ Ends(IF ~ Spoke(reply) \/ (kept /\ found = YuGiOh!NotFound) THEN YuGiOh!Transient ELSE found)
    BY <1>3, YuGiOhSteps DEF YuGiOh!FetchFallback, YuGiOh!Answer, Ends
  <2> DEFINE found == YuGiOh!ParseFallbackImageUrl(reply)
             res == IF ~ Spoke(reply) \/ (kept /\ found = YuGiOh!NotFound) THEN YuGiOh!Transient ELSE found
  <2>3. found = YuGiOh!NotFound \/ found.kind = "Image"
    BY DEF YuGiOh!ParseFallbackImageUrl, YuGiOh!Image
  <2>4. Hears(reply) /\ Ends(res)
    BY <2>2
  <2> HIDE DEF found
  <2>5. Honest(source, ask, res, heard')
    <3>1. CASE ~ Spoke(reply) \/ (kept /\ found = YuGiOh!NotFound)
      BY <1>b, <3>1
    <3>2. CASE Spoke(reply) /\ found.kind = "Image"
      <4>1. found # YuGiOh!NotFound
        BY <3>2 DEF YuGiOh!NotFound
      <4> QED BY <3>2, <4>1, ImageElsewhere
    <3>3. CASE Spoke(reply) /\ found = YuGiOh!NotFound /\ ~ kept
      <4>1. AllAnswered(heard')
        BY <1>0, <2>1, <2>4, <3>3, HeardGrows
      <4>2. res.kind = "NotFound"
        BY <3>3 DEF YuGiOh!NotFound
      <4> QED BY <4>1, <4>2 DEF Honest, HonestMiss, HonestImage, HonestNumbers, HonestPrints
    <3> QED BY <2>1, <2>3, <3>1, <3>2, <3>3
  <2> QED BY <1>3, <1>a, <2>4, <2>5, EndKeepsInv
<1>4. CASE YuGiOh!BeginByName /\ UNCHANGED catalogVars
  <2>1. Goes("names", kept) /\ heard' = heard /\ at = "Begin" /\ ask.op = "byName"
    BY <1>4 DEF YuGiOh!BeginByName, YuGiOh!Starts, YuGiOh!Ask, Goes
  <2>2. Pending(ask, "names", kept, heard')
    BY <2>1 DEF Pending, NameRequests, NumberRequests
  <2> QED BY <1>4, <1>a, <2>1, <2>2, RequestKeepsInv
<1>5. CASE YuGiOh!DetectPrintVariants /\ UNCHANGED catalogVars
  <2>1. at \in {"names", "namesAnywhere"} /\ ask.op = "byName"
    BY <1>5 DEF YuGiOh!DetectPrintVariants, SourcesInv, Pending, NameRequests
  <2>2. PICK reply \in ListReplies :
          /\ Hears(reply)
          /\ \/ Goes("namesAnywhere", kept)
             \/ Ends(YuGiOh!Error)
             \/ Spoke(reply) /\ Ends(YuGiOh!PrintsOrError(YuGiOh!ParsePrintVariants(reply)))
    BY <1>5, YuGiOhSteps DEF YuGiOh!DetectPrintVariants, YuGiOh!Answer, YuGiOh!Ask, Ends, Goes, Spoke
  <2>3. Pending(ask, "namesAnywhere", kept, heard')
    BY <2>1 DEF Pending, NameRequests, NumberRequests
  <2>4. Spoke(reply) => Honest(source, ask, YuGiOh!PrintsOrError(YuGiOh!ParsePrintVariants(reply)), heard')
    BY <1>b, <2>1, ListsAreSequences, YuGiOhPrintsDiffer DEF YuGiOh!PrintsOrError
  <2> QED BY <1>5, <1>a, <1>b, <2>1, <2>2, <2>3, <2>4, EndKeepsInv, RequestKeepsInv
<1>6. CASE YuGiOh!BeginByNumber /\ UNCHANGED catalogFile
  <2> DEFINE cached == IF catalogCache # Nothing THEN catalogCache ELSE catalogFile
             k == IF cached = Nothing THEN <<>> ELSE YuGiOh!FromCatalog(cached)
  <2>1. /\ heard' = heard /\ at = "Begin" /\ ask.op = "byNumber"
        /\ \/ Ends(YuGiOh!Error) /\ UNCHANGED catalogCache
           \/ Goes("cardset", k) /\ catalogCache' = cached
    BY <1>6 DEF YuGiOh!BeginByNumber, YuGiOh!Starts, YuGiOh!Answer, YuGiOh!AskKeeping, Ends, Goes
  <2>2. IsCatalog(cached)
    BY <1>0
  <2>3. KeptPrints(ask, k)
    <3>1. CASE cached = Nothing
      BY <3>1 DEF KeptPrints
    <3>2. CASE cached # Nothing
      <4>1. cached \in Seq(ToSet(cached))
        BY <2>2, <3>2 DEF IsCatalog
      <4> HIDE DEF cached
      <4> QED BY <3>2, <4>1, YuGiOhCatalogueDiffers
    <3> QED BY <3>1, <3>2
  <2> HIDE DEF k, cached
  <2>4. SourcesSteady
    BY <1>0, <1>6, <2>1, <2>2 DEF SourcesSteady, IsCatalog
  <2>5. Pending(ask, "cardset", k, heard')
    BY <2>1, <2>3 DEF Pending, NameRequests, NumberRequests
  <2> QED BY <1>b, <2>1, <2>4, <2>5, EndKeepsInv, RequestKeepsInv
<1>7. CASE YuGiOh!DetectVariantsBySetNo /\ UNCHANGED catalogVars
  <2>1. at = "cardset" /\ ask.op = "byNumber" /\ KeptPrints(ask, kept)
    BY <1>7 DEF YuGiOh!DetectVariantsBySetNo, SourcesInv, Pending, NumberRequests
  <2>2. PICK reply \in ListReplies :
          /\ Hears(reply)
          /\ \/ Spoke(reply) /\ Ends(YuGiOh!Prints(YuGiOh!FromCardset(reply)))
             \/ Ends(YuGiOh!PrintsOrError(kept))
    BY <1>7, YuGiOhSteps DEF YuGiOh!DetectVariantsBySetNo, YuGiOh!Answer, Ends
  <2>3. Spoke(reply) => Honest(source, ask, YuGiOh!Prints(YuGiOh!FromCardset(reply)), heard')
    BY <2>1, ListsAreSequences, YuGiOhCardsetDiffers
  <2>4. Honest(source, ask, YuGiOh!Prints(kept), heard')
    BY <2>1 DEF KeptPrints, Honest, HonestMiss, HonestImage, HonestNumbers, HonestPrints, Differ,
                IsTheNumber, YuGiOh!Prints
  <2>5. Honest(source, ask, YuGiOh!PrintsOrError(kept), heard')
    BY <1>b, <2>4 DEF YuGiOh!PrintsOrError
  <2> QED BY <1>7, <1>a, <2>2, <2>3, <2>5, EndKeepsInv
<1> QED BY <1>1, <1>2, <1>3, <1>4, <1>5, <1>6, <1>7 DEF YuGiOh!Next, YuGiOh!catalogVars, catalogVars

-----------------------------------------------------------------------------
\* Bandai: guessed pages, and asks that match numbers as they are written without zeros.

\* The source's copies of the loops and of the steps are those of all.
LEMMA BandaiFilters ==
    /\ \A s, at_ : Bandai!ElementsAt(s, at_) = ElementsAt(s, at_)
    /\ \A s, S : Bandai!KeepIn(s, S) = KeepIn(s, S)
    /\ \A ss : Bandai!FlattenSeq(ss) = FlattenSeq(ss)
<1>1. \A s, at_ : Bandai!ElementsAt(s, at_) = ElementsAt(s, at_)
  BY Zenon DEF Bandai!ElementsAt, ElementsAt, Bandai!Kth, Kth, Bandai!Before, Before,
               Bandai!Cardinality, Cardinality
<1>2. \A ss : Bandai!FlattenSeq(ss) = FlattenSeq(ss)
  BY Zenon DEF Bandai!FlattenSeq, FlattenSeq
<1> QED BY <1>1, <1>2 DEF Bandai!KeepIn, KeepIn

LEMMA BandaiSteps ==
    /\ \A reply : Bandai!Hears(reply) <=> Hears(reply)
    /\ \A reply : Bandai!Spoke(reply) <=> Spoke(reply)
    /\ Bandai!ListReplies = ListReplies /\ Bandai!Rows = Rows
    /\ Bandai!NoNumber = NoNumber
    /\ \A n : Bandai!NormalizeCardNumber(n) = NormalizeCardNumber(n)
    /\ \A c : Bandai!ToSet(c) = ToSet(c)
BY DEF Bandai!Hears, Hears, Bandai!Spoke, Spoke, Bandai!ListReplies, ListReplies, Bandai!Lists, Lists,
       Bandai!Rows, Rows, Bandai!NormalizeCardNumber, NormalizeCardNumber, Bandai!ToSet, ToSet,
       Bandai!NoNumber, NoNumber, Bandai!Number, Number

\* A number that is written without zeros stays so.
LEMMA NormalizedStays ==
    ASSUME NEW n \in Numbers
    PROVE  NormalizeCardNumber(NormalizeCardNumber(n)) = NormalizeCardNumber(n)
<1>1. n \in [pre : STRING, val : Nat, pad : BOOLEAN, total : BOOLEAN]
  BY DEF Numbers
<1> QED BY <1>1 DEF NormalizeCardNumber

\* The rows of an ask by number have that number.
LEMMA BandaiAsked ==
    ASSUME NEW rows \in Seq(Rows), NEW wanted, wanted # NoNumber
    PROVE  LET t == Bandai!ParseAskResponse(rows, wanted)
           IN  /\ \E X : t \in Seq(X)
               /\ \A i \in DOMAIN t : t[i].no = NormalizeCardNumber(wanted)
<1> DEFINE prints == [i \in DOMAIN rows |-> Bandai!EnrichPrint(rows[i])]
           X == ToSet(prints)
           Place(k) == {p \in X :
             /\ p.name # "" /\ (wanted = NoNumber \/ p.no = NormalizeCardNumber(wanted))
             /\ Bandai!AskMatchRank(p.suffix, ask.set) = k - 1}
           ss == [k \in 1 .. 6 |-> KeepIn(prints, Place(k))]
           t == FlattenSeq(ss)
<1>1. Bandai!ParseAskResponse(rows, wanted) = t
  BY BandaiFilters, BandaiSteps DEF Bandai!ParseAskResponse
<1>2. prints \in Seq(X)
  <2>1. DOMAIN rows = 1 .. Len(rows) /\ Len(rows) \in Nat
    OBVIOUS
  <2>2. DOMAIN prints = 1 .. Len(rows) /\ \A i \in 1 .. Len(rows) : prints[i] \in X
    BY <2>1 DEF ToSet, Range
  <2>3. prints = [i \in 1 .. Len(rows) |-> prints[i]]
    BY <2>1
  <2> HIDE DEF prints, X
  <2> QED BY <2>1, <2>2, <2>3
<1>3. \A k : \A p \in Place(k) : p.no = NormalizeCardNumber(wanted)
  OBVIOUS
<1> HIDE DEF Place, X, prints
<1>4. \A k \in 1 .. 6 : /\ ss[k] \in Seq(X)
                        /\ \A n \in 1 .. Len(ss[k]) : ss[k][n] \in Place(k)
  <2> SUFFICES ASSUME NEW k \in 1 .. 6
               PROVE  ss[k] \in Seq(X) /\ \A n \in 1 .. Len(ss[k]) : ss[k][n] \in Place(k)
    OBVIOUS
  <2>1. ss[k] = KeepIn(prints, Place(k))
    OBVIOUS
  <2> QED BY <1>2, <2>1, KeptWasThere
<1>5. ss \in Seq(Seq(X)) /\ Len(ss) = 6
  BY <1>4
<1> HIDE DEF ss
<1>6. t \in Seq(X) /\ \E block, pos : Flattened(t, block, pos, ss, 6)
  BY <1>5, FlattenedOnce
<1> HIDE DEF t
<1>7. PICK block, pos : Flattened(t, block, pos, ss, 6)
  BY <1>6
<1>8. ASSUME NEW i \in DOMAIN t PROVE t[i].no = NormalizeCardNumber(wanted)
  <2>1. i \in 1 .. Len(t)
    BY <1>6
  <2>2. block[i] \in 1 .. 6 /\ pos[i] \in 1 .. Len(ss[block[i]]) /\ t[i] = ss[block[i]][pos[i]]
    BY <1>7, <2>1 DEF Flattened
  <2>3. t[i] \in Place(block[i])
    BY <1>4, <2>2
  <2> QED BY <1>3, <2>3
<1> QED BY <1>1, <1>6, <1>8

\* Neither a set nor an error changes that every print has the number asked for.
LEMMA BandaiInTheSet ==
    ASSUME NEW X, NEW s \in Seq(X), NEW a, NEW h,
           \A i \in DOMAIN s : NormalizeCardNumber(s[i].no) = NormalizeCardNumber(a.no)
    PROVE  Honest("bandai", a, Bandai!InTheSet(s), h)
<1>1. PICK S : Bandai!InTheSet(s) \in {Bandai!Prints(s), Bandai!Prints(KeepIn(s, S)), Bandai!Error}
  BY BandaiFilters DEF Bandai!InTheSet, Bandai!PrintsOrError
<1>2. ASSUME NEW i \in DOMAIN KeepIn(s, S)
      PROVE  NormalizeCardNumber(KeepIn(s, S)[i].no) = NormalizeCardNumber(a.no)
  <2> DEFINE t == KeepIn(s, S)
  <2>1. t \in Seq(X) /\ \E from : Picked(t, from, s, S)
    BY KeptInOrder
  <2>2. i \in DOMAIN t
    OBVIOUS
  <2> HIDE DEF t
  <2>3. PICK from : Picked(t, from, s, S)
    BY <2>1
  <2>4. i \in 1 .. Len(t)
    BY <2>1, <2>2
  <2>5. from[i] \in DOMAIN s /\ t[i] = s[from[i]]
    BY <2>3, <2>4 DEF Picked
  <2>6. NormalizeCardNumber(t[i].no) = NormalizeCardNumber(a.no)
    BY <2>5
  <2> QED BY <2>6 DEF t
<1>3. ASSUME NEW u, \A i \in DOMAIN u : NormalizeCardNumber(u[i].no) = NormalizeCardNumber(a.no)
      PROVE  Honest("bandai", a, Bandai!Prints(u), h)
  BY <1>3 DEF Honest, HonestMiss, HonestImage, HonestNumbers, HonestPrints, IsTheNumber, Bandai!Prints
<1>4. Honest("bandai", a, Bandai!Error, h)
  BY NoClaim DEF Bandai!Error
<1>5. Honest("bandai", a, Bandai!Prints(s), h) /\ Honest("bandai", a, Bandai!Prints(KeepIn(s, S)), h)
  BY <1>2, <1>3
<1> QED BY <1>1, <1>4, <1>5

\* So do the prints of a gallery.
LEMMA BandaiGallery ==
    ASSUME NEW rows \in Seq(Rows), NEW h, NEW S,
           \A r \in S : NormalizeCardNumber(r.no) = NormalizeCardNumber(ask.no)
    PROVE  LET s == KeepIn(rows, S)
           IN  Honest("bandai", ask, Bandai!InTheSet([i \in DOMAIN s |->
                 [name |-> s[i].name, no |-> s[i].no, suffix |-> "", rarity |-> s[i].rarity,
                  set |-> Bandai!SetIdForNumber(s[i].no)]]), h)
<1> DEFINE s == KeepIn(rows, S)
           F(r) == [name |-> r.name, no |-> r.no, suffix |-> "", rarity |-> r.rarity,
                    set |-> Bandai!SetIdForNumber(r.no)]
           t == [i \in DOMAIN s |-> F(s[i])]
           X == {F(r) : r \in Rows}
<1>1. s \in Seq(Rows) /\ \A i \in DOMAIN s : s[i] \in S /\ s[i] \in Rows
  BY KeptPasses
<1> HIDE DEF s
<1>2. \A r : F(r).no = r.no
  OBVIOUS
<1> HIDE DEF F
<1>3. DOMAIN s = 1 .. Len(s) /\ Len(s) \in Nat
  BY <1>1
<1>4. t \in Seq(X) /\ DOMAIN t = DOMAIN s /\ \A i \in DOMAIN s : t[i] = F(s[i])
  BY <1>1, <1>3
<1> HIDE DEF X, t
<1>5. \A i \in DOMAIN t : NormalizeCardNumber(t[i].no) = NormalizeCardNumber(ask.no)
  BY <1>1, <1>2, <1>4
<1>6. Honest("bandai", ask, Bandai!InTheSet(t), h)
  BY <1>4, <1>5, BandaiInTheSet
<1> QED BY <1>6 DEF t, F, s

LEMMA BandaiKeepsInv ==
    ASSUME SourcesInv, source = "bandai", Bandai!Next, UNCHANGED <<source, catalogVars>>
    PROVE  SourcesInv'
<1>0. heard \in Seq(Verdicts) /\ IsCatalog(catalogFile)' /\ IsCatalog(catalogCache)'
  BY DEF SourcesInv, SourcesTypeOK, catalogVars, IsCatalog
<1>a. /\ heard' = heard => SourcesSteady
      /\ \A reply : Hears(reply) => SourcesSteady
  BY <1>0, HeardGrows DEF SourcesSteady
<1>b. /\ Honest(source, ask, Bandai!Error, heard') /\ Honest(source, ask, Bandai!Transient, heard')
      /\ \A page : Honest(source, ask, Bandai!Image(page), heard')
  BY NoClaim, ImageElsewhere DEF Bandai!Error, Bandai!Transient, Bandai!Image
<1>c. ASSUME NEW reply, Hears(reply), Spoke(reply) PROVE Honest(source, ask, Bandai!NotFound, heard')
  <2>1. heard'[Len(heard')] = "ok"
    BY <1>0, <1>c, HeardGrows
  <2> QED BY <2>1, MissHeardLast DEF Bandai!NotFound
<1>d. \A k : Pending(ask, "page", k, heard') /\ Pending(ask, "englishPage", k, heard')
             /\ Pending(ask, "askName", k, heard') /\ Pending(ask, "bestPage", k, heard')
  BY DEF Pending, NameRequests, NumberRequests
<1>1. CASE Bandai!BeginImage
  <2>1. /\ heard' = heard /\ at = "Begin"
        /\ Goes("page", kept) \/ Goes("englishPage", kept) \/ Ends(Bandai!Transient)
    BY <1>1 DEF Bandai!BeginImage, Bandai!Starts, Bandai!Ask, Bandai!Answer, Goes, Ends
  <2> QED BY <1>a, <1>b, <1>d, <2>1, RequestKeepsInv, EndKeepsInv
<1>2. CASE Bandai!FetchDirectPage
  <2>1. PICK reply : \E page :
          /\ Hears(reply) /\ at = "page"
          /\ Ends(Bandai!Image(page)) \/ Goes("englishPage", kept) \/ Goes("askName", kept)
    <3>1. PICK reply : LET page == Bandai!PreferredPageTitle(ask.name, ask.set, ask.no)
                           direct == Bandai!ParsePageImages(reply, page)
                       IN  /\ Bandai!Hears(reply) /\ at = "page"
                           /\ IF direct.kind = "Image" THEN Bandai!Answer(direct) ELSE Bandai!AfterDirect
      BY <1>2 DEF Bandai!FetchDirectPage
    <3> DEFINE page == Bandai!PreferredPageTitle(ask.name, ask.set, ask.no)
               direct == Bandai!ParsePageImages(reply, page)
    <3>2. Bandai!Hears(reply) /\ at = "page"
          /\ IF direct.kind = "Image" THEN Bandai!Answer(direct) ELSE Bandai!AfterDirect
      BY <3>1
    <3> HIDE DEF page
    <3>3. direct.kind = "Image" => direct = Bandai!Image(page)
      BY DEF Bandai!ParsePageImages, Bandai!Transient, Bandai!NotFound
    <3> HIDE DEF direct
    <3>4. Hears(reply)
      BY <3>2, BandaiSteps
    <3>5. Ends(Bandai!Image(page)) \/ Goes("englishPage", kept) \/ Goes("askName", kept)
      BY <3>2, <3>3 DEF Bandai!AfterDirect, Bandai!Ask, Bandai!Answer, Ends, Goes
    <3> QED BY <3>2, <3>4, <3>5
  <2> QED BY <1>a, <1>b, <1>d, <2>1, RequestKeepsInv, EndKeepsInv
<1>3. CASE Bandai!FetchEnglishPage
  <2>1. PICK reply : \E page :
          /\ Hears(reply) /\ at = "englishPage"
          /\ Ends(Bandai!Image(page)) \/ Ends(Bandai!Transient) \/ Goes("askName", kept)
    BY <1>3, BandaiSteps DEF Bandai!FetchEnglishPage, Bandai!Ask, Bandai!Answer, Ends, Goes
  <2> QED BY <1>a, <1>b, <1>d, <2>1, RequestKeepsInv, EndKeepsInv
<1>4. CASE Bandai!AskByName
  <2>1. PICK reply : \E page :
          /\ Hears(reply) /\ at = "askName"
          /\ \/ Ends(Bandai!Transient)
             \/ Spoke(reply) /\ Ends(Bandai!NotFound)
             \/ Goes("bestPage", page)
    BY <1>4, BandaiSteps DEF Bandai!AskByName, Bandai!AskKeeping, Bandai!Answer, Ends, Goes
  <2> QED BY <1>a, <1>b, <1>c, <1>d, <2>1, RequestKeepsInv, EndKeepsInv
<1>5. CASE Bandai!FetchBestPage
  <2>1. PICK reply : Hears(reply) /\ Ends(Bandai!ParsePageImages(reply, kept))
    BY <1>5, BandaiSteps DEF Bandai!FetchBestPage, Bandai!Answer, Ends
  <2>2. Honest(source, ask, Bandai!ParsePageImages(reply, kept), heard')
    BY <1>b, <1>c, <2>1, BandaiSteps DEF Bandai!ParsePageImages
  <2> QED BY <1>a, <2>1, <2>2, EndKeepsInv
<1>6. CASE Bandai!BeginByName
  <2>1. /\ heard' = heard /\ at = "Begin" /\ ask.op = "byName"
        /\ Ends(Bandai!Error) \/ Goes("names", kept)
    BY <1>6 DEF Bandai!BeginByName, Bandai!Starts, Bandai!Ask, Bandai!Answer, Goes, Ends
  <2>2. Pending(ask, "names", kept, heard')
    BY <2>1 DEF Pending, NameRequests, NumberRequests
  <2> QED BY <1>a, <1>b, <2>1, <2>2, RequestKeepsInv, EndKeepsInv
<1>7. CASE Bandai!DetectPrintVariants
  <2>1. at = "names" /\ ask.op = "byName"
    BY <1>7 DEF Bandai!DetectPrintVariants, SourcesInv, Pending, NameRequests
  <2>2. PICK reply : \E s : Hears(reply) /\ (Ends(Bandai!Prints(s)) \/ Ends(Bandai!Error))
    BY <1>7, BandaiSteps DEF Bandai!DetectPrintVariants, Bandai!Answer, Ends
  <2>3. \A s : Honest(source, ask, Bandai!Prints(s), heard')
    BY <2>1 DEF Honest, HonestMiss, HonestImage, HonestNumbers, HonestPrints, Bandai!Prints
  <2> QED BY <1>a, <1>b, <2>2, <2>3, EndKeepsInv
<1>8. CASE Bandai!BeginByNumber
  <2>1. /\ heard' = heard /\ at = "Begin" /\ ask.op = "byNumber"
        /\ \/ Ends(Bandai!Error)
           \/ ask.no # NoNumber /\ (Goes("gallery", kept) \/ Goes("askNumber", kept))
    BY <1>8, BandaiSteps
       DEF Bandai!BeginByNumber, Bandai!Starts, Bandai!Ask, Bandai!Answer, Goes, Ends
  <2>2. ask.no # NoNumber => Pending(ask, "gallery", kept, heard') /\ Pending(ask, "askNumber", kept, heard')
    BY <2>1 DEF Pending, NameRequests, NumberRequests
  <2> QED BY <1>a, <1>b, <2>1, <2>2, RequestKeepsInv, EndKeepsInv
<1>9. CASE Bandai!AskByNumber
  <2>1. at = "askNumber" /\ ask.no # NoNumber /\ ask.no \in Numbers
    BY <1>9, SourcesAssumption DEF Bandai!AskByNumber, SourcesInv, SourcesTypeOK, Pending
  <2>2. PICK reply \in ListReplies :
          /\ Hears(reply)
          /\ \/ Ends(Bandai!Error)
             \/ Spoke(reply) /\ Ends(Bandai!InTheSet(Bandai!ParseAskResponse(reply, ask.no)))
    BY <1>9, BandaiSteps DEF Bandai!AskByNumber, Bandai!Answer, Ends
  <2>3. ASSUME Spoke(reply)
        PROVE  Honest(source, ask, Bandai!InTheSet(Bandai!ParseAskResponse(reply, ask.no)), heard')
    <3> DEFINE t == Bandai!ParseAskResponse(reply, ask.no)
    <3>1. reply \in Seq(Rows)
      BY <2>3, ListsAreSequences
    <3>2. (\E X : t \in Seq(X)) /\ \A i \in DOMAIN t : t[i].no = NormalizeCardNumber(ask.no)
      BY <2>1, <3>1, BandaiAsked
    <3> HIDE DEF t
    <3>3. \A i \in DOMAIN t : NormalizeCardNumber(t[i].no) = NormalizeCardNumber(ask.no)
      BY <2>1, <3>2, NormalizedStays
    <3>4. Honest("bandai", ask, Bandai!InTheSet(t), heard')
      BY <3>2, <3>3, BandaiInTheSet
    <3> QED BY <3>4 DEF t
  <2> QED BY <1>a, <1>b, <2>2, <2>3, EndKeepsInv
<1>10. CASE Bandai!ParsePromoGalleryResponse
  <2> DEFINE S == {r \in Rows : NormalizeCardNumber(r.no) = NormalizeCardNumber(ask.no)}
             Listed(s) == [i \in DOMAIN s |->
                 [name |-> s[i].name, no |-> s[i].no, suffix |-> "", rarity |-> s[i].rarity,
                  set |-> Bandai!SetIdForNumber(s[i].no)]]
  <2>1. S = {r \in Bandai!Rows :
               Bandai!NormalizeCardNumber(r.no) = Bandai!NormalizeCardNumber(ask.no)}
    BY BandaiSteps
  <2>2. \A r \in S : NormalizeCardNumber(r.no) = NormalizeCardNumber(ask.no)
    OBVIOUS
  <2> HIDE DEF S
  <2>3. PICK reply \in ListReplies :
          /\ Hears(reply)
          /\ \/ Ends(Bandai!Error)
             \/ Spoke(reply) /\ Ends(Bandai!InTheSet(Listed(KeepIn(reply, S))))
    BY <1>10, <2>1, BandaiSteps, BandaiFilters
       DEF Bandai!ParsePromoGalleryResponse, Bandai!Answer, Ends
  <2>4. Spoke(reply) => Honest(source, ask, Bandai!InTheSet(Listed(KeepIn(reply, S))), heard')
    BY <2>2, ListsAreSequences, BandaiGallery
  <2> QED BY <1>a, <1>b, <2>3, <2>4, EndKeepsInv
<1> QED BY <1>1, <1>2, <1>3, <1>4, <1>5, <1>6, <1>7, <1>8, <1>9, <1>10 DEF Bandai!Next

-----------------------------------------------------------------------------
\* Japanese Pokemon: TCGdex, with the bundled catalogue as the second opinion.

\* The source's copies of the loops, of the comparisons and of the steps are those of all.
LEMMA JapaneseFilters ==
    /\ \A s, at_ : Japanese!ElementsAt(s, at_) = ElementsAt(s, at_)
    /\ \A s, S : Japanese!KeepIn(s, S) = KeepIn(s, S)
    /\ Japanese!Entries = ToSet(CatalogPrints)
<1>1. \A s, at_ : Japanese!ElementsAt(s, at_) = ElementsAt(s, at_)
  BY Zenon DEF Japanese!ElementsAt, ElementsAt, Japanese!Kth, Kth, Japanese!Before, Before,
               Japanese!Cardinality, Cardinality
<1>2. Japanese!Entries = ToSet(CatalogPrints)
  BY DEF Japanese!Entries, Japanese!ToSet, ToSet
<1> QED BY <1>1, <1>2 DEF Japanese!KeepIn, KeepIn

LEMMA JapaneseCompares ==
    /\ \A m : Japanese!WithoutTotal(m) = WithoutTotal(m)
    /\ \A m, n : Japanese!LocalIdsMatch(m, n) <=> LocalIdsMatch(m, n)
    /\ Japanese!NoNumber = NoNumber /\ Japanese!No = WithoutTotal(ask.no)
<1>1. \A m : Japanese!WithoutTotal(m) = WithoutTotal(m)
  BY DEF Japanese!WithoutTotal, WithoutTotal
<1>2. Japanese!NoNumber = NoNumber
  BY DEF Japanese!NoNumber, NoNumber, Japanese!Number, Number
<1>3. \A m, n : Japanese!LocalIdsMatch(m, n) <=> LocalIdsMatch(m, n)
  BY <1>2 DEF Japanese!LocalIdsMatch, LocalIdsMatch
<1> QED BY <1>1, <1>2, <1>3 DEF Japanese!No

LEMMA JapaneseSteps ==
    /\ \A reply : Japanese!Hears(reply) <=> Hears(reply)
    /\ \A reply : Japanese!Spoke(reply) <=> Spoke(reply)
    /\ Japanese!ListReplies = ListReplies /\ Japanese!Rows = Rows
    /\ \A S : Japanese!CardReplies(S) = CardReplies(S)
    /\ \A no : Japanese!CardObject(no) = CardReplies({r \in Rows : LocalIdsMatch(r.no, no)})
<1>1. /\ \A reply : Japanese!Hears(reply) <=> Hears(reply)
      /\ \A reply : Japanese!Spoke(reply) <=> Spoke(reply)
      /\ Japanese!ListReplies = ListReplies /\ Japanese!Rows = Rows
      /\ \A S : Japanese!CardReplies(S) = CardReplies(S)
  BY DEF Japanese!Hears, Hears, Japanese!Spoke, Spoke, Japanese!ListReplies, ListReplies,
         Japanese!Lists, Lists, Japanese!Rows, Rows, Japanese!CardReplies, CardReplies
<1> QED BY <1>1, JapaneseCompares DEF Japanese!CardObject

\* What matches the same number matches.
LEMMA MatchesOfMatches ==
    ASSUME NEW l, NEW m, NEW n, LocalIdsMatch(l, m), LocalIdsMatch(m, n)
    PROVE  LocalIdsMatch(l, n)
BY DEF LocalIdsMatch

\* The prints of a number are entries of that set and number.
LEMMA JapanesePrintsFound ==
    ASSUME NEW set, NEW no
    PROVE  LET s == Japanese!FindPrint(set, no)
           IN  /\ s \in Seq(Japanese!Entries)
               /\ \A i \in DOMAIN s : s[i].set = set /\ s[i].no = no
               /\ s # <<>> => s[1].no = no /\ Japanese!HasPrintsForSet(set)
<1> DEFINE E == ToSet(CatalogPrints)
           S == {p \in E : p.set = set /\ p.no = no}
           T == {p \in E : p.set = set}
           s == KeepIn(CatalogPrints, S)
           u == KeepIn(CatalogPrints, T)
<1>0. Japanese!FindPrint(set, no) = s /\ Japanese!PrintsForSet(set) = u /\ Japanese!Entries = E
  BY JapaneseFilters DEF Japanese!FindPrint, Japanese!PrintsForSet
<1>1. CatalogPrints \in Seq(E)
  BY SourcesAssumption
<1>2. S \subseteq T /\ \A p \in S : p.set = set /\ p.no = no
  OBVIOUS
<1> HIDE DEF S, T, E
<1>3. s \in Seq(E) /\ \A n \in 1 .. Len(s) : s[n] \in S
  BY <1>1, KeptWasThere
<1>4. \E from : Picked(s, from, CatalogPrints, S)
  BY <1>1, KeptInOrder
<1>5. u = <<>> => \A k \in 1 .. Len(CatalogPrints) : CatalogPrints[k] \notin T
  BY <1>1, KeptIsShorter
<1> HIDE DEF s, u
<1>6. DOMAIN s = 1 .. Len(s) /\ (s # <<>> => 1 \in 1 .. Len(s))
  BY <1>3
<1>7. ASSUME s # <<>> PROVE u # <<>>
  <2>1. PICK from : Picked(s, from, CatalogPrints, S)
    BY <1>4
  <2>2. from[1] \in 1 .. Len(CatalogPrints) /\ CatalogPrints[from[1]] \in S
    BY <1>6, <1>7, <2>1 DEF Picked
  <2> QED BY <1>2, <1>5, <2>2
<1>8. /\ s \in Seq(E)
      /\ \A i \in DOMAIN s : s[i].set = set /\ s[i].no = no
      /\ s # <<>> => s[1].no = no /\ u # <<>>
  BY <1>2, <1>3, <1>6, <1>7
<1>9. Japanese!HasPrintsForSet(set) <=> u # <<>>
  BY <1>0 DEF Japanese!HasPrintsForSet
<1> QED BY <1>0, <1>8, <1>9

\* The catalogue's picture of a number is that number's.
LEMMA JapaneseImageOfNumber ==
    ASSUME NEW no
    PROVE  LET res == Japanese!CatalogPreviewFor(no)
           IN  \/ res.kind = "NotFound"
               \/ res.kind = "Image" /\ res.of[1].no = no
<1> DEFINE s == Japanese!FindPrint(ask.set, no)
           with == Japanese!KeepIn(s, {p \in Japanese!Entries : p.url # ""})
<1>1. s \in Seq(Japanese!Entries) /\ \A i \in DOMAIN s : s[i].no = no
  BY JapanesePrintsFound
<1>2. PICK S : with = KeepIn(s, S)
  BY JapaneseFilters
<1> HIDE DEF s
<1>3. with # <<>> => Head(with).no = no
  <2> HIDE DEF with
  <2> SUFFICES ASSUME with # <<>> PROVE Head(with).no = no
    OBVIOUS
  <2>1. with \in Seq(Japanese!Entries) /\ \E from : Picked(with, from, s, S)
    BY <1>1, <1>2, KeptInOrder
  <2>2. PICK from : Picked(with, from, s, S)
    BY <2>1
  <2>3. 1 \in 1 .. Len(with) /\ Head(with) = with[1]
    BY <2>1
  <2>4. from[1] \in DOMAIN s /\ with[1] = s[from[1]]
    BY <1>1, <2>2, <2>3 DEF Picked
  <2> QED BY <1>1, <2>3, <2>4
<1>4. Japanese!CatalogPreviewFor(no) = IF with = <<>> THEN Japanese!NotFound ELSE Japanese!Image(Head(with))
  BY DEF Japanese!CatalogPreviewFor, s
<1> HIDE DEF with
<1> QED BY <1>3, <1>4 DEF Japanese!NotFound, Japanese!Image

LEMMA JapaneseImageByName ==
    Japanese!CatalogPreviewByName.kind \in {"NotFound", "Image"}
BY DEF Japanese!CatalogPreviewByName, Japanese!NotFound, Japanese!Image

\* Verdicts and pictures of the Japanese source that hold.
LEMMA JapaneseMiss ==
    ASSUME NEW res, NEW h, res.kind = "NotFound",
           h = <<>> \/ Japanese!HasPrintsForSet(ask.set) \/ SomeAnswered(h)
    PROVE  Honest("japanese", ask, res, h)
BY DEF Honest, HonestMiss, HonestImage, HonestNumbers, HonestPrints

LEMMA JapaneseImage ==
    ASSUME NEW res, NEW h, res.kind = "Image",
           WithoutTotal(ask.no) # NoNumber => LocalIdsMatch(res.of[1].no, WithoutTotal(ask.no))
    PROVE  Honest("japanese", ask, res, h)
BY DEF Honest, HonestMiss, HonestImage, HonestNumbers, HonestPrints

LEMMA JapaneseCatalogueImage ==
    ASSUME NEW no, NEW h,
           WithoutTotal(ask.no) # NoNumber => LocalIdsMatch(no, WithoutTotal(ask.no)),
           Japanese!HasPrintsForSet(ask.set) \/ SomeAnswered(h)
    PROVE  Honest("japanese", ask, Japanese!CatalogPreviewFor(no), h)
<1> DEFINE res == Japanese!CatalogPreviewFor(no)
<1>1. res.kind = "NotFound" \/ (res.kind = "Image" /\ res.of[1].no = no)
  BY JapaneseImageOfNumber
<1> HIDE DEF res
<1>2. Honest("japanese", ask, res, h)
  BY <1>1, JapaneseMiss, JapaneseImage
<1> QED BY <1>2 DEF res

\* No two prints of a list have one number.
NumbersDistinct(s) == \A i, j \in DOMAIN s : i # j => s[i].no # s[j].no

LEMMA JapaneseNumbersDiffer ==
    ASSUME NEW s, NumbersDistinct(s), NEW a, a.op = "byName", NEW h
    PROVE  Honest("japanese", a, Japanese!Prints(s), h)
BY DEF Honest, HonestMiss, HonestImage, HonestNumbers, HonestPrints, Differ, NumbersDistinct,
       Japanese!Prints

\* Taking elements of such a list leaves it one.
LEMMA DistinctOnesTaken ==
    ASSUME NEW X, NEW s \in Seq(X), NumbersDistinct(s), NEW at_ \in SUBSET (DOMAIN s)
    PROVE  ElementsAt(s, at_) \in Seq(X) /\ NumbersDistinct(ElementsAt(s, at_))
<1> DEFINE t == ElementsAt(s, at_)
<1>1. at_ \in SUBSET (1 .. Len(s)) /\ DOMAIN s = 1 .. Len(s) /\ Len(s) \in Nat
  OBVIOUS
<1>2. t \in Seq(X) /\ \E from : Taken(t, from, s, at_)
  BY <1>1, TakenInOrder
<1> HIDE DEF t
<1>3. PICK from : Taken(t, from, s, at_)
  BY <1>2
<1>4. DOMAIN t = 1 .. Len(t) /\ Len(t) \in Nat
  BY <1>2
<1>5. \A i \in DOMAIN t : t[i] = s[from[i]] /\ from[i] \in DOMAIN s /\ from[i] \in Nat
  BY <1>1, <1>3, <1>4 DEF Taken
<1>6. ASSUME NEW i \in DOMAIN t, NEW j \in DOMAIN t, i # j PROVE from[i] # from[j]
  <2>1. i < j \/ j < i
    BY <1>4, <1>6
  <2>2. from[i] < from[j] \/ from[j] < from[i]
    BY <1>3, <1>4, <2>1 DEF Taken
  <2> QED BY <1>5, <2>2
<1>7. NumbersDistinct(t)
  BY <1>5, <1>6 DEF NumbersDistinct
<1> QED BY <1>2, <1>7 DEF t

LEMMA DistinctOnesKept ==
    ASSUME NEW X, NEW s \in Seq(X), NumbersDistinct(s), NEW S
    PROVE  KeepIn(s, S) \in Seq(X) /\ NumbersDistinct(KeepIn(s, S))
<1> DEFINE at_ == {n \in DOMAIN s : s[n] \in S}
<1>1. at_ \in SUBSET (DOMAIN s) /\ KeepIn(s, S) = ElementsAt(s, at_)
  BY DEF KeepIn
<1> HIDE DEF at_
<1> QED BY <1>1, DistinctOnesTaken

\* So does moving some of them to the front.
LEMMA DistinctOnesMoved ==
    ASSUME NEW X, NEW s \in Seq(X), NumbersDistinct(s), NEW S, NEW T, S \cap T = {}
    PROVE  /\ KeepIn(s, S) \o KeepIn(s, T) \in Seq(X)
           /\ NumbersDistinct(KeepIn(s, S) \o KeepIn(s, T))
<1> DEFINE t == KeepIn(s, S)
           u == KeepIn(s, T)
           v == t \o u
<1>1. /\ t \in Seq(X) /\ NumbersDistinct(t) /\ \E from : Picked(t, from, s, S)
      /\ u \in Seq(X) /\ NumbersDistinct(u) /\ \E from : Picked(u, from, s, T)
  BY DistinctOnesKept, KeptInOrder
<1> HIDE DEF t, u
<1>2. DOMAIN s = 1 .. Len(s) /\ DOMAIN t = 1 .. Len(t) /\ DOMAIN u = 1 .. Len(u)
  BY <1>1
<1>3. ASSUME NEW i \in DOMAIN t, NEW j \in DOMAIN u PROVE t[i].no # u[j].no
  <2>1. PICK f : Picked(t, f, s, S)
    BY <1>1
  <2>2. PICK g : Picked(u, g, s, T)
    BY <1>1
  <2>3. f[i] \in DOMAIN s /\ t[i] = s[f[i]] /\ s[f[i]] \in S
    BY <1>2, <2>1 DEF Picked
  <2>4. g[j] \in DOMAIN s /\ u[j] = s[g[j]] /\ s[g[j]] \in T
    BY <1>2, <2>2 DEF Picked
  <2>5. f[i] # g[j]
    BY <2>3, <2>4
  <2> QED BY <2>3, <2>4, <2>5 DEF NumbersDistinct
<1>4. /\ v \in Seq(X) /\ Len(t) \in Nat /\ Len(u) \in Nat /\ DOMAIN v = 1 .. Len(t) + Len(u)
      /\ \A i \in 1 .. Len(t) : v[i] = t[i]
      /\ \A i \in 1 .. Len(u) : v[Len(t) + i] = u[i]
  BY <1>1
<1> HIDE DEF v
<1>5. \A i \in DOMAIN v : \/ i \in DOMAIN t /\ v[i] = t[i]
                          \/ i - Len(t) \in DOMAIN u /\ v[i] = u[i - Len(t)]
  <2> SUFFICES ASSUME NEW i \in DOMAIN v
               PROVE  \/ i \in DOMAIN t /\ v[i] = t[i]
                      \/ i - Len(t) \in DOMAIN u /\ v[i] = u[i - Len(t)]
    OBVIOUS
  <2>1. i \in 1 .. Len(t) \/ (i - Len(t) \in 1 .. Len(u) /\ Len(t) + (i - Len(t)) = i)
    BY <1>4
  <2> QED BY <1>2, <1>4, <2>1
<1>6. ASSUME NEW i \in DOMAIN v, NEW j \in DOMAIN v, i # j PROVE v[i].no # v[j].no
  <2>1. CASE i \in DOMAIN t /\ v[i] = t[i] /\ j \in DOMAIN t /\ v[j] = t[j]
    BY <1>1, <1>6, <2>1 DEF NumbersDistinct
  <2>2. CASE /\ i - Len(t) \in DOMAIN u /\ v[i] = u[i - Len(t)]
             /\ j - Len(t) \in DOMAIN u /\ v[j] = u[j - Len(t)]
    <3>1. i - Len(t) # j - Len(t)
      BY <1>4, <1>6
    <3> QED BY <1>1, <2>2, <3>1 DEF NumbersDistinct
  <2>3. CASE i \in DOMAIN t /\ v[i] = t[i] /\ j - Len(t) \in DOMAIN u /\ v[j] = u[j - Len(t)]
    BY <1>3, <2>3
  <2>4. CASE i - Len(t) \in DOMAIN u /\ v[i] = u[i - Len(t)] /\ j \in DOMAIN t /\ v[j] = t[j]
    BY <1>3, <2>4
  <2> QED BY <1>5, <2>1, <2>2, <2>3, <2>4
<1>7. NumbersDistinct(v)
  BY <1>6 DEF NumbersDistinct
<1> QED BY <1>4, <1>7 DEF v, t, u

\* The entries of a set, and those of a name among them, have different numbers.
LEMMA JapaneseEntriesDiffer ==
    ASSUME NEW set, NEW name
    PROVE  LET s == Japanese!FindPrintsByName(set, name)
           IN  s \in Seq(Japanese!Entries) /\ NumbersDistinct(s)
<1> DEFINE E == ToSet(CatalogPrints)
           T == {p \in E : p.set = set}
           u == KeepIn(CatalogPrints, T)
<1>0. Japanese!PrintsForSet(set) = u /\ Japanese!Entries = E
  BY JapaneseFilters DEF Japanese!PrintsForSet
<1>1. CatalogPrints \in Seq(E) /\ DOMAIN CatalogPrints = 1 .. Len(CatalogPrints)
  BY SourcesAssumption
<1>2. \A p \in T : p.set = set
  OBVIOUS
<1> HIDE DEF T, E
<1>3. u \in Seq(E) /\ \E from : Picked(u, from, CatalogPrints, T)
  BY <1>1, KeptInOrder
<1> HIDE DEF u
<1>4. PICK from : Picked(u, from, CatalogPrints, T)
  BY <1>3
<1>5. DOMAIN u = 1 .. Len(u) /\ Len(u) \in Nat
  BY <1>3
<1>6. \A i \in DOMAIN u : /\ from[i] \in DOMAIN CatalogPrints /\ from[i] \in Nat
                          /\ u[i] = CatalogPrints[from[i]] /\ u[i].set = set
  BY <1>1, <1>2, <1>4, <1>5 DEF Picked
<1>7. ASSUME NEW i \in DOMAIN u, NEW j \in DOMAIN u, i # j PROVE u[i].no # u[j].no
  <2>1. i < j \/ j < i
    BY <1>5, <1>7
  <2>2. from[i] < from[j] \/ from[j] < from[i]
    BY <1>4, <1>5, <2>1 DEF Picked
  <2>3. from[i] # from[j]
    BY <1>6, <2>2
  <2> QED BY <1>6, <2>3, SourcesAssumption
<1>8. NumbersDistinct(u)
  BY <1>7 DEF NumbersDistinct
<1>9. PICK S : Japanese!FindPrintsByName(set, name) = KeepIn(u, S)
  BY <1>0, JapaneseFilters DEF Japanese!FindPrintsByName
<1> QED BY <1>0, <1>3, <1>8, <1>9, DistinctOnesKept

\* Of entries with one picture the first is offered.
LEMMA JapaneseFirstPictures ==
    ASSUME NEW s \in Seq(Japanese!Entries), NumbersDistinct(s)
    PROVE  LET t == Japanese!FirstOfEach(s, Japanese!ArtKey)
           IN  t \in Seq(Japanese!Entries) /\ NumbersDistinct(t)
<1> DEFINE at_ == {n \in DOMAIN s : \A m \in 1 .. n - 1 : Japanese!ArtKey(s[m]) # Japanese!ArtKey(s[n])}
<1>1. Japanese!FirstOfEach(s, Japanese!ArtKey) = ElementsAt(s, at_) /\ at_ \in SUBSET (DOMAIN s)
  BY JapaneseFilters DEF Japanese!FirstOfEach
<1> HIDE DEF at_
<1> QED BY <1>1, DistinctOnesTaken

\* The entries with a picture come first.
LEMMA JapaneseImagedFirst ==
    ASSUME NEW s \in Seq(Japanese!Entries)
    PROVE  /\ Japanese!ImagedFirst(s) \in Seq(Japanese!Entries)
           /\ NumbersDistinct(s) => NumbersDistinct(Japanese!ImagedFirst(s))
<1> DEFINE S == {p \in Japanese!Entries : p.url # ""}
           T == {p \in Japanese!Entries : p.url = ""}
<1>1. Japanese!ImagedFirst(s) = KeepIn(s, S) \o KeepIn(s, T) /\ S \cap T = {}
  BY JapaneseFilters DEF Japanese!ImagedFirst
<1> HIDE DEF S, T
<1>2. KeepIn(s, S) \in Seq(Japanese!Entries) /\ KeepIn(s, T) \in Seq(Japanese!Entries)
  BY KeptInOrder
<1>3. KeepIn(s, S) \o KeepIn(s, T) \in Seq(Japanese!Entries)
  BY <1>2
<1> QED BY <1>1, <1>3, DistinctOnesMoved

\* The catalogue's prints of a name, one per number.
LEMMA JapaneseCataloguePrints ==
    ASSUME ask.op = "byName", NEW h
    PROVE  Honest("japanese", ask, Japanese!DetectPrintVariantsFromCatalog, h)
<1> DEFINE named == Japanese!FindPrintsByName(ask.set, ask.name)
           hits == Japanese!ImagedFirst(Japanese!FirstOfEach(named, Japanese!ArtKey))
           found == [i \in DOMAIN hits |-> Japanese!PrintOf(hits[i].no, "")]
<1>1. NumbersDistinct(hits)
  BY JapaneseEntriesDiffer, JapaneseFirstPictures, JapaneseImagedFirst
<1>2. Japanese!DetectPrintVariantsFromCatalog \in
        {Japanese!Prints(<<>>), Japanese!Prints(found), Japanese!Error}
  BY DEF Japanese!DetectPrintVariantsFromCatalog, Japanese!PrintsOrError
<1> HIDE DEF hits
<1>3. NumbersDistinct(found)
  BY <1>1 DEF NumbersDistinct, Japanese!PrintOf
<1> HIDE DEF found
<1>4. NumbersDistinct(<<>>)
  BY DEF NumbersDistinct
<1>5. Honest("japanese", ask, Japanese!Error, h)
  BY NoClaim DEF Japanese!Error
<1> QED BY <1>2, <1>3, <1>4, <1>5, JapaneseNumbersDiffer

\* A table over the places of a list is a list.
LEMMA TablesAreLists ==
    ASSUME NEW n \in Nat, NEW f, f = [i \in 1 .. n |-> f[i]]
    PROVE  f \in Seq(ToSet(f))
<1>1. \A i \in 1 .. n : f[i] \in ToSet(f)
  <2>1. DOMAIN f = 1 .. n
    OBVIOUS
  <2> QED BY <2>1 DEF ToSet, Range
<1> QED BY <1>1

\* The prints of a name among an upstream's rows, one per number.
LEMMA JapanesePrintsByName ==
    ASSUME NEW rows \in Seq(Rows), ask.op = "byName", NEW h
    PROVE  Honest("japanese", ask, Japanese!Prints(Japanese!ParsePrintVariants(rows)), h)
<1> DEFINE named == Japanese!FindPrintsByName(ask.set, ask.name)
<1>1. named \in Seq(Japanese!Entries) /\ NumbersDistinct(named)
  BY JapaneseEntriesDiffer
<1> DEFINE Shape(hits, S, rarity) ==
             /\ \/ hits = Japanese!FirstOfEach(named, Japanese!ArtKey)
                \/ \E T : hits = KeepIn(named, T)
             /\ LET first == Japanese!ImagedFirst(hits)
                    others == KeepIn(rows, S)
                IN  Japanese!ParsePrintVariants(rows) =
                      Japanese!FirstOfEach(
                        [i \in DOMAIN first |-> Japanese!PrintOf(first[i].no, rarity[i])]
                          \o [i \in DOMAIN others |-> Japanese!PrintOf(others[i].no, others[i].rarity)],
                        Japanese!PrintKey)
<1>2. PICK hits, S, rarity : Shape(hits, S, rarity)
  <2> DEFINE RowOf(p) == Japanese!KeepIn(rows, {r \in Japanese!Rows : Japanese!LocalIdsMatch(r.no, p.no)})
             T == {p \in Japanese!Entries :
                     RowOf(p) # <<>> /\ Japanese!CatalogPrintMatchesRow(p, Head(RowOf(p)))}
             S == {r \in Japanese!Rows : Japanese!NameMatchesRow(r)}
             hits == IF rows = <<>> THEN Japanese!FirstOfEach(named, Japanese!ArtKey)
                     ELSE Japanese!KeepIn(named, T)
             first == Japanese!ImagedFirst(hits)
             Rarity(p) == IF rows = <<>> THEN "" ELSE Head(RowOf(p)).rarity
             rarity == [i \in DOMAIN first |-> Rarity(first[i])]
             others == Japanese!KeepIn(rows, S)
  <2>1. Japanese!ParsePrintVariants(rows) =
          Japanese!FirstOfEach(
            [i \in DOMAIN first |-> Japanese!PrintOf(first[i].no, Rarity(first[i]))]
              \o [i \in DOMAIN others |-> Japanese!PrintOf(others[i].no, others[i].rarity)],
            Japanese!PrintKey)
    BY Zenon DEF Japanese!ParsePrintVariants
  <2>2. \/ hits = Japanese!FirstOfEach(named, Japanese!ArtKey)
        \/ \E U : hits = KeepIn(named, U)
    <3> HIDE DEF T, named
    <3> QED BY JapaneseFilters
  <2>3. others = KeepIn(rows, S)
    BY JapaneseFilters
  <2> HIDE DEF hits, S, Rarity, named
  <2>4. [i \in DOMAIN first |-> Japanese!PrintOf(first[i].no, Rarity(first[i]))] =
        [i \in DOMAIN first |-> Japanese!PrintOf(first[i].no, rarity[i])]
    OBVIOUS
  <2>5. Shape(hits, S, rarity)
    BY Zenon, <2>1, <2>2, <2>3, <2>4
  <2> HIDE DEF Shape, rarity
  <2> QED BY <2>5
<1> DEFINE first == Japanese!ImagedFirst(hits)
           others == KeepIn(rows, S)
           p1 == [i \in DOMAIN first |-> Japanese!PrintOf(first[i].no, rarity[i])]
           p2 == [i \in DOMAIN others |-> Japanese!PrintOf(others[i].no, others[i].rarity)]
           X == ToSet(p1) \cup ToSet(p2)
           s == p1 \o p2
           K == [n \in DOMAIN s |-> Japanese!PrintKey(s[n])]
           t == Firsts(s, K)
<1>3. hits \in Seq(Japanese!Entries)
  BY <1>1, <1>2, JapaneseFirstPictures, KeptInOrder
<1>4. first \in Seq(Japanese!Entries) /\ others \in Seq(Rows)
  BY <1>3, JapaneseImagedFirst, KeptInOrder
<1>5. p1 \in Seq(ToSet(p1)) /\ p2 \in Seq(ToSet(p2))
  <2> HIDE DEF first, others
  <2>1. DOMAIN first = 1 .. Len(first) /\ Len(first) \in Nat
    BY <1>4
  <2>2. DOMAIN others = 1 .. Len(others) /\ Len(others) \in Nat
    BY <1>4
  <2>3. p1 = [i \in 1 .. Len(first) |-> p1[i]]
    BY <2>1
  <2>4. p2 = [i \in 1 .. Len(others) |-> p2[i]]
    BY <2>2
  <2> HIDE DEF p1, p2
  <2> QED BY <2>1, <2>2, <2>3, <2>4, TablesAreLists
<1>6. Japanese!ParsePrintVariants(rows) = Japanese!FirstOfEach(s, Japanese!PrintKey)
  BY <1>2
<1> HIDE DEF p1, p2
<1>7. s \in Seq(X)
  BY <1>5
<1> HIDE DEF s
<1>8. Japanese!FirstOfEach(s, Japanese!PrintKey) = t
  <2>1. \A n \in DOMAIN s : \A m \in 1 .. n - 1 : m \in DOMAIN s
    BY <1>7
  <2>2. {n \in DOMAIN s : \A m \in 1 .. n - 1 : K[m] # K[n]} =
          {n \in DOMAIN s : \A m \in 1 .. n - 1 : Japanese!PrintKey(s[m]) # Japanese!PrintKey(s[n])}
    BY <2>1
  <2> QED BY <2>2, JapaneseFilters DEF Firsts, Japanese!FirstOfEach
<1>9. \A n \in DOMAIN s : K[n] = s[n].no
  BY DEF Japanese!PrintKey
<1> HIDE DEF K, X
<1>10. \A i, j \in DOMAIN t :
         i # j => \E m, n \in DOMAIN s : t[i] = s[m] /\ t[j] = s[n] /\ K[m] # K[n]
  BY <1>7, FirstsDiffer
<1> HIDE DEF t
<1>11. ASSUME NEW i \in DOMAIN t, NEW j \in DOMAIN t, i # j PROVE t[i].no # t[j].no
  <2>1. PICK m, n \in DOMAIN s : t[i] = s[m] /\ t[j] = s[n] /\ K[m] # K[n]
    BY <1>10, <1>11
  <2> QED BY <1>9, <2>1
<1>12. NumbersDistinct(t)
  BY <1>11 DEF NumbersDistinct
<1> QED BY <1>6, <1>8, <1>12, JapaneseNumbersDiffer

\* The first entry of a number has that number.
LEMMA JapaneseFirstEntry ==
    ASSUME NEW no, no # NoNumber, Japanese!EntriesOf(no) # <<>>
    PROVE  LocalIdsMatch(Head(Japanese!EntriesOf(no)).no, no)
<1> DEFINE E == ToSet(CatalogPrints)
           S == {p \in E : LocalIdsMatch(p.no, no)}
           s == Japanese!FindPrint(ask.set, no)
           u == KeepIn(Japanese!PrintsForSet(ask.set), S)
<1>1. Japanese!EntriesOf(no) = s \o u
  <2>1. S = {p \in Japanese!Entries : Japanese!LocalIdsMatch(p.no, no)}
    BY JapaneseFilters, JapaneseCompares
  <2> HIDE DEF S
  <2> QED BY <2>1, JapaneseFilters DEF Japanese!EntriesOf
<1>2. s \in Seq(E) /\ (s # <<>> => s[1].no = no)
  BY JapanesePrintsFound, JapaneseFilters
<1>3. Japanese!PrintsForSet(ask.set) \in Seq(E)
  <2>1. CatalogPrints \in Seq(E)
    BY SourcesAssumption
  <2>2. \E T : Japanese!PrintsForSet(ask.set) = KeepIn(CatalogPrints, T)
    BY JapaneseFilters DEF Japanese!PrintsForSet
  <2> QED BY <2>1, <2>2, KeptInOrder
<1>4. \A p \in S : LocalIdsMatch(p.no, no)
  OBVIOUS
<1> HIDE DEF S, s
<1>5. u \in Seq(E) /\ \A n \in 1 .. Len(u) : u[n] \in S
  BY <1>3, KeptWasThere
<1> HIDE DEF u, E
<1>6. CASE s # <<>>
  <2>1. Head(s \o u) = s[1]
    BY <1>2, <1>5, <1>6
  <2>2. LocalIdsMatch(no, no)
    BY DEF LocalIdsMatch
  <2> QED BY <1>1, <1>2, <1>6, <2>1, <2>2
<1>7. CASE s = <<>>
  <2>1. s \o u = u
    BY <1>5, <1>7
  <2>2. 1 \in 1 .. Len(u) /\ Head(u) = u[1]
    BY <1>1, <1>5, <2>1
  <2> QED BY <1>1, <1>4, <1>5, <2>1, <2>2
<1> QED BY <1>6, <1>7

\* The catalogue's print of a number.
LEMMA JapaneseCatalogueNumber ==
    ASSUME ask.op = "byNumber", WithoutTotal(ask.no) # NoNumber, NEW h
    PROVE  Honest("japanese", ask, Japanese!DetectVariantsBySetNoFromCatalog, h)
<1> DEFINE no == WithoutTotal(ask.no)
           found == Japanese!EntriesOf(no)
<1>1. found # <<>> => LocalIdsMatch(Head(found).no, no)
  BY JapaneseFirstEntry
<1>2. Honest("japanese", ask, Japanese!Error, h)
  BY NoClaim DEF Japanese!Error
<1>3. ASSUME NEW name, NEW rarity, found # <<>>
      PROVE  Honest("japanese", ask,
               Japanese!Prints(<<[name |-> name, no |-> Head(found).no, rarity |-> rarity]>>), h)
  <2> DEFINE n == Head(found).no
  <2>1. LocalIdsMatch(n, no)
    BY <1>1, <1>3
  <2> HIDE DEF n
  <2> QED BY <2>1 DEF Honest, HonestMiss, HonestImage, HonestNumbers, HonestPrints, IsTheNumber,
                      Japanese!Prints, n
<1>4. \E name, rarity :
        Japanese!DetectVariantsBySetNoFromCatalog =
          IF found = <<>> \/ name = "" THEN Japanese!Error
          ELSE Japanese!Prints(<<[name |-> name, no |-> Head(found).no, rarity |-> rarity]>>)
  <2> DEFINE name == IF Head(found).en # "" THEN Head(found).en ELSE Head(found).ja
  <2>1. Japanese!DetectVariantsBySetNoFromCatalog =
          IF found = <<>> \/ name = "" THEN Japanese!Error
          ELSE Japanese!Prints(<<[name |-> name, no |-> Head(found).no, rarity |-> ""]>>)
    BY Zenon, JapaneseCompares DEF Japanese!DetectVariantsBySetNoFromCatalog
  <2> HIDE DEF name, found
  <2> QED BY Zenon, <2>1
<1> HIDE DEF found
<1> QED BY <1>2, <1>3, <1>4

LEMMA JapaneseKeepsInv ==
    ASSUME SourcesInv, source = "japanese", Japanese!Next, UNCHANGED <<source, catalogVars>>
    PROVE  SourcesInv'
<1> DEFINE no == WithoutTotal(ask.no)
<1>0. heard \in Seq(Verdicts) /\ IsCatalog(catalogFile)' /\ IsCatalog(catalogCache)'
  BY DEF SourcesInv, SourcesTypeOK, catalogVars, IsCatalog
<1>a. /\ heard' = heard => SourcesSteady
      /\ \A reply : Hears(reply) => SourcesSteady
  BY <1>0, HeardGrows DEF SourcesSteady
<1>b. Honest(source, ask, Japanese!Error, heard') /\ Honest(source, ask, Japanese!Transient, heard')
  BY NoClaim DEF Japanese!Error, Japanese!Transient
<1>c. \A reply : Hears(reply) /\ Spoke(reply) => SomeAnswered(heard')
  BY <1>0, HeardGrows
<1>d. \A k : Pending(ask, "imageCard", k, heard') /\ Pending(ask, "imageDetail", k, heard')
  BY DEF Pending, NameRequests, NumberRequests
<1>e. ASSUME no # NoNumber PROVE LocalIdsMatch(no, no)
  BY <1>e DEF LocalIdsMatch
<1>f. Japanese!No = no /\ Japanese!NoNumber = NoNumber
  BY JapaneseCompares
<1>g. Japanese!Known(no) => Japanese!HasPrintsForSet(ask.set)
  BY JapanesePrintsFound DEF Japanese!Known
<1>h. ASSUME Japanese!HasPrintsForSet(ask.set) \/ SomeAnswered(heard')
      PROVE  /\ Honest(source, ask, Japanese!CatalogPreviewFor(no), heard')
             /\ no = NoNumber => Honest(source, ask, Japanese!CatalogPreviewByName, heard')
             /\ Honest(source, ask, Japanese!NotFound, heard')
  <2>1. Honest(source, ask, Japanese!CatalogPreviewFor(no), heard')
    BY <1>e, <1>h, JapaneseCatalogueImage
  <2>2. no = NoNumber => Honest(source, ask, Japanese!CatalogPreviewByName, heard')
    BY <1>h, JapaneseImageByName, JapaneseMiss, JapaneseImage
  <2>3. Honest(source, ask, Japanese!NotFound, heard')
    BY <1>h, JapaneseMiss DEF Japanese!NotFound
  <2> QED BY <2>1, <2>2, <2>3
<1>i. \A r : (no # NoNumber => LocalIdsMatch(r.no, no)) => Honest(source, ask, Japanese!Image(r), heard')
  BY JapaneseImage DEF Japanese!Image
<1> HIDE DEF no
<1>1. CASE Japanese!BeginImage
  <2>1. /\ heard' = heard /\ at = "Begin" /\ heard = <<>>
        /\ Ends(Japanese!NotFound) \/ Goes("imageCard", kept) \/ Goes("imageDetail", kept)
    BY <1>1 DEF Japanese!BeginImage, Japanese!Starts, Japanese!Ask, Japanese!Answer, Goes, Ends,
                SourcesInv, Pending
  <2>2. Honest(source, ask, Japanese!NotFound, heard')
    BY <2>1, JapaneseMiss DEF Japanese!NotFound
  <2> QED BY <1>a, <1>d, <2>1, <2>2, RequestKeepsInv, EndKeepsInv
<1>2. CASE Japanese!FetchCard
  <2>1. PICK reply \in CardReplies({r \in Rows : LocalIdsMatch(r.no, no)}) :
          /\ Hears(reply) /\ at = "imageCard"
          /\ \/ Ends(Japanese!Transient)
             \/ Japanese!Known(no) /\ Ends(Japanese!CatalogPreviewFor(no))
             \/ Goes("imageDetail", kept)
             \/ Spoke(reply) /\ Ends(Japanese!Image(Head(reply)))
    BY <1>2, <1>f, JapaneseSteps DEF Japanese!FetchCard, Japanese!Ask, Japanese!Answer, Goes, Ends, Spoke
  <2>2. Spoke(reply) => Honest(source, ask, Japanese!Image(Head(reply)), heard')
    <3>1. Spoke(reply) => \E r : reply = <<r>> /\ LocalIdsMatch(r.no, no)
      BY <2>1, ListsAreSequences
    <3>2. \A r : Head(<<r>>) = r
      OBVIOUS
    <3> QED BY <1>i, <3>1, <3>2
  <2> QED BY <1>a, <1>b, <1>d, <1>g, <1>h, <2>1, <2>2, RequestKeepsInv, EndKeepsInv
<1>3. CASE Japanese!FetchSetDetail
  <2>1. PICK reply \in ListReplies :
          /\ Hears(reply) /\ at = "imageDetail"
          /\ \/ Ends(Japanese!Transient)
             \/ Ends(Japanese!NoSetDetail)
             \/ Spoke(reply) /\ Ends(Japanese!NoRowChosen(reply))
             \/ /\ Spoke(reply) /\ Japanese!ChosenRows(reply) # <<>>
                /\ \/ Ends(Japanese!Image(Head(Japanese!ChosenRows(reply))))
                   \/ Goes("imageChosen", Head(Japanese!ChosenRows(reply)).no)
    BY <1>3, JapaneseSteps
       DEF Japanese!FetchSetDetail, Japanese!AskKeeping, Japanese!Answer, Goes, Ends, Spoke
  <2>2. Honest(source, ask, Japanese!NoSetDetail, heard')
    BY <1>b, <1>f, <1>g, <1>h DEF Japanese!NoSetDetail
  <2>3. Spoke(reply) => Honest(source, ask, Japanese!NoRowChosen(reply), heard')
    BY <1>c, <1>f, <1>h, <2>1 DEF Japanese!NoRowChosen
  <2>4. ASSUME Spoke(reply), Japanese!ChosenRows(reply) # <<>>, no # NoNumber
        PROVE  LocalIdsMatch(Head(Japanese!ChosenRows(reply)).no, no)
    <3> DEFINE S == {r \in Rows : IF no # NoNumber THEN LocalIdsMatch(r.no, no)
                                  ELSE ask.name # "" /\ Japanese!NameMatchesRow(r)}
    <3>1. S = {r \in Japanese!Rows : IF Japanese!No # Japanese!NoNumber
                                     THEN Japanese!LocalIdsMatch(r.no, Japanese!No)
                                     ELSE ask.name # "" /\ Japanese!NameMatchesRow(r)}
      BY <1>f, JapaneseSteps, JapaneseCompares
    <3>2. \A r \in S : LocalIdsMatch(r.no, no)
      BY <2>4
    <3> HIDE DEF S
    <3>3. Japanese!ChosenRows(reply) = KeepIn(reply, S)
      BY <3>1, JapaneseFilters DEF Japanese!ChosenRows
    <3>4. reply \in Seq(Rows)
      BY <2>1, <2>4, ListsAreSequences
    <3> QED BY <2>4, <3>2, <3>3, <3>4, KeptPasses
  <2>5. ASSUME Spoke(reply), Japanese!ChosenRows(reply) # <<>>
        PROVE  /\ Honest(source, ask, Japanese!Image(Head(Japanese!ChosenRows(reply))), heard')
               /\ Pending(ask, "imageChosen", Head(Japanese!ChosenRows(reply)).no, heard')
    <3>1. Honest(source, ask, Japanese!Image(Head(Japanese!ChosenRows(reply))), heard')
      BY <1>i, <2>4, <2>5
    <3>2. SomeAnswered(heard')
      BY <1>c, <2>1, <2>5
    <3>3. Pending(ask, "imageChosen", Head(Japanese!ChosenRows(reply)).no, heard')
      BY <2>4, <2>5, <3>2 DEF Pending, NameRequests, NumberRequests, no
    <3> QED BY <3>1, <3>3
  <2> QED BY <1>a, <1>b, <2>1, <2>2, <2>3, <2>5, RequestKeepsInv, EndKeepsInv
<1>4. CASE Japanese!FetchChosenCard
  <2>1. at = "imageChosen" /\ SomeAnswered(heard) /\ (no # NoNumber => LocalIdsMatch(kept, no))
    BY <1>4 DEF Japanese!FetchChosenCard, SourcesInv, Pending, no
  <2>2. PICK reply \in CardReplies({r \in Rows : LocalIdsMatch(r.no, kept)}) :
          /\ Hears(reply)
          /\ \/ Ends(Japanese!Transient)
             \/ Spoke(reply) /\ Ends(Japanese!Image(Head(reply)))
             \/ Ends(Japanese!CatalogPreviewFor(kept))
    BY <1>4, JapaneseSteps DEF Japanese!FetchChosenCard, Japanese!Answer, Ends
  <2>3. Spoke(reply) => Honest(source, ask, Japanese!Image(Head(reply)), heard')
    <3>1. Spoke(reply) => \E r : reply = <<r>> /\ LocalIdsMatch(r.no, kept)
      BY <2>2, ListsAreSequences
    <3>2. \A r : Head(<<r>>) = r
      OBVIOUS
    <3>3. \A r : LocalIdsMatch(r.no, kept) /\ no # NoNumber => LocalIdsMatch(r.no, no)
      BY <2>1, MatchesOfMatches
    <3> QED BY <1>i, <3>1, <3>2, <3>3
  <2>4. Honest(source, ask, Japanese!CatalogPreviewFor(kept), heard')
    <3>1. SomeAnswered(heard')
      BY <1>0, <2>1, <2>2, HeardGrows
    <3> QED BY <2>1, <3>1, JapaneseCatalogueImage DEF no
  <2> QED BY <1>a, <1>b, <2>2, <2>3, <2>4, EndKeepsInv
<1>5. CASE Japanese!BeginByName
  <2>1. /\ heard' = heard /\ at = "Begin" /\ ask.op = "byName"
        /\ Ends(Japanese!Error) \/ Goes("names", kept)
    BY <1>5 DEF Japanese!BeginByName, Japanese!Starts, Japanese!Ask, Japanese!Answer, Goes, Ends
  <2>2. Pending(ask, "names", kept, heard')
    BY <2>1 DEF Pending, NameRequests, NumberRequests
  <2> QED BY <1>a, <1>b, <2>1, <2>2, RequestKeepsInv, EndKeepsInv
<1>6. CASE Japanese!DetectPrintVariants
  <2>1. at = "names" /\ ask.op = "byName"
    BY <1>6 DEF Japanese!DetectPrintVariants, SourcesInv, Pending, NameRequests
  <2>2. PICK reply \in ListReplies :
          /\ Hears(reply)
          /\ \/ Spoke(reply) /\ Ends(Japanese!Prints(Japanese!ParsePrintVariants(reply)))
             \/ Ends(Japanese!DetectPrintVariantsFromCatalog)
    BY <1>6, JapaneseSteps DEF Japanese!DetectPrintVariants, Japanese!Answer, Ends
  <2>3. Spoke(reply) => Honest(source, ask, Japanese!Prints(Japanese!ParsePrintVariants(reply)), heard')
    BY <2>1, ListsAreSequences, JapanesePrintsByName
  <2>4. Honest(source, ask, Japanese!DetectPrintVariantsFromCatalog, heard')
    BY <2>1, JapaneseCataloguePrints
  <2> QED BY <1>a, <2>2, <2>3, <2>4, EndKeepsInv
<1>7. CASE Japanese!BeginByNumber
  <2>1. /\ heard' = heard /\ at = "Begin" /\ ask.op = "byNumber"
        /\ Ends(Japanese!Error) \/ (no # NoNumber /\ Goes("number", kept))
    BY <1>7, <1>f DEF Japanese!BeginByNumber, Japanese!Starts, Japanese!Ask, Japanese!Answer, Goes, Ends
  <2>2. no # NoNumber => Pending(ask, "number", kept, heard')
    BY <2>1 DEF Pending, NameRequests, NumberRequests, no
  <2> QED BY <1>a, <1>b, <2>1, <2>2, RequestKeepsInv, EndKeepsInv
<1>8. CASE Japanese!DetectVariantsBySetNo
  <2>1. at = "number" /\ ask.op = "byNumber" /\ no # NoNumber
    BY <1>8 DEF Japanese!DetectVariantsBySetNo, SourcesInv, Pending, NumberRequests, no
  <2>2. PICK reply \in CardReplies(Rows) : \E name, rarity :
          /\ Hears(reply)
          /\ \/ /\ Spoke(reply) /\ LocalIdsMatch(Head(reply).no, no)
                /\ Ends(Japanese!Prints(<<[name |-> name, no |-> WithoutTotal(Head(reply).no),
                                           rarity |-> rarity]>>))
             \/ Ends(Japanese!DetectVariantsBySetNoFromCatalog)
    BY <1>8, <1>f, JapaneseSteps, JapaneseCompares DEF Japanese!DetectVariantsBySetNo, Japanese!Answer, Ends
  <2>3. ASSUME Spoke(reply), LocalIdsMatch(Head(reply).no, no), NEW name, NEW rarity
        PROVE  Honest(source, ask,
                 Japanese!Prints(<<[name |-> name, no |-> WithoutTotal(Head(reply).no),
                                    rarity |-> rarity]>>), heard')
    <3>1. PICK r \in Rows : reply = <<r>>
      BY <2>3, ListsAreSequences
    <3>2. r.no \in Numbers /\ ask.no \in Numbers /\ Head(reply) = r
      BY <3>1, SourcesAssumption DEF SourcesInv, SourcesTypeOK, Rows
    <3>3. LocalIdsMatch(WithoutTotal(r.no), WithoutTotal(ask.no))
      BY <2>3, <3>2, CutNumbersMatch DEF no
    <3> DEFINE n == WithoutTotal(r.no)
    <3>4. LocalIdsMatch(n, WithoutTotal(ask.no))
      BY <3>3
    <3> HIDE DEF n
    <3>5. Honest("japanese", ask, Japanese!Prints(<<[name |-> name, no |-> n, rarity |-> rarity]>>), heard')
      BY <3>4 DEF Honest, HonestMiss, HonestImage, HonestNumbers, HonestPrints, IsTheNumber,
                  Japanese!Prints
    <3> QED BY <3>2, <3>5 DEF n
  <2>4. Honest(source, ask, Japanese!DetectVariantsBySetNoFromCatalog, heard')
    BY <2>1, JapaneseCatalogueNumber DEF no
  <2> QED BY <1>a, <2>2, <2>3, <2>4, EndKeepsInv
<1> QED BY <1>1, <1>2, <1>3, <1>4, <1>5, <1>6, <1>7, <1>8 DEF Japanese!Next

-----------------------------------------------------------------------------
\* The six sources, called one after the other.

\* What an answer owes is kept by every step: a call begins with nothing to answer for,
\* a request knows what it was made for, and an answer claims no more than was heard.
THEOREM SourcesAreHonest == SourcesSpec => []SourcesInv
<1>1. SourcesInit => SourcesInv
  <2> SUFFICES ASSUME SourcesInit PROVE SourcesInv
    OBVIOUS
  <2>1. SourcesTypeOK
    BY SourcesAssumption DEF SourcesInit, SourcesTypeOK, IsCatalog
  <2>2. Pending(ask, "Begin", kept, <<>>)
    BY DEF Pending, NameRequests, NumberRequests
  <2> QED BY <2>1, <2>2 DEF SourcesInit, SourcesInv
<1>2. ASSUME SourcesInv, [SourcesNext]_sourcesVars PROVE SourcesInv'
  <2>1. CASE Call
    <3>1. SourcesTypeOK'
      BY <1>2, <2>1 DEF Call, SourcesInv, SourcesTypeOK, catalogVars, IsCatalog
    <3>2. Pending(ask', "Begin", kept', <<>>)
      BY DEF Pending, NameRequests, NumberRequests
    <3> QED BY <2>1, <3>1, <3>2 DEF Call, SourcesInv
  <2>2. CASE UpdateCatalog
    <3>1. SourcesTypeOK'
      BY <1>2, <2>2, SourcesAssumption DEF UpdateCatalog, SourcesInv, SourcesTypeOK, IsCatalog
    <3> QED BY <2>2, <3>1 DEF UpdateCatalog, SourcesInv
  <2>3. CASE Lookup
    <3>1. CASE UNCHANGED <<source, catalogVars>> /\ source = "magic" /\ Magic!Next
      BY <1>2, <3>1, MagicKeepsInv
    <3>2. CASE UNCHANGED <<source, catalogVars>> /\ source = "pokemon" /\ Pokemon!Next
      BY <1>2, <3>2, PokemonKeepsInv
    <3>3. CASE UNCHANGED <<source, catalogVars>> /\ source = "japanese" /\ Japanese!Next
      BY <1>2, <3>3, JapaneseKeepsInv
    <3>4. CASE UNCHANGED <<source, catalogVars>> /\ source = "bandai" /\ Bandai!Next
      BY <1>2, <3>4, BandaiKeepsInv
    <3>5. CASE UNCHANGED <<source, catalogVars>> /\ source = "digi" /\ Digi!Next
      BY <1>2, <3>5, DigiKeepsInv
    <3>6. CASE UNCHANGED source /\ source = "yugioh" /\ YuGiOh!Next
      BY <1>2, <3>6, YuGiOhKeepsInv
    <3> QED BY Zenon, <2>3, <3>1, <3>2, <3>3, <3>4, <3>5, <3>6 DEF Lookup, catalogVars
  <2>4. CASE UNCHANGED sourcesVars
    BY <1>2, <2>4 DEF sourcesVars, lookupVars, catalogVars, SourcesInv, SourcesTypeOK, IsCatalog
  <2> QED BY <1>2, <2>1, <2>2, <2>3, <2>4 DEF SourcesNext
<1> QED BY <1>1, <1>2, PTL DEF SourcesSpec

\* An answer is given at the end of a call, and is honest.
LEMMA AnswersAreHonest ==
    ASSUME SourcesInv, result # Nothing
    PROVE  Honest(source, ask, result, heard) /\ heard \in Seq(Verdicts)
BY DEF SourcesInv, SourcesTypeOK

\* A verdict "no image", which is stored for good, rests on upstreams that answered.
THEOREM MissesAreConfirmedAlways == SourcesSpec => []MissesAreConfirmed
<1>1. SourcesInv => MissesAreConfirmed
  <2> SUFFICES ASSUME SourcesInv, Answers("NotFound"), heard # <<>>
               PROVE  CASE source \in {"magic", "yugioh", "digi"} -> \A i \in DOMAIN heard : Answered(i)
                        [] source \in {"pokemon", "bandai"} -> Answered(Len(heard))
                        [] OTHER -> Japanese!HasPrintsForSet(ask.set) \/ \E i \in DOMAIN heard : Answered(i)
    BY DEF MissesAreConfirmed
  <2>1. HonestMiss(source, ask, result, heard) /\ result.kind = "NotFound" /\ heard \in Seq(Verdicts)
    BY AnswersAreHonest DEF Answers, Honest
  <2>2. DOMAIN heard = 1 .. Len(heard)
    BY <2>1
  <2> QED BY <2>1, <2>2 DEF HonestMiss, AllAnswered, SomeAnswered, Answered
<1> QED BY <1>1, SourcesAreHonest, PTL

\* No namesake and no neighbour lends a Japanese card its picture.
THEOREM NoBorrowedArtEver == SourcesSpec => []NoBorrowedArt
<1>1. SourcesInv => NoBorrowedArt
  <2> SUFFICES ASSUME SourcesInv, source = "japanese", Answers("Image"), Japanese!No # NoNumber
               PROVE  LocalIdsMatch(result.of[1].no, Japanese!No)
    BY DEF NoBorrowedArt
  <2>1. HonestImage(source, ask, result) /\ result.kind = "Image"
    BY AnswersAreHonest DEF Answers, Honest
  <2> QED BY <2>1, JapaneseCompares DEF HonestImage
<1> QED BY <1>1, SourcesAreHonest, PTL

\* Detection by number never answers another number.
THEOREM NumbersAreTheAskedOnesAlways == SourcesSpec => []NumbersAreTheAskedOnes
<1>1. SourcesInv => NumbersAreTheAskedOnes
  <2> SUFFICES ASSUME SourcesInv, Answers("Prints"), ask.op = "byNumber", NEW i \in DOMAIN result.of
               PROVE  LET no == result.of[i].no
                      IN  CASE source \in {"pokemon", "japanese"} -> LocalIdsMatch(no, WithoutTotal(ask.no))
                            [] source = "yugioh" -> DigitsEqual(no, ask.no)
                            [] source = "bandai" -> NormalizeCardNumber(no) = NormalizeCardNumber(ask.no)
                            [] OTHER -> CardNumbersMatch(ask.no, no)
    BY DEF NumbersAreTheAskedOnes
  <2>1. HonestNumbers(source, ask, result) /\ result.kind = "Prints"
    BY AnswersAreHonest DEF Answers, Honest
  <2>2. IsTheNumber(source, ask, result.of[i].no)
    BY <2>1 DEF HonestNumbers
  <2> QED BY <2>2 DEF IsTheNumber
<1> QED BY <1>1, SourcesAreHonest, PTL

\* What Next steps through has no print twice.
THEOREM PrintsAreDistinctAlways == SourcesSpec => []PrintsAreDistinct
<1>1. SourcesInv => PrintsAreDistinct
  <2> SUFFICES ASSUME SourcesInv, Answers("Prints"), source # "bandai",
                      NEW i \in DOMAIN result.of, NEW j \in DOMAIN result.of, i # j
               PROVE  \/ result.of[i].no # result.of[j].no
                      \/ /\ source # "digi" /\ source # "japanese"
                         /\ \/ result.of[i].rarity # result.of[j].rarity
                            \/ ask.op = "byNumber" /\ result.of[i].name # result.of[j].name
    BY DEF PrintsAreDistinct
  <2>1. HonestPrints(source, ask, result) /\ result.kind = "Prints"
    BY AnswersAreHonest DEF Answers, Honest
  <2> QED BY <2>1 DEF HonestPrints, Differ
<1> QED BY <1>1, SourcesAreHonest, PTL
=============================================================================
