--------------------- MODULE CardPreviewService_proofs ---------------------
(***************************************************************************)
(* Proofs about CardPreviewService, for any keys, any number of workers,   *)
(* any capacity of the memory tier and any misbehaviour of the network and *)
(* the disk: the list and the index of the memory tier agree, and what the *)
(* tiers remember is what the upstream said.                               *)
(***************************************************************************)
EXTENDS CardPreviewService, TLAPS

-----------------------------------------------------------------------------
(***************************************************************************)
(* The inductive invariant: the properties to prove, and what a call in    *)
(* flight carries.                                                         *)
(***************************************************************************)
CallsAreSound ==
    \A w \in Workers :
      /\ call[w].pc \in {"promote", "memStore", "diskStore"} =>
            /\ call[w].verdict \in Entries \ {Nothing}
            /\ call[w].key \in UrlKeys => call[w].verdict # Negative
      /\ call[w].pc \in {"memStore", "diskStore"} => call[w].verdict \in Verdicts
      /\ call[w].pc = "resolve" => call[w].key \notin UrlKeys

TiersComeFromUpstream ==
    \A k \in Keys : /\ memo[k] \in Verdicts => <<k, memo[k]>> \in answered
                    /\ disk[k] \in Verdicts => <<k, disk[k]>> \in answered

CallsComeFromUpstream ==
    \A w \in Workers : call[w].verdict \in Verdicts =>
                          <<call[w].key, call[w].verdict>> \in answered

IInv == /\ TypeOK
        /\ ListAndIndexAgree
        /\ CallsAreSound
        /\ TiersComeFromUpstream
        /\ CallsComeFromUpstream
        /\ UrlsAreNeverNegative

-----------------------------------------------------------------------------
(***************************************************************************)
(* The memory tier.                                                        *)
(***************************************************************************)

Lists(s, k) == \E i \in 1 .. Len(s) : s[i] = k
NoRepeats(s) == \A i, j \in 1 .. Len(s) : s[i] = s[j] => i = j

\* Moving a listed key to the front permutes the list.
LEMMA MoveToFrontPermutes ==
    ASSUME NEW s \in Seq(Keys), NoRepeats(s), NEW k \in Keys, Lists(s, k)
    PROVE  /\ MoveToFront(s, k) \in Seq(Keys)
           /\ Len(MoveToFront(s, k)) = Len(s)
           /\ NoRepeats(MoveToFront(s, k))
           /\ \A j \in Keys : Lists(MoveToFront(s, k), j) <=> Lists(s, j)
<1> DEFINE p == CHOOSE i \in DOMAIN s : s[i] = k
           n == Len(s)
           m == MoveToFront(s, k)
           from(i) == IF i = 1 THEN p ELSE IF i <= p THEN i - 1 ELSE i
<1>1. n \in Nat /\ DOMAIN s = 1 .. n
  OBVIOUS
<1>2. p \in 1 .. n /\ s[p] = k
  BY <1>1 DEF Lists
<1>3. m = [i \in 1 .. n |-> IF i = 1 THEN k ELSE IF i <= p THEN s[i - 1] ELSE s[i]]
  BY <1>1 DEF MoveToFront
<1> HIDE DEF p, n, m
<1>4. \A i \in 1 .. n : from(i) \in 1 .. n /\ m[i] = s[from(i)]
  BY <1>1, <1>2, <1>3
<1>5. \A i, j \in 1 .. n : from(i) = from(j) => i = j
  BY <1>1, <1>2
<1>6. \A j \in 1 .. n : \E i \in 1 .. n : from(i) = j
  <2> SUFFICES ASSUME NEW j \in 1 .. n PROVE \E i \in 1 .. n : from(i) = j
    OBVIOUS
  <2>1. CASE j = p
    <3>1. 1 \in 1 .. n /\ from(1) = j
      BY <2>1, <1>1, <1>2
    <3> QED BY <3>1
  <2>2. CASE j < p
    <3>1. j + 1 \in 1 .. n /\ from(j + 1) = j
      BY <2>2, <1>1, <1>2
    <3> QED BY <3>1
  <2>3. CASE j > p
    <3>1. from(j) = j
      BY <2>3, <1>1, <1>2
    <3> QED BY <3>1
  <2> QED BY <2>1, <2>2, <2>3, <1>1, <1>2
<1>7. m \in [1 .. n -> Keys]
  BY <1>3, <1>4, <1>1 DEF n
<1>8. m \in Seq(Keys) /\ Len(m) = n
  BY <1>7, <1>1
<1>9. NoRepeats(m)
  <2> HIDE DEF from
  <2>1. NoRepeats(s)
    OBVIOUS
  <2> QED BY <2>1, <1>4, <1>5, <1>8 DEF NoRepeats, n
<1>10. \A j \in Keys : Lists(m, j) <=> Lists(s, j)
  <2> HIDE DEF from
  <2> QED BY <1>4, <1>6, <1>8 DEF Lists, n
<1> QED BY <1>8, <1>9, <1>10 DEF m, n

\* Putting a key in front of a list that does not hold it.
LEMMA PushFrontLists ==
    ASSUME NEW t \in Seq(Keys), NoRepeats(t), NEW k \in Keys, ~ Lists(t, k)
    PROVE  /\ <<k>> \o t \in Seq(Keys)
           /\ Len(<<k>> \o t) = Len(t) + 1
           /\ NoRepeats(<<k>> \o t)
           /\ \A j \in Keys : Lists(<<k>> \o t, j) <=> (j = k \/ Lists(t, j))
<1> DEFINE s == <<k>> \o t
<1>1. /\ s \in Seq(Keys) /\ Len(t) \in Nat /\ Len(s) = Len(t) + 1
      /\ s[1] = k
      /\ \A i \in 1 .. Len(t) : s[i + 1] = t[i]
  OBVIOUS
<1> HIDE DEF s
<1>2. \A i \in 1 .. Len(s) : i = 1 \/ (i - 1 \in 1 .. Len(t) /\ s[i] = t[i - 1])
  <2> TAKE i \in 1 .. Len(s)
  <2>1. CASE i = 1
    BY <2>1
  <2>2. CASE i # 1
    <3>1. i - 1 \in 1 .. Len(t) /\ (i - 1) + 1 = i
      BY <2>2, <1>1
    <3> QED BY <3>1, <1>1
  <2> QED BY <2>1, <2>2
<1>3. NoRepeats(s)
  <2> SUFFICES ASSUME NEW i \in 1 .. Len(s), NEW j \in 1 .. Len(s), s[i] = s[j]
               PROVE  i = j
    BY DEF NoRepeats
  <2>1. CASE i = 1 \/ j = 1
    BY <2>1, <1>1, <1>2 DEF Lists
  <2>2. CASE i # 1 /\ j # 1
    <3>1. i - 1 = j - 1
      BY <2>2, <1>2 DEF NoRepeats
    <3> QED BY <3>1
  <2> QED BY <2>1, <2>2
<1>4. \A j \in Keys : Lists(s, j) <=> (j = k \/ Lists(t, j))
  <2> TAKE j \in Keys
  <2>1. ASSUME Lists(s, j) PROVE j = k \/ Lists(t, j)
    BY <2>1, <1>1, <1>2 DEF Lists
  <2>2. ASSUME j = k PROVE Lists(s, j)
    <3>1. 1 \in 1 .. Len(s)
      BY <1>1
    <3> QED BY <3>1, <2>2, <1>1 DEF Lists
  <2>3. ASSUME Lists(t, j) PROVE Lists(s, j)
    <3>1. PICK i \in 1 .. Len(t) : t[i] = j
      BY <2>3 DEF Lists
    <3>2. i + 1 \in 1 .. Len(s) /\ s[i + 1] = j
      BY <3>1, <1>1
    <3> QED BY <3>2 DEF Lists
  <2> QED BY <2>1, <2>2, <2>3
<1> QED BY <1>1, <1>3, <1>4 DEF s

\* What list and index say of each other, with the words of this section.
LEMMA AgreementIs ==
    ListAndIndexAgree <=> /\ Len(lru) <= kCacheCapacity
                          /\ NoRepeats(lru)
                          /\ \A k \in Keys : memo[k] # Nothing <=> Lists(lru, k)
BY DEF ListAndIndexAgree, NoRepeats, Lists

\* Recording a use keeps usedAfter a relation on keys.
LEMMA UsedIsTyped ==
    ASSUME TypeOK, NEW k \in Keys, Used(k)
    PROVE  usedAfter' \in SUBSET (Keys \X Keys)
BY DEF Used, TypeOK

\* touchEntry moves a listed key, and lists no other.
LEMMA TouchEntryKeepsAgreement ==
    ASSUME TypeOK, ListAndIndexAgree, NEW k \in Keys, memo[k] # Nothing, TouchEntry(k)
    PROVE  /\ lru' \in Seq(Keys) /\ memo' = memo /\ usedAfter' \in SUBSET (Keys \X Keys)
           /\ ListAndIndexAgree'
<1>1. lru \in Seq(Keys) /\ NoRepeats(lru) /\ Lists(lru, k)
  BY AgreementIs DEF TypeOK
<1>2. lru' = MoveToFront(lru, k) /\ memo' = memo /\ Used(k)
  BY DEF TouchEntry
<1>3. /\ lru' \in Seq(Keys) /\ Len(lru') = Len(lru) /\ NoRepeats(lru')
      /\ \A j \in Keys : Lists(lru', j) <=> Lists(lru, j)
  BY <1>1, <1>2, MoveToFrontPermutes
<1>4. ListAndIndexAgree'
  <2>1. /\ Len(lru') <= kCacheCapacity
        /\ \A j \in Keys : memo'[j] # Nothing <=> Lists(lru', j)
    BY <1>2, <1>3, AgreementIs
  <2> QED BY <2>1, <1>3 DEF ListAndIndexAgree, NoRepeats, Lists
<1> QED BY <1>2, <1>3, <1>4, UsedIsTyped

\* cacheStore lists the key it stores, and drops an entry with its place in the list.
LEMMA CacheStoreKeepsAgreement ==
    ASSUME TypeOK, ListAndIndexAgree, NEW k \in Keys, NEW v \in Entries \ {Nothing},
           CacheStore(k, v)
    PROVE  /\ lru' \in Seq(Keys) /\ memo' \in [Keys -> Entries]
           /\ usedAfter' \in SUBSET (Keys \X Keys)
           /\ ListAndIndexAgree'
           /\ memo'[k] = v
           /\ \A j \in Keys \ {k} : memo'[j] \in {memo[j], Nothing}
<1> USE ServiceAssumption
<1> DEFINE n == Len(lru)
           cap == kCacheCapacity
<1>1. /\ lru \in Seq(Keys) /\ memo \in [Keys -> Entries] /\ Used(k)
      /\ n \in Nat /\ cap \in Nat \ {0} /\ n <= cap
      /\ NoRepeats(lru)
      /\ \A j \in Keys : memo[j] # Nothing <=> Lists(lru, j)
  BY AgreementIs DEF TypeOK, CacheStore
<1>2. SUFFICES /\ lru' \in Seq(Keys) /\ memo' \in [Keys -> Entries]
               /\ Len(lru') <= cap /\ NoRepeats(lru')
               /\ \A j \in Keys : memo'[j] # Nothing <=> Lists(lru', j)
               /\ memo'[k] = v
               /\ \A j \in Keys \ {k} : memo'[j] \in {memo[j], Nothing}
  BY <1>1, UsedIsTyped DEF ListAndIndexAgree, NoRepeats, Lists
<1>3. CASE memo[k] # Nothing
  <2>1. lru' = MoveToFront(lru, k) /\ memo' = [memo EXCEPT ![k] = v]
    BY <1>3 DEF CacheStore
  <2>2. /\ lru' \in Seq(Keys) /\ Len(lru') = n /\ NoRepeats(lru')
        /\ \A j \in Keys : Lists(lru', j) <=> Lists(lru, j)
    BY <1>1, <1>3, <2>1, MoveToFrontPermutes
  <2> QED BY <1>1, <1>3, <2>1, <2>2
<1>4. CASE memo[k] = Nothing /\ n < cap
  <2>1. lru' = <<k>> \o lru /\ memo' = [memo EXCEPT ![k] = v]
    BY <1>4 DEF CacheStore
  <2>2. ~ Lists(lru, k)
    BY <1>1, <1>4
  <2>3. /\ lru' \in Seq(Keys) /\ Len(lru') = n + 1 /\ NoRepeats(lru')
        /\ \A j \in Keys : Lists(lru', j) <=> (j = k \/ Lists(lru, j))
    BY <1>1, <2>1, <2>2, PushFrontLists
  <2> QED BY <1>1, <1>4, <2>1, <2>3
<1>5. CASE memo[k] = Nothing /\ ~ (n < cap)
  <2> DEFINE t == SubSeq(lru, 1, cap - 1)
             last == lru[cap]
  <2>1. lru' = <<k>> \o t /\ memo' = [memo EXCEPT ![last] = Nothing, ![k] = v]
    BY <1>5 DEF CacheStore
  <2>2. n = cap /\ cap \in 1 .. n /\ last \in Keys
    BY <1>1, <1>5
  <2>3. /\ t \in Seq(Keys) /\ Len(t) = cap - 1
        /\ \A i \in 1 .. (cap - 1) : t[i] = lru[i]
    BY <1>1, <2>2
  <2> HIDE DEF t, last
  <2>4. NoRepeats(t)
    BY <1>1, <2>2, <2>3 DEF NoRepeats
  <2>5. \A j \in Keys : Lists(t, j) <=> (Lists(lru, j) /\ j # last)
    <3> TAKE j \in Keys
    <3>1. ASSUME Lists(t, j) PROVE Lists(lru, j) /\ j # last
      <4>1. PICK i \in 1 .. (cap - 1) : t[i] = j
        BY <3>1, <2>3 DEF Lists
      <4>2. i \in 1 .. n /\ i # cap /\ lru[i] = j
        BY <4>1, <2>2, <2>3, <1>1
      <4> QED BY <4>2, <2>2, <1>1 DEF Lists, NoRepeats, last
    <3>2. ASSUME Lists(lru, j), j # last PROVE Lists(t, j)
      <4>1. PICK i \in 1 .. n : lru[i] = j
        BY <3>2 DEF Lists
      <4>2. i # cap
        BY <4>1, <3>2 DEF last
      <4>3. i \in 1 .. (cap - 1) /\ t[i] = j
        BY <4>1, <4>2, <2>2, <2>3, <1>1
      <4> QED BY <4>3, <2>3 DEF Lists
    <3> QED BY <3>1, <3>2
  <2>6. ~ Lists(t, k)
    BY <1>1, <1>5, <2>5
  <2>7. /\ lru' \in Seq(Keys) /\ Len(lru') = cap /\ NoRepeats(lru')
        /\ \A j \in Keys : Lists(lru', j) <=> (j = k \/ Lists(t, j))
    BY <1>1, <2>1, <2>3, <2>4, <2>6, PushFrontLists
  <2>8. memo' \in [Keys -> Entries]
    BY <1>1, <2>1, <2>2 DEF Entries
  <2>9. \A j \in Keys : memo'[j] = IF j = k THEN v ELSE IF j = last THEN Nothing ELSE memo[j]
    BY <1>1, <2>1, <2>2
  <2> QED BY <1>1, <1>5, <2>5, <2>7, <2>8, <2>9
<1> QED BY <1>3, <1>4, <1>5

-----------------------------------------------------------------------------
(***************************************************************************)
(* The calls.                                                              *)
(***************************************************************************)
CallsAreTyped ==
    /\ call \in [Workers -> Calls]
    /\ \A w \in Workers : call[w].pc # "done" => call[w].key \in Keys

\* What a call may carry to its next step.
MayCarry(k, pc, v) ==
    /\ pc \in PCs /\ v \in Entries \cup {Error}
    /\ pc \in {"promote", "memStore", "diskStore"} =>
          v \in Entries \ {Nothing} /\ (k \in UrlKeys => v # Negative)
    /\ pc \in {"memStore", "diskStore"} => v \in Verdicts
    /\ pc = "resolve" => k \notin UrlKeys
    /\ v \in Verdicts => <<k, v>> \in answered'

\* A call that goes on carries what it may carry, and the other calls stay.
LEMMA GotoKeepsCalls ==
    ASSUME IInv, NEW w \in Workers, call[w].pc # "done",
           NEW pc, NEW v, Goto(w, pc, v), MayCarry(call[w].key, pc, v),
           answered \subseteq answered'
    PROVE  CallsAreTyped' /\ CallsAreSound' /\ CallsComeFromUpstream'
<1> DEFINE c == [call[w] EXCEPT !.pc = pc, !.verdict = v]
<1>1. call \in [Workers -> Calls] /\ call[w] \in Calls /\ call[w].key \in Keys
  BY DEF IInv, TypeOK
<1>2. /\ c \in Calls /\ c.pc = pc /\ c.verdict = v /\ c.key = call[w].key
  BY <1>1 DEF Calls, MayCarry
<1>3. call' = [call EXCEPT ![w] = c]
  BY DEF Goto
<1> HIDE DEF c
<1>4. /\ call' \in [Workers -> Calls] /\ call'[w] = c
      /\ \A x \in Workers \ {w} : call'[x] = call[x]
  BY <1>1, <1>2, <1>3
<1>5. CallsAreTyped'
  BY <1>1, <1>2, <1>4 DEF CallsAreTyped, IInv, TypeOK
<1>6. CallsAreSound'
  BY <1>2, <1>4 DEF CallsAreSound, MayCarry, IInv
<1>7. CallsComeFromUpstream'
  BY <1>2, <1>4 DEF CallsComeFromUpstream, MayCarry, IInv
<1> QED BY <1>5, <1>6, <1>7

\* The parts of the invariant that speak of the tiers.
TiersAreSound ==
    /\ lru \in Seq(Keys)
    /\ memo \in [Keys -> Entries]
    /\ disk \in [Keys -> Entries]
    /\ usedAfter \in SUBSET (Keys \X Keys)
    /\ ListAndIndexAgree
    /\ TiersComeFromUpstream
    /\ UrlsAreNeverNegative

\* What has been answered stays answered, so untouched tiers stay sound.
LEMMA UntouchedTiersStaySound ==
    ASSUME IInv, UNCHANGED <<memoryTier, disk>>, answered \subseteq answered'
    PROVE  TiersAreSound'
BY DEF IInv, TypeOK, TiersAreSound, memoryTier, ListAndIndexAgree, TiersComeFromUpstream,
       UrlsAreNeverNegative

\* A store of what the upstream said, or of what the disk held.
LEMMA CacheStoreKeepsTiers ==
    ASSUME IInv, NEW k \in Keys, NEW v \in Entries \ {Nothing}, CacheStore(k, v),
           UNCHANGED <<disk, answered>>,
           v \in Verdicts => <<k, v>> \in answered,
           k \in UrlKeys => v # Negative
    PROVE  TiersAreSound'
<1>1. /\ lru' \in Seq(Keys) /\ memo' \in [Keys -> Entries]
      /\ usedAfter' \in SUBSET (Keys \X Keys)
      /\ ListAndIndexAgree'
      /\ memo'[k] = v
      /\ \A j \in Keys \ {k} : memo'[j] \in {memo[j], Nothing}
  BY CacheStoreKeepsAgreement DEF IInv
<1>2. TiersComeFromUpstream'
  <2>1. Nothing \notin Verdicts
    BY ServiceAssumption DEF Verdicts
  <2> QED BY <1>1, <2>1 DEF IInv, TiersComeFromUpstream
<1>3. UrlsAreNeverNegative'
  BY <1>1, ServiceAssumption DEF IInv, UrlsAreNeverNegative
<1> QED BY <1>1, <1>2, <1>3 DEF TiersAreSound, IInv, TypeOK

\* Everything else that TypeOK speaks of.
RestIsTyped ==
    /\ upstream \in [Keys -> Verdicts]
    /\ troubles \in 0 .. MaxTroubles
    /\ answered \subseteq Keys \X Verdicts
    /\ strained \subseteq Keys

\* The invariant, put together from its parts.
LEMMA PartsMakeIInv ==
    ASSUME TiersAreSound', CallsAreTyped', CallsAreSound', CallsComeFromUpstream', RestIsTyped'
    PROVE  IInv'
BY DEF IInv, TypeOK, TiersAreSound, CallsAreTyped, RestIsTyped

-----------------------------------------------------------------------------
(***************************************************************************)
(* The steps of a call, one lemma each.                                    *)
(***************************************************************************)
LEMMA EnterKeepsIInv ==
    ASSUME IInv, NEW w \in Workers, NEW k \in Keys, Enter(w, k)
    PROVE  IInv'
<1> DEFINE c == IF k \in Unsourced
                THEN [pc |-> "done", key |-> k, verdict |-> Error]
                ELSE [pc |-> "lookup", key |-> k, verdict |-> Nothing]
<1>1. /\ c \in Calls /\ c.key = k /\ c.pc \in {"done", "lookup"}
      /\ c.verdict \notin Verdicts
  BY ServiceAssumption DEF Calls, PCs, Entries, Verdicts
<1>2. call' = [call EXCEPT ![w] = c] /\ call \in [Workers -> Calls]
  BY DEF Enter, IInv, TypeOK
<1>3. UNCHANGED <<memoryTier, disk, world, answered>>
  BY DEF Enter
<1> HIDE DEF c
<1>4. /\ call' \in [Workers -> Calls] /\ call'[w] = c
      /\ \A x \in Workers \ {w} : call'[x] = call[x]
  BY <1>1, <1>2
<1>5. CallsAreTyped'
  BY <1>1, <1>4 DEF CallsAreTyped, IInv, TypeOK
<1>6. CallsAreSound' /\ CallsComeFromUpstream'
  BY <1>1, <1>3, <1>4 DEF CallsAreSound, CallsComeFromUpstream, IInv
<1>7. RestIsTyped'
  BY <1>3 DEF Enter, RestIsTyped, IInv, TypeOK, world
<1> QED BY <1>3, <1>5, <1>6, <1>7, UntouchedTiersStaySound, PartsMakeIInv

\* The invariant, for the first look in memory.
LEMMA CacheLookupKeepsIInv ==
    ASSUME IInv, NEW w \in Workers, CacheLookup(w)
    PROVE  IInv'
<1> DEFINE k == call[w].key
<1>1. /\ call[w].pc = "lookup" /\ k \in Keys /\ memo[k] \in Entries
      /\ UNCHANGED <<disk, world, answered, strained>>
  BY DEF CacheLookup, IInv, TypeOK
<1>2. \E pc, v : Goto(w, pc, v) /\ MayCarry(k, pc, v)
  <2>1. MayCarry(k, "load", Nothing)
    BY ServiceAssumption DEF MayCarry, PCs, Entries, Verdicts
  <2>2. MayCarry(k, "done", memo[k])
    BY <1>1 DEF MayCarry, PCs, IInv, TiersComeFromUpstream
  <2> QED BY <2>1, <2>2 DEF CacheLookup
<1>3. CallsAreTyped' /\ CallsAreSound' /\ CallsComeFromUpstream'
  BY <1>1, <1>2, GotoKeepsCalls
<1>4. TiersAreSound'
  <2>1. CASE memo[k] # Nothing /\ TouchEntry(k)
    <3>1. /\ lru' \in Seq(Keys) /\ memo' = memo /\ usedAfter' \in SUBSET (Keys \X Keys)
          /\ ListAndIndexAgree'
      BY <1>1, <2>1, TouchEntryKeepsAgreement DEF IInv
    <3> QED BY <1>1, <3>1
            DEF TiersAreSound, IInv, TypeOK, TiersComeFromUpstream, UrlsAreNeverNegative
  <2>2. CASE UNCHANGED memoryTier
    BY <1>1, <2>2, UntouchedTiersStaySound
  <2> QED BY <2>1, <2>2 DEF CacheLookup
<1>5. RestIsTyped'
  BY <1>1 DEF RestIsTyped, IInv, TypeOK, world
<1> QED BY <1>3, <1>4, <1>5, PartsMakeIInv

\* The invariant, for the look on disk.
LEMMA LoadFromDiskKeepsIInv ==
    ASSUME IInv, NEW w \in Workers, LoadFromDisk(w)
    PROVE  IInv'
<1> DEFINE k == call[w].key
<1>1. /\ call[w].pc = "load" /\ k \in Keys /\ disk[k] \in Entries
      /\ UNCHANGED <<memoryTier, disk, upstream, answered>>
      /\ strained' \in {strained, strained \cup {k}}
      /\ troubles' = troubles \/ Trouble
  BY DEF LoadFromDisk, IInv, TypeOK
<1>2. \E pc, v : Goto(w, pc, v) /\ MayCarry(k, pc, v)
  <2>1. MayCarry(k, AskUpstream(k), Nothing)
    BY ServiceAssumption DEF MayCarry, AskUpstream, PCs, Entries, Verdicts
  <2>2. ASSUME disk[k] # Nothing, k \in UrlKeys => disk[k] # Negative
        PROVE  MayCarry(k, "promote", disk[k])
    BY <1>1, <2>2 DEF MayCarry, PCs, IInv, TiersComeFromUpstream
  <2> QED BY <2>1, <2>2 DEF LoadFromDisk
<1>3. CallsAreTyped' /\ CallsAreSound' /\ CallsComeFromUpstream'
  BY <1>1, <1>2, GotoKeepsCalls
<1>4. RestIsTyped'
  BY <1>1, ServiceAssumption DEF RestIsTyped, IInv, TypeOK, Trouble
<1> QED BY <1>1, <1>3, <1>4, UntouchedTiersStaySound, PartsMakeIInv

\* The invariant, when an entry of the disk is stored in memory.
LEMMA PromoteKeepsIInv ==
    ASSUME IInv, NEW w \in Workers, Promote(w)
    PROVE  IInv'
<1> DEFINE k == call[w].key
           v == call[w].verdict
<1>1. /\ call[w].pc = "promote" /\ k \in Keys /\ v \in Entries \ {Nothing}
      /\ k \in UrlKeys => v # Negative
      /\ v \in Verdicts => <<k, v>> \in answered
      /\ UNCHANGED <<disk, world, answered, strained>>
  BY DEF Promote, IInv, TypeOK, CallsAreSound, CallsComeFromUpstream
<1>2. Goto(w, "done", v) /\ MayCarry(k, "done", v)
  BY <1>1 DEF Promote, MayCarry, PCs
<1>3. CallsAreTyped' /\ CallsAreSound' /\ CallsComeFromUpstream'
  BY <1>1, <1>2, GotoKeepsCalls
<1>4. CacheStore(k, v) \/ UNCHANGED memoryTier
  BY DEF Promote
<1>5. TiersAreSound'
  BY <1>1, <1>4, CacheStoreKeepsTiers, UntouchedTiersStaySound
<1>6. RestIsTyped'
  BY <1>1 DEF RestIsTyped, IInv, TypeOK, world
<1> QED BY <1>3, <1>5, <1>6, PartsMakeIInv

\* The three actions that ask the upstream, all of which record its answer.
LEMMA AskingKeepsIInv ==
    ASSUME IInv, NEW w \in Workers, Resolve(w) \/ Get(w) \/ ReadAsset(w)
    PROVE  IInv'
<1> DEFINE k == call[w].key
<1>1. /\ call[w].pc # "done" /\ k \in Keys /\ upstream[k] \in Verdicts
      /\ call[w].pc = "resolve" => k \notin UrlKeys
      /\ UNCHANGED <<memoryTier, disk, world, strained>>
  BY DEF Resolve, Get, ReadAsset, IInv, TypeOK, CallsAreSound
<1>2. /\ answered \subseteq answered'
      /\ answered' \subseteq answered \cup {<<k, upstream[k]>>}
  BY DEF Resolve, Get, ReadAsset
<1>3. \E pc, v : Goto(w, pc, v) /\ MayCarry(k, pc, v)
  <2>1. MayCarry(k, "done", Error) /\ MayCarry(k, "get", Nothing) /\ MayCarry(k, "asset", Nothing)
    BY ServiceAssumption DEF MayCarry, PCs, Entries, Verdicts
  <2>2. ASSUME k \in UrlKeys => upstream[k] # Negative, <<k, upstream[k]>> \in answered'
        PROVE  MayCarry(k, "memStore", upstream[k])
    BY <1>1, <2>2, ServiceAssumption DEF MayCarry, PCs, Entries, Verdicts
  <2>3. CASE Resolve(w)
    BY <2>1, <2>2, <2>3, <1>1 DEF Resolve
  <2>4. CASE Get(w)
    BY <2>1, <2>2, <2>4, <1>1 DEF Get
  <2>5. CASE ReadAsset(w)
    BY <2>1, <2>2, <2>5, <1>1 DEF ReadAsset
  <2> QED BY <2>3, <2>4, <2>5
<1>4. CallsAreTyped' /\ CallsAreSound' /\ CallsComeFromUpstream'
  BY <1>1, <1>2, <1>3, GotoKeepsCalls
<1>5. RestIsTyped'
  BY <1>1, <1>2 DEF RestIsTyped, IInv, TypeOK, world
<1> QED BY <1>1, <1>2, <1>4, <1>5, UntouchedTiersStaySound, PartsMakeIInv

\* The invariant, when an answer is stored in memory.
LEMMA StoreInMemoryKeepsIInv ==
    ASSUME IInv, NEW w \in Workers, StoreInMemory(w)
    PROVE  IInv'
<1> DEFINE k == call[w].key
           v == call[w].verdict
<1>1. /\ call[w].pc = "memStore" /\ k \in Keys
      /\ v \in Entries \ {Nothing} /\ v \in Verdicts
      /\ k \in UrlKeys => v # Negative
      /\ <<k, v>> \in answered
      /\ CacheStore(k, v)
      /\ UNCHANGED <<disk, world, answered, strained>>
  BY DEF StoreInMemory, IInv, TypeOK, CallsAreSound, CallsComeFromUpstream
<1>2. Goto(w, "diskStore", v) /\ MayCarry(k, "diskStore", v)
  BY <1>1 DEF StoreInMemory, MayCarry, PCs
<1>3. CallsAreTyped' /\ CallsAreSound' /\ CallsComeFromUpstream'
  BY <1>1, <1>2, GotoKeepsCalls
<1>4. TiersAreSound'
  BY <1>1, CacheStoreKeepsTiers
<1>5. RestIsTyped'
  BY <1>1 DEF RestIsTyped, IInv, TypeOK, world
<1> QED BY <1>3, <1>4, <1>5, PartsMakeIInv

\* Whatever the disk makes of a store, it holds nothing it was not given.
LEMMA StoreOnDiskKeepsIInv ==
    ASSUME IInv, NEW w \in Workers, StoreOnDisk(w)
    PROVE  IInv'
<1> DEFINE k == call[w].key
           v == call[w].verdict
<1>1. /\ call[w].pc = "diskStore" /\ k \in Keys
      /\ v \in Entries \ {Nothing} /\ v \in Verdicts
      /\ k \in UrlKeys => v # Negative
      /\ <<k, v>> \in answered
      /\ UNCHANGED <<memoryTier, upstream, answered>>
      /\ disk \in [Keys -> Entries]
      /\ troubles' = troubles \/ Trouble
  BY DEF StoreOnDisk, IInv, TypeOK, CallsAreSound, CallsComeFromUpstream
<1>2. Goto(w, "done", v) /\ MayCarry(k, "done", v)
  BY <1>1 DEF StoreOnDisk, MayCarry, PCs
<1>3. CallsAreTyped' /\ CallsAreSound' /\ CallsComeFromUpstream'
  BY <1>1, <1>2, GotoKeepsCalls
<1>4. /\ disk' \in [Keys -> Entries]
      /\ disk'[k] \in {disk[k], v, Nothing, Torn}
      /\ \A j \in Keys \ {k} : disk'[j] \in {disk[j], Nothing}
  <2>1. CASE disk' = [disk EXCEPT ![k] = v]
    BY <1>1, <2>1
  <2>2. CASE disk' \in Port!AfterStore(disk, k, v)
    BY <1>1, <2>2 DEF Port!AfterStore, Port!Entries, Entries
  <2> QED BY <2>1, <2>2 DEF StoreOnDisk
<1>5. strained' \subseteq Keys
  BY DEF StoreOnDisk, IInv, TypeOK
<1>6. TiersAreSound'
  <2>1. /\ lru' \in Seq(Keys) /\ memo' = memo /\ memo' \in [Keys -> Entries]
        /\ usedAfter' \in SUBSET (Keys \X Keys) /\ ListAndIndexAgree'
    BY <1>1 DEF IInv, TypeOK, memoryTier, ListAndIndexAgree
  <2>2. Nothing \notin Verdicts /\ Torn \notin Verdicts /\ Negative # Nothing /\ Negative # Torn
    BY ServiceAssumption DEF Verdicts
  <2>3. TiersComeFromUpstream'
    BY <1>1, <1>4, <2>1, <2>2 DEF IInv, TiersComeFromUpstream
  <2>4. UrlsAreNeverNegative'
    BY <1>1, <1>4, <2>1, <2>2, ServiceAssumption DEF IInv, UrlsAreNeverNegative
  <2> QED BY <1>4, <2>1, <2>3, <2>4 DEF TiersAreSound
<1>7. RestIsTyped'
  BY <1>1, <1>5, ServiceAssumption DEF RestIsTyped, IInv, TypeOK, Trouble
<1> QED BY <1>3, <1>6, <1>7, PartsMakeIInv

\* The invariant, when the upstream changes.
LEMMA FlipKeepsIInv ==
    ASSUME IInv, NEW k \in Keys, NEW v \in Verdicts, Flip(k, v)
    PROVE  IInv'
<1>1. /\ UNCHANGED <<memoryTier, disk, call, answered, strained>>
      /\ upstream' = [upstream EXCEPT ![k] = v] /\ Trouble
  BY DEF Flip
<1>2. CallsAreTyped' /\ CallsAreSound' /\ CallsComeFromUpstream'
  BY <1>1 DEF CallsAreTyped, CallsAreSound, CallsComeFromUpstream, IInv, TypeOK
<1>3. RestIsTyped'
  BY <1>1, ServiceAssumption DEF RestIsTyped, IInv, TypeOK, Trouble
<1> QED BY <1>1, <1>2, <1>3, UntouchedTiersStaySound, PartsMakeIInv

\* The invariant, when the program starts again.
LEMMA RestartKeepsIInv ==
    ASSUME IInv, Restart
    PROVE  IInv'
<1> DEFINE none == [pc |-> "done", key |-> Nothing, verdict |-> Nothing]
<1> USE ServiceAssumption
<1>1. none \in Calls /\ none.pc = "done" /\ none.verdict \notin Verdicts
  BY DEF Calls, PCs, Entries, Verdicts
<1>2. call' = [w \in Workers |-> none]
  BY DEF Restart
<1> HIDE DEF none
<1>3. CallsAreTyped' /\ CallsAreSound' /\ CallsComeFromUpstream'
  BY <1>1, <1>2 DEF CallsAreTyped, CallsAreSound, CallsComeFromUpstream
<1>4. /\ lru' = <<>> /\ memo' = [k \in Keys |-> Nothing] /\ usedAfter' = {}
      /\ UNCHANGED <<disk, upstream, answered, strained>> /\ Trouble
  BY DEF Restart
<1>5. ListAndIndexAgree'
  <2>1. Len(lru') = 0
    BY <1>4
  <2> QED BY <1>4, <2>1 DEF ListAndIndexAgree
<1>6. TiersAreSound'
  <2>1. lru' \in Seq(Keys) /\ memo' \in [Keys -> Entries] /\ Nothing \notin Verdicts
    BY <1>4 DEF Entries, Verdicts
  <2>2. TiersComeFromUpstream' /\ UrlsAreNeverNegative'
    BY <1>4, <2>1 DEF IInv, TiersComeFromUpstream, UrlsAreNeverNegative
  <2> QED BY <1>4, <1>5, <2>1, <2>2 DEF TiersAreSound, IInv, TypeOK
<1>7. RestIsTyped'
  BY <1>4 DEF RestIsTyped, IInv, TypeOK, Trouble
<1> QED BY <1>3, <1>6, <1>7, PartsMakeIInv

\* The invariant, at first.
LEMMA InitEstablishesIInv == Init => IInv
<1> SUFFICES ASSUME Init PROVE IInv
  OBVIOUS
<1> USE ServiceAssumption DEF Init
<1> DEFINE none == [pc |-> "done", key |-> Nothing, verdict |-> Nothing]
<1>1. none \in Calls /\ none.pc = "done" /\ none.verdict \notin Verdicts
  BY DEF Calls, PCs, Entries, Verdicts
<1>2. call = [w \in Workers |-> none]
  OBVIOUS
<1> HIDE DEF none
<1>3. call \in [Workers -> Calls] /\ \A w \in Workers : call[w] = none
  BY <1>1, <1>2
<1>4. CallsAreSound /\ CallsComeFromUpstream
  BY <1>1, <1>3 DEF CallsAreSound, CallsComeFromUpstream
<1>5. ListAndIndexAgree
  <2>1. Len(lru) = 0
    OBVIOUS
  <2> QED BY <2>1 DEF ListAndIndexAgree
<1>6. /\ memo \in [Keys -> Entries] /\ disk \in [Keys -> Entries]
      /\ upstream \in [Keys -> Verdicts] /\ lru \in Seq(Keys)
  BY DEF Entries
<1>7. TypeOK
  BY <1>1, <1>3, <1>6 DEF TypeOK
<1>8. TiersComeFromUpstream /\ UrlsAreNeverNegative
  BY DEF TiersComeFromUpstream, UrlsAreNeverNegative, Verdicts
<1> QED BY <1>4, <1>5, <1>7, <1>8 DEF IInv

\* The invariant, for every step.
LEMMA NextKeepsIInv == IInv /\ [Next]_vars => IInv'
<1> SUFFICES ASSUME IInv, [Next]_vars PROVE IInv'
  OBVIOUS
<1>1. ASSUME NEW w \in Workers, CallStep(w) PROVE IInv'
  BY <1>1, CacheLookupKeepsIInv, LoadFromDiskKeepsIInv, PromoteKeepsIInv, AskingKeepsIInv,
     StoreInMemoryKeepsIInv, StoreOnDiskKeepsIInv DEF CallStep
<1>2. ASSUME NEW w \in Workers, NEW k \in Keys, Enter(w, k) PROVE IInv'
  BY <1>2, EnterKeepsIInv
<1>3. ASSUME NEW k \in Keys, NEW v \in Verdicts, Flip(k, v) PROVE IInv'
  BY <1>3, FlipKeepsIInv
<1>4. CASE Restart
  BY <1>4, RestartKeepsIInv
<1>5. CASE UNCHANGED vars
  BY <1>5 DEF vars, IInv, TypeOK, ListAndIndexAgree, CallsAreSound, TiersComeFromUpstream,
              CallsComeFromUpstream, UrlsAreNeverNegative
<1> QED BY <1>1, <1>2, <1>3, <1>4, <1>5 DEF Next

-----------------------------------------------------------------------------
\* The inductive invariant holds in every behaviour.
THEOREM Invariance == Spec => []IInv
BY InitEstablishesIInv, NextKeepsIInv, PTL DEF Spec

\* The tiers, the calls and the history variables keep their types.
THEOREM TypeCorrect == Spec => []TypeOK
<1>1. IInv => TypeOK
  BY DEF IInv
<1> QED BY <1>1, Invariance, PTL

\* The list and the index of the memory tier describe the same entries, and
\* never more than fit.
THEOREM MemoryTierIsConsistent == Spec => []ListAndIndexAgree
<1>1. IInv => ListAndIndexAgree
  BY DEF IInv
<1> QED BY <1>1, Invariance, PTL

\* Neither a transient failure nor another card's answer is ever remembered.
THEOREM OnlyUpstreamVerdictsAreCached == Spec => []VerdictsComeFromUpstream
<1>1. ASSUME IInv PROVE VerdictsComeFromUpstream
  <2>1. /\ memo \in [Keys -> Entries] /\ disk \in [Keys -> Entries]
    BY <1>1 DEF IInv, TypeOK
  <2>2. \A e \in Entries : e \notin {Torn, Nothing} => e \in Verdicts
    BY DEF Entries, Verdicts
  <2> QED BY <1>1, <2>1, <2>2
          DEF IInv, VerdictsComeFromUpstream, TiersComeFromUpstream, CallsComeFromUpstream
<1> QED BY <1>1, Invariance, PTL

\* A card back is never remembered as missing.
THEOREM CardBacksAreNeverMissing == Spec => []UrlsAreNeverNegative
<1>1. IInv => UrlsAreNeverNegative
  BY DEF IInv
<1> QED BY <1>1, Invariance, PTL

-----------------------------------------------------------------------------
(***************************************************************************)
(* Write-through.  WriteThrough speaks of keys that no call is working on; *)
(* what carries it from one such moment to the next is what memory, disk   *)
(* and the one call at work know of the key in between.                    *)
(***************************************************************************)
Busy(w, k) == call[w].pc # "done" /\ call[w].key = k

\* m and d are what memory and disk know while a call stands at pc with verdict v.
Kept(m, d, pc, v) ==
    /\ pc \in {"lookup", "done"} => m \in {d, Nothing}
    /\ pc \notin {"lookup", "done", "diskStore"} => m = Nothing
    /\ pc = "promote" => v = d
    /\ pc = "diskStore" => m \in {v, Nothing}

KeyIsKept(k) ==
    /\ \A w, x \in Workers : Busy(w, k) /\ Busy(x, k) => w = x
    /\ \A w \in Workers : Busy(w, k) => Kept(memo[k], disk[k], call[w].pc, call[w].verdict)
    /\ (\A w \in Workers : ~ Busy(w, k)) => memo[k] \in {disk[k], Nothing}

KeysAreKept == \A k \in Keys \ strained : KeyIsKept(k)

\* Losing its memory entry does a key no harm, nor does what calls for others do.
LEMMA OthersStayKept ==
    ASSUME NEW j \in Keys, KeyIsKept(j),
           memo'[j] \in {memo[j], Nothing}, disk'[j] = disk[j],
           \A x \in Workers : Busy(x, j)' => (Busy(x, j) /\ call'[x] = call[x]),
           \A x \in Workers : Busy(x, j) => Busy(x, j)'
    PROVE  KeyIsKept(j)'
<1>1. \A w, x \in Workers : Busy(w, j)' /\ Busy(x, j)' => w = x
  BY DEF KeyIsKept
<1>2. ASSUME NEW w \in Workers, Busy(w, j)'
      PROVE  Kept(memo'[j], disk'[j], call'[w].pc, call'[w].verdict)
  <2>1. Kept(memo[j], disk[j], call[w].pc, call[w].verdict) /\ call'[w] = call[w]
    BY <1>2 DEF KeyIsKept
  <2> QED BY <2>1 DEF Kept
<1>3. (\A w \in Workers : ~ Busy(w, j)') => memo'[j] \in {disk'[j], Nothing}
  BY DEF KeyIsKept
<1> QED BY <1>1, <1>2, <1>3 DEF KeyIsKept

\* A step of w's call: what it leaves of its own key, and that it disturbs no other.
LEMMA StepKeepsKeys ==
    ASSUME IInv, KeysAreKept, NEW w \in Workers, call[w].pc # "done",
           strained \subseteq strained',
           \A j \in Keys \ strained' : j # call[w].key =>
               memo'[j] \in {memo[j], Nothing} /\ disk'[j] = disk[j],
           \E pc, v : /\ Goto(w, pc, v)
                      /\ call[w].key \notin strained' =>
                             Kept(memo'[call[w].key], disk'[call[w].key], pc, v)
    PROVE  KeysAreKept'
<1> DEFINE k == call[w].key
<1>1. PICK pc, v : Goto(w, pc, v) /\ (k \notin strained' => Kept(memo'[k], disk'[k], pc, v))
  OBVIOUS
<1>2. /\ call'[w].pc = pc /\ call'[w].verdict = v /\ call'[w].key = k
      /\ \A x \in Workers \ {w} : call'[x] = call[x]
  BY <1>1 DEF Goto, IInv, TypeOK, Calls
<1> SUFFICES ASSUME NEW j \in Keys \ strained' PROVE KeyIsKept(j)'
  BY DEF KeysAreKept
<1>3. KeyIsKept(j)
  BY DEF KeysAreKept
<1>4. CASE j # k
  <2>1. \A x \in Workers : Busy(x, j)' => (Busy(x, j) /\ call'[x] = call[x])
    BY <1>2, <1>4 DEF Busy
  <2>2. \A x \in Workers : Busy(x, j) => Busy(x, j)'
    BY <1>2, <1>4 DEF Busy
  <2> QED BY <1>3, <1>4, <2>1, <2>2, OthersStayKept
<1>5. CASE j = k
  <2>1. \A x \in Workers : Busy(x, j)' => x = w
    BY <1>2, <1>3, <1>5 DEF Busy, KeyIsKept
  <2>2. Kept(memo'[j], disk'[j], pc, v)
    BY <1>1, <1>5
  <2>3. (\A x \in Workers : ~ Busy(x, j)') => pc = "done"
    BY <1>2, <1>5 DEF Busy
  <2>4. (\A x \in Workers : ~ Busy(x, j)') => memo'[j] \in {disk'[j], Nothing}
    BY <2>2, <2>3 DEF Kept
  <2>5. \A x \in Workers : Busy(x, j)' =>
            Kept(memo'[j], disk'[j], call'[x].pc, call'[x].verdict)
    BY <1>2, <2>1, <2>2
  <2> QED BY <2>1, <2>4, <2>5 DEF KeyIsKept
<1> QED BY <1>4, <1>5

\* What StepKeepsKeys wants to know before a step.
LEMMA OwnKeyIsKept ==
    ASSUME IInv, KeysAreKept, NEW w \in Workers, call[w].pc # "done",
           call[w].key \notin strained
    PROVE  Kept(memo[call[w].key], disk[call[w].key], call[w].pc, call[w].verdict)
BY DEF IInv, TypeOK, KeysAreKept, KeyIsKept, Busy

\* A new call adds no entry.
LEMMA EnterKeepsKeys ==
    ASSUME IInv, KeysAreKept, NEW w \in Workers, NEW k \in Keys, Enter(w, k)
    PROVE  KeysAreKept'
<1> DEFINE c == IF k \in Unsourced
                THEN [pc |-> "done", key |-> k, verdict |-> Error]
                ELSE [pc |-> "lookup", key |-> k, verdict |-> Nothing]
<1>1. c.key = k /\ c.pc \in {"done", "lookup"}
  OBVIOUS
<1>2. call' = [call EXCEPT ![w] = c] /\ call \in [Workers -> Calls] /\ call[w].pc = "done"
  BY DEF Enter, IInv, TypeOK
<1>3. memo' = memo /\ disk' = disk /\ strained \subseteq strained'
  BY DEF Enter, memoryTier
<1>4. k \notin strained' => \A x \in Workers \ {w} : ~ Busy(x, k)
  BY DEF Enter, Overlaps, Busy
<1> HIDE DEF c
<1>5. call'[w] = c /\ \A x \in Workers \ {w} : call'[x] = call[x]
  BY <1>2
<1> SUFFICES ASSUME NEW j \in Keys \ strained' PROVE KeyIsKept(j)'
  BY DEF KeysAreKept
<1>6. KeyIsKept(j)
  BY <1>3 DEF KeysAreKept
<1>7. CASE j # k
  <2>1. \A x \in Workers : Busy(x, j)' => (Busy(x, j) /\ call'[x] = call[x])
    BY <1>1, <1>5, <1>7 DEF Busy
  <2>2. \A x \in Workers : Busy(x, j) => Busy(x, j)'
    BY <1>2, <1>5, <1>7 DEF Busy
  <2> QED BY <1>3, <1>6, <2>1, <2>2, OthersStayKept
<1>8. CASE j = k
  <2>1. \A x \in Workers : ~ Busy(x, j)
    BY <1>2, <1>4, <1>8 DEF Busy
  <2>2. memo'[j] \in {disk'[j], Nothing}
    BY <1>3, <1>6, <2>1 DEF KeyIsKept
  <2>3. \A x \in Workers : Busy(x, j)' => x = w
    BY <1>5, <2>1 DEF Busy
  <2>4. \A x \in Workers : Busy(x, j)' => call'[x].pc = "lookup"
    BY <1>1, <1>5, <2>3 DEF Busy
  <2>5. \A x \in Workers : Busy(x, j)' =>
            Kept(memo'[j], disk'[j], call'[x].pc, call'[x].verdict)
    BY <2>2, <2>4 DEF Kept
  <2> QED BY <2>2, <2>3, <2>5 DEF KeyIsKept
<1> QED BY <1>7, <1>8

\* The steps that store nowhere; a lookup that finds an entry ends with what the disk has.
LEMMA QuietStepsKeepKeys ==
    ASSUME IInv, KeysAreKept, NEW w \in Workers,
           CacheLookup(w) \/ LoadFromDisk(w) \/ Resolve(w) \/ Get(w) \/ ReadAsset(w)
    PROVE  KeysAreKept'
<1> DEFINE k == call[w].key
<1>1. /\ call[w].pc \in {"lookup", "load", "resolve", "get", "asset"} /\ k \in Keys
      /\ memo' = memo /\ disk' = disk /\ strained \subseteq strained'
  BY DEF CacheLookup, LoadFromDisk, Resolve, Get, ReadAsset, TouchEntry, memoryTier, IInv, TypeOK
<1>2. k \notin strained' => Kept(memo[k], disk[k], call[w].pc, call[w].verdict)
  BY <1>1, OwnKeyIsKept
<1>3. \E pc, v : Goto(w, pc, v) /\ (k \notin strained' => Kept(memo[k], disk[k], pc, v))
  <2>1. CASE CacheLookup(w)
    <3>1. call[w].pc = "lookup" /\ (k \in UrlKeys => memo[k] # Negative)
      BY <1>1, <2>1 DEF CacheLookup, IInv, UrlsAreNeverNegative
    <3>2. k \notin strained' => memo[k] \in {disk[k], Nothing}
      BY <1>2, <3>1 DEF Kept
    <3>3. k \notin strained' => Kept(memo[k], disk[k], "done", memo[k])
      BY <3>2 DEF Kept
    <3>4. memo[k] = Nothing => Kept(memo[k], disk[k], "load", Nothing)
      BY DEF Kept
    <3> QED BY <2>1, <3>1, <3>3, <3>4 DEF CacheLookup
  <2>2. ASSUME call[w].pc \in {"load", "resolve", "get", "asset"}, k \notin strained',
               NEW pc \in {"promote", "resolve", "get", "asset", "memStore", "done"}, NEW v,
               pc = "promote" => v = disk[k]
        PROVE  Kept(memo[k], disk[k], pc, v)
    BY <1>2, <2>2 DEF Kept
  <2>3. CASE LoadFromDisk(w)
    <3>1. call[w].pc = "load"
      BY <2>3 DEF LoadFromDisk
    <3>2. \E pc \in {"promote", "resolve", "get", "asset"} : \E v :
              Goto(w, pc, v) /\ (pc = "promote" => v = disk[k])
      BY <2>3 DEF LoadFromDisk, AskUpstream
    <3> QED BY <2>2, <3>1, <3>2
  <2>4. CASE Resolve(w) \/ Get(w) \/ ReadAsset(w)
    <3>1. call[w].pc \in {"resolve", "get", "asset"}
      BY <2>4 DEF Resolve, Get, ReadAsset
    <3>2. \E pc \in {"get", "asset", "memStore", "done"} : \E v : Goto(w, pc, v)
      BY <2>4 DEF Resolve, Get, ReadAsset
    <3> QED BY <2>2, <3>1, <3>2
  <2> QED BY <2>1, <2>3, <2>4
<1> QED BY <1>1, <1>3, StepKeepsKeys

\* A store in memory may push out another key's entry.
LEMMA MemoryStoresKeepKeys ==
    ASSUME IInv, KeysAreKept, NEW w \in Workers, Promote(w) \/ StoreInMemory(w)
    PROVE  KeysAreKept'
<1> DEFINE k == call[w].key
           v == call[w].verdict
<1>1. /\ call[w].pc \in {"promote", "memStore"} /\ k \in Keys /\ v \in Entries \ {Nothing}
      /\ CacheStore(k, v) \/ UNCHANGED memoryTier
      /\ StoreInMemory(w) => CacheStore(k, v)
      /\ disk' = disk /\ strained' = strained
  BY DEF Promote, StoreInMemory, IInv, TypeOK, CallsAreSound
<1>2. /\ memo'[k] \in {v, memo[k]}
      /\ StoreInMemory(w) => memo'[k] = v
      /\ \A j \in Keys \ {k} : memo'[j] \in {memo[j], Nothing}
  BY <1>1, CacheStoreKeepsAgreement DEF IInv, memoryTier
<1>3. k \notin strained' => Kept(memo[k], disk[k], call[w].pc, v)
  BY <1>1, OwnKeyIsKept
<1>4. \E pc, u : Goto(w, pc, u) /\ (k \notin strained' => Kept(memo'[k], disk'[k], pc, u))
  <2>1. CASE Promote(w)
    <3>1. call[w].pc = "promote" /\ Goto(w, "done", v)
      BY <2>1 DEF Promote
    <3>2. k \notin strained' => Kept(memo'[k], disk'[k], "done", v)
      BY <1>1, <1>2, <1>3, <3>1 DEF Kept
    <3> QED BY <3>1, <3>2
  <2>2. CASE StoreInMemory(w)
    <3>1. Goto(w, "diskStore", v)
      BY <2>2 DEF StoreInMemory
    <3>2. Kept(memo'[k], disk'[k], "diskStore", v)
      BY <1>2, <2>2 DEF Kept
    <3> QED BY <3>1, <3>2
  <2> QED BY <2>1, <2>2
<1> QED BY <1>1, <1>2, <1>4, StepKeepsKeys

\* What the disk tier loses is strained from then on.
LEMMA StoreOnDiskKeepsKeys ==
    ASSUME IInv, KeysAreKept, NEW w \in Workers, StoreOnDisk(w)
    PROVE  KeysAreKept'
<1> DEFINE k == call[w].key
           v == call[w].verdict
<1>1. /\ call[w].pc = "diskStore" /\ k \in Keys /\ memo' = memo /\ Goto(w, "done", v)
      /\ disk \in [Keys -> Entries] /\ strained \subseteq strained'
  BY DEF StoreOnDisk, memoryTier, IInv, TypeOK
<1>2. \A j \in Keys \ strained' : disk'[j] = IF j = k THEN v ELSE disk[j]
  BY <1>1 DEF StoreOnDisk
<1>3. k \notin strained' => Kept(memo[k], disk[k], "diskStore", v)
  BY <1>1, OwnKeyIsKept
<1>4. k \notin strained' => Kept(memo'[k], disk'[k], "done", v)
  BY <1>1, <1>2, <1>3 DEF Kept
<1> QED BY <1>1, <1>2, <1>4, StepKeepsKeys

\* Every entry's key has been asked for, after every step.
LEMMA NextKeepsKeys ==
    ASSUME IInv, KeysAreKept, [Next]_vars
    PROVE  KeysAreKept'
<1>1. ASSUME NEW w \in Workers, CallStep(w) PROVE KeysAreKept'
  BY <1>1, QuietStepsKeepKeys, MemoryStoresKeepKeys, StoreOnDiskKeepsKeys DEF CallStep
<1>2. ASSUME NEW w \in Workers, NEW k \in Keys, Enter(w, k) PROVE KeysAreKept'
  BY <1>2, EnterKeepsKeys
<1>3. CASE (\E k \in Keys, v \in Verdicts : Flip(k, v)) \/ UNCHANGED vars
  <2>1. memo' = memo /\ disk' = disk /\ call' = call /\ strained' = strained
    BY <1>3 DEF Flip, vars, memoryTier
  <2> QED BY <2>1 DEF KeysAreKept, KeyIsKept, Busy
<1>4. CASE Restart
  <2>1. /\ \A w \in Workers : call'[w].pc = "done"
        /\ \A k \in Keys : memo'[k] = Nothing
    BY <1>4 DEF Restart
  <2> QED BY <2>1 DEF KeysAreKept, KeyIsKept, Busy
<1> QED BY <1>1, <1>2, <1>3, <1>4 DEF Next

\* Between two calls for a key, memory knows nothing of it that the disk does not, in
\* spite of evictions, calls for other keys and restarts; only overlapping calls for
\* that key and losses of the disk tier can part them.
THEOREM MemorySurvivesRestarts == Spec => []WriteThrough
<1>1. ASSUME Init PROVE KeysAreKept
  <2>1. /\ \A w \in Workers : call[w].pc = "done"
        /\ \A k \in Keys : memo[k] = Nothing
    BY <1>1 DEF Init
  <2> QED BY <2>1 DEF KeysAreKept, KeyIsKept, Busy
<1>2. IInv /\ KeysAreKept /\ [Next]_vars => KeysAreKept'
  BY NextKeepsKeys
<1>3. KeysAreKept => WriteThrough
  BY DEF KeysAreKept, KeyIsKept, Busy, WriteThrough
<1>4. Spec => []KeysAreKept
  BY <1>1, <1>2, Invariance, PTL DEF Spec
<1> QED BY <1>3, <1>4, PTL

-----------------------------------------------------------------------------
(***************************************************************************)
(* Eviction.  The list is ordered by use: what stands in front of a key    *)
(* was used after it.  The last of a full list is what falls out.          *)
(***************************************************************************)
ByUse(s, u) == \A i, j \in 1 .. Len(s) : i < j => <<s[i], s[j]>> \in u

ListIsByUse == ByUse(lru, usedAfter)

\* From t's second place on the keys come in the order that they have in s.
KeepsOrder(s, t) ==
    \A i, j \in 2 .. Len(t) : i < j =>
        \E a, b \in 1 .. Len(s) : a < b /\ s[a] = t[i] /\ s[b] = t[j]

\* Moving a key to the front keeps the order of the others.
LEMMA MoveToFrontKeepsOrder ==
    ASSUME NEW s \in Seq(Keys), NEW k \in Keys, Lists(s, k)
    PROVE  MoveToFront(s, k)[1] = k /\ KeepsOrder(s, MoveToFront(s, k))
<1> DEFINE p == CHOOSE i \in DOMAIN s : s[i] = k
           n == Len(s)
           m == MoveToFront(s, k)
           from(i) == IF i <= p THEN i - 1 ELSE i
<1>1. n \in Nat /\ DOMAIN s = 1 .. n
  OBVIOUS
<1>2. p \in 1 .. n /\ s[p] = k
  BY <1>1 DEF Lists
<1>3. m = [i \in 1 .. n |-> IF i = 1 THEN k ELSE IF i <= p THEN s[i - 1] ELSE s[i]]
  BY <1>1 DEF MoveToFront
<1>4. DOMAIN m = 1 .. n /\ m[1] = k
  BY <1>1, <1>2, <1>3
<1>5. Len(m) = n
  BY <1>1, <1>3
<1> HIDE DEF p, n, m
<1>6. \A i \in 2 .. n : from(i) \in 1 .. n /\ m[i] = s[from(i)]
  BY <1>1, <1>2, <1>3
<1>7. \A i, j \in 2 .. n : i < j => from(i) < from(j)
  BY <1>1, <1>2
<1>8. KeepsOrder(s, m)
  <2> HIDE DEF from
  <2> QED BY <1>5, <1>6, <1>7 DEF KeepsOrder, n
<1> QED BY <1>4, <1>8 DEF m

\* So does putting a new key in front of what is kept.
LEMMA PushFrontKeepsOrder ==
    ASSUME NEW s \in Seq(Keys), NEW k \in Keys, NEW n \in 0 .. Len(s)
    PROVE  /\ (<<k>> \o SubSeq(s, 1, n))[1] = k
           /\ KeepsOrder(s, <<k>> \o SubSeq(s, 1, n))
<1> DEFINE t == <<k>> \o SubSeq(s, 1, n)
<1>1. Len(s) \in Nat /\ n \in Nat /\ n <= Len(s)
  OBVIOUS
<1>2. /\ SubSeq(s, 1, n) \in Seq(Keys) /\ Len(SubSeq(s, 1, n)) = n
      /\ \A i \in 1 .. n : SubSeq(s, 1, n)[i] = s[i]
  BY <1>1
<1>3. Len(t) = n + 1 /\ t[1] = k
  BY <1>1, <1>2
<1>4. \A i \in 2 .. n + 1 : t[i] = SubSeq(s, 1, n)[i - 1]
  BY <1>1, <1>2
<1>5. \A i \in 2 .. n + 1 : i - 1 \in 1 .. n /\ t[i] = s[i - 1]
  BY <1>1, <1>2, <1>4
<1> HIDE DEF t
<1>6. KeepsOrder(s, t)
  <2> SUFFICES ASSUME NEW i \in 2 .. n + 1, NEW j \in 2 .. n + 1, i < j
               PROVE  \E a, b \in 1 .. Len(s) : a < b /\ s[a] = t[i] /\ s[b] = t[j]
    BY <1>3 DEF KeepsOrder
  <2>1. /\ i - 1 \in 1 .. Len(s) /\ j - 1 \in 1 .. Len(s) /\ i - 1 < j - 1
        /\ s[i - 1] = t[i] /\ s[j - 1] = t[j]
    BY <1>1, <1>5
  <2> QED BY <2>1
<1> QED BY <1>3, <1>6 DEF t

\* The key that is used goes in front, and was used after every other one.
LEMMA UseKeepsListByUse ==
    ASSUME ListIsByUse, ListAndIndexAgree', lru' \in Seq(Keys), NEW k \in Keys, Used(k),
           lru'[1] = k, KeepsOrder(lru, lru')
    PROVE  ListIsByUse'
<1>1. NoRepeats(lru') /\ \A i \in 1 .. Len(lru') : lru'[i] \in Keys /\ memo'[lru'[i]] # Nothing
  BY DEF ListAndIndexAgree, NoRepeats
<1> SUFFICES ASSUME NEW i \in 1 .. Len(lru'), NEW j \in 1 .. Len(lru'), i < j
             PROVE  <<lru'[i], lru'[j]>> \in usedAfter'
  BY DEF ListIsByUse, ByUse
<1>2. Len(lru') \in Nat
  OBVIOUS
<1>3. lru'[j] # k
  BY <1>1, <1>2 DEF NoRepeats
<1>4. CASE i = 1
  BY <1>1, <1>3, <1>4 DEF Used
<1>5. CASE i # 1
  <2>1. i \in 2 .. Len(lru') /\ j \in 2 .. Len(lru')
    BY <1>2, <1>5
  <2>2. PICK a \in 1 .. Len(lru), b \in 1 .. Len(lru) :
            a < b /\ lru[a] = lru'[i] /\ lru[b] = lru'[j]
    BY <2>1 DEF KeepsOrder
  <2>3. <<lru'[i], lru'[j]>> \in usedAfter
    BY <2>2 DEF ListIsByUse, ByUse
  <2> QED BY <1>1, <1>3, <2>3 DEF Used
<1> QED BY <1>4, <1>5

\* touchEntry keeps the list in the order of use.
LEMMA TouchEntryKeepsByUse ==
    ASSUME IInv, ListIsByUse, NEW k \in Keys, memo[k] # Nothing, TouchEntry(k)
    PROVE  ListIsByUse'
<1>1. lru' \in Seq(Keys) /\ ListAndIndexAgree' /\ lru' = MoveToFront(lru, k) /\ Used(k)
  BY TouchEntryKeepsAgreement DEF IInv, TouchEntry
<1>2. lru \in Seq(Keys) /\ Lists(lru, k)
  BY AgreementIs DEF IInv, TypeOK
<1> QED BY <1>1, <1>2, MoveToFrontKeepsOrder, UseKeepsListByUse

\* Where memo[k] is new it is pushed in front of as many entries as may stay.
LEMMA CacheStorePushes ==
    ASSUME IInv, NEW k \in Keys, NEW v, CacheStore(k, v), memo[k] = Nothing
    PROVE  \E n \in 0 .. Len(lru) :
              /\ lru' = <<k>> \o SubSeq(lru, 1, n)
              /\ \/ n = Len(lru) /\ memo' = [memo EXCEPT ![k] = v]
                 \/ /\ Len(lru) = kCacheCapacity /\ n = kCacheCapacity - 1
                    /\ memo' = [memo EXCEPT ![lru[kCacheCapacity]] = Nothing, ![k] = v]
<1> USE ServiceAssumption
<1>1. lru \in Seq(Keys) /\ Len(lru) \in Nat /\ Len(lru) <= kCacheCapacity
  BY DEF IInv, TypeOK, ListAndIndexAgree
<1>2. CASE Len(lru) < kCacheCapacity
  <2>1. lru' = <<k>> \o lru /\ memo' = [memo EXCEPT ![k] = v]
    BY <1>2 DEF CacheStore
  <2>2. SubSeq(lru, 1, Len(lru)) = lru /\ Len(lru) \in 0 .. Len(lru)
    BY <1>1
  <2>3. lru' = <<k>> \o SubSeq(lru, 1, Len(lru))
    BY <2>1, <2>2
  <2> QED BY <2>1, <2>2, <2>3
<1>3. CASE ~ (Len(lru) < kCacheCapacity)
  <2>1. /\ lru' = <<k>> \o SubSeq(lru, 1, kCacheCapacity - 1)
        /\ memo' = [memo EXCEPT ![lru[kCacheCapacity]] = Nothing, ![k] = v]
    BY <1>3 DEF CacheStore
  <2>2. Len(lru) = kCacheCapacity /\ kCacheCapacity - 1 \in 0 .. Len(lru)
    BY <1>1, <1>3
  <2> QED BY <2>1, <2>2
<1> QED BY <1>2, <1>3

\* So does cacheStore.
LEMMA CacheStoreKeepsByUse ==
    ASSUME IInv, ListIsByUse, NEW k \in Keys, NEW v \in Entries \ {Nothing}, CacheStore(k, v)
    PROVE  ListIsByUse'
<1>1. lru \in Seq(Keys) /\ lru' \in Seq(Keys) /\ ListAndIndexAgree' /\ Used(k)
  BY CacheStoreKeepsAgreement DEF IInv, TypeOK, CacheStore
<1>2. lru'[1] = k /\ KeepsOrder(lru, lru')
  <2>1. CASE memo[k] # Nothing
    <3>1. lru' = MoveToFront(lru, k) /\ Lists(lru, k)
      BY <2>1, AgreementIs DEF CacheStore, IInv
    <3> QED BY <1>1, <3>1, MoveToFrontKeepsOrder
  <2>2. CASE memo[k] = Nothing
    <3>1. PICK n \in 0 .. Len(lru) : lru' = <<k>> \o SubSeq(lru, 1, n)
      BY <2>2, CacheStorePushes
    <3> QED BY <1>1, <3>1, PushFrontKeepsOrder
  <2> QED BY <2>1, <2>2
<1> QED BY <1>1, <1>2, UseKeepsListByUse

\* What EvictsLeastRecentlyUsed says of a step.
EvictsByUse ==
    \A k, j \in Keys :
       (memo[k] # Nothing /\ memo'[k] = Nothing /\ memo[j] # Nothing /\ memo'[j] # Nothing)
           => <<j, k>> \in usedAfter

\* What cacheStore drops was used before everything that it keeps.
LEMMA CacheStoreEvictsByUse ==
    ASSUME IInv, ListIsByUse, NEW k \in Keys, NEW v \in Entries \ {Nothing}, CacheStore(k, v)
    PROVE  EvictsByUse
<1>1. lru \in Seq(Keys) /\ Len(lru) \in Nat /\ memo \in [Keys -> Entries] /\ v # Nothing
  BY DEF IInv, TypeOK
<1>2. CASE memo' = [memo EXCEPT ![k] = v]
  BY <1>1, <1>2 DEF EvictsByUse
<1>3. CASE /\ Len(lru) = kCacheCapacity
           /\ memo' = [memo EXCEPT ![lru[kCacheCapacity]] = Nothing, ![k] = v]
  <2> DEFINE last == lru[Len(lru)]
  <2>1. memo' = [memo EXCEPT ![last] = Nothing, ![k] = v]
    BY <1>3
  <2> SUFFICES ASSUME NEW x \in Keys, NEW j \in Keys, memo[x] # Nothing, memo'[x] = Nothing,
                      memo[j] # Nothing, memo'[j] # Nothing
               PROVE  <<j, x>> \in usedAfter
    BY DEF EvictsByUse
  <2>2. x = last /\ x # k
    BY <1>1, <2>1
  <2>3. j # last
    BY <1>1, <2>1, <2>2
  <2>4. PICK i \in 1 .. Len(lru) : lru[i] = j
    BY DEF IInv, ListAndIndexAgree
  <2>5. i < Len(lru) /\ Len(lru) \in 1 .. Len(lru)
    BY <1>1, <2>3, <2>4
  <2> QED BY <2>2, <2>4, <2>5 DEF ListIsByUse, ByUse
<1>4. CASE memo[k] # Nothing
  BY <1>2, <1>4 DEF CacheStore
<1>5. CASE memo[k] = Nothing
  BY <1>2, <1>3, <1>5, CacheStorePushes
<1> QED BY <1>4, <1>5

\* The order of use, for every step, and what the step drops.
LEMMA NextKeepsByUse ==
    ASSUME IInv, ListIsByUse, [Next]_vars
    PROVE  ListIsByUse' /\ (UNCHANGED vars \/ EvictsByUse)
<1>1. CASE UNCHANGED memoryTier
  BY <1>1 DEF memoryTier, ListIsByUse, EvictsByUse
<1>2. ASSUME NEW w \in Workers, CacheLookup(w), memo[call[w].key] # Nothing
      PROVE  ListIsByUse' /\ EvictsByUse
  <2>1. call[w].key \in Keys /\ TouchEntry(call[w].key)
    BY <1>2 DEF CacheLookup, IInv, TypeOK
  <2>2. memo' = memo
    BY <2>1 DEF TouchEntry
  <2> QED BY <1>2, <2>1, <2>2, TouchEntryKeepsByUse DEF EvictsByUse
<1>3. ASSUME NEW k \in Keys, NEW v \in Entries \ {Nothing}, CacheStore(k, v)
      PROVE  ListIsByUse' /\ EvictsByUse
  BY <1>3, CacheStoreKeepsByUse, CacheStoreEvictsByUse
<1>4. CASE Restart
  <2>1. Len(lru') = 0 /\ \A k \in Keys : memo'[k] = Nothing
    BY <1>4 DEF Restart
  <2> QED BY <2>1 DEF ListIsByUse, ByUse, EvictsByUse
<1>5. ASSUME NEW w \in Workers, CallStep(w)
      PROVE  ListIsByUse' /\ (UNCHANGED vars \/ EvictsByUse)
  <2>1. CASE CacheLookup(w)
    BY <1>1, <1>2, <2>1 DEF CacheLookup
  <2>2. CASE Promote(w) \/ StoreInMemory(w)
    <3>1. call[w].key \in Keys /\ call[w].verdict \in Entries \ {Nothing}
      BY <2>2 DEF Promote, StoreInMemory, IInv, TypeOK, CallsAreSound
    <3>2. CacheStore(call[w].key, call[w].verdict) \/ UNCHANGED memoryTier
      BY <2>2 DEF Promote, StoreInMemory
    <3> QED BY <1>1, <1>3, <3>1, <3>2
  <2>3. CASE LoadFromDisk(w) \/ Resolve(w) \/ Get(w) \/ ReadAsset(w) \/ StoreOnDisk(w)
    BY <1>1, <2>3 DEF LoadFromDisk, Resolve, Get, ReadAsset, StoreOnDisk
  <2> QED BY <1>5, <2>1, <2>2, <2>3 DEF CallStep
<1>6. ASSUME NEW w \in Workers, NEW k \in Keys, Enter(w, k) PROVE UNCHANGED memoryTier
  BY <1>6 DEF Enter
<1>7. ASSUME NEW k \in Keys, NEW v \in Verdicts, Flip(k, v) PROVE UNCHANGED memoryTier
  BY <1>7 DEF Flip
<1>8. CASE UNCHANGED vars
  BY <1>1, <1>8 DEF vars, memoryTier
<1> QED BY <1>1, <1>4, <1>5, <1>6, <1>7, <1>8 DEF Next

\* For every capacity: what falls out of a full memory tier was used less recently than
\* everything that stays, whichever workers used it and in whatever order.
THEOREM LeastRecentlyUsedIsEvicted == Spec => EvictsLeastRecentlyUsed
<1>1. ASSUME Init PROVE ListIsByUse
  <2>1. Len(lru) = 0
    BY <1>1 DEF Init
  <2> QED BY <2>1 DEF ListIsByUse, ByUse
<1>2. IInv /\ ListIsByUse /\ [Next]_vars => ListIsByUse'
  BY NextKeepsByUse
<1>3. Spec => []ListIsByUse
  BY <1>1, <1>2, Invariance, PTL DEF Spec
<1>4. IInv /\ ListIsByUse /\ [Next]_vars => [EvictsByUse]_vars
  BY NextKeepsByUse
<1> QED BY <1>3, <1>4, Invariance, PTL DEF Spec, EvictsLeastRecentlyUsed, EvictsByUse
=============================================================================
