-------------------- MODULE LocalPreviewByteCache_proofs --------------------
(***************************************************************************)
(* Proofs about LocalPreviewByteCache for any keys, hashes (colliding ones *)
(* included), sizes, cap and failing file operations: a payload and a      *)
(* marker are never on disk together, a store that went through is what    *)
(* the next load answers, the oldest payload is evicted first, and the     *)
(* payloads stay within the cap.  Where no two keys share a hash, and no   *)
(* removal fails, every step is one of the port (PreviewByteCachePort).    *)
(***************************************************************************)
EXTENDS LocalPreviewByteCache, Filtering, TLAPS, SequenceTheorems

\* A store is a record with these fields, and nothing else.
Shaped(o) ==
    o = [pc |-> o.pc, key |-> o.key, verdict |-> o.verdict, total |-> o.total,
         victims |-> o.victims]

\* The files, and the store under way or just done.
FilesOK ==
    /\ bin \in [Hashes -> Images \cup {Torn, Nothing}]
    /\ neg \in [Hashes -> BOOLEAN]
    /\ idx \in [Hashes -> Keys \cup {Torn, Nothing}]

OpOK ==
    /\ Shaped(op) /\ op.pc \in PCs
    /\ op.pc # "failed" => op.key \in Keys /\ op.verdict \in Verdicts

\* Between the removal of the other kind and the write neither kind of entry
\* may come back; after the write, and until a rollback, it is the new one.
Clean == "remove" \notin broken

StoreKnowsItsFiles ==
    Clean =>
      /\ op.pc \in {"list", "evict", "evictIdx"} => Storing
      /\ op.pc \in {"list", "evict", "evictIdx", "write"} =>
            IF Storing THEN ~ neg[H] ELSE bin[H] = Nothing
      /\ op.pc \in {"index", "rollback", "done"} =>
            IF Storing THEN bin[H] = op.verdict ELSE neg[H]
      /\ op.pc = "done" => idx[H] = op.key

IInv == FilesOK /\ OpOK /\ StoreKnowsItsFiles /\ NeverCoResident

-----------------------------------------------------------------------------
\* What an update of the store's record leaves in it.

\* Changing fields of a store leaves the others as they are.
LEMMA UpdateOfAStore ==
    ASSUME NEW o, Shaped(o), NEW p, NEW t, NEW v
    PROVE  /\ [o EXCEPT !.pc = p] = [pc |-> p, key |-> o.key, verdict |-> o.verdict,
                                     total |-> o.total, victims |-> o.victims]
           /\ [o EXCEPT !.pc = p, !.total = t] =
                [pc |-> p, key |-> o.key, verdict |-> o.verdict, total |-> t,
                 victims |-> o.victims]
           /\ [o EXCEPT !.pc = p, !.victims = v] =
                [pc |-> p, key |-> o.key, verdict |-> o.verdict, total |-> o.total,
                 victims |-> v]
           /\ [o EXCEPT !.pc = p, !.total = t, !.victims = v] =
                [pc |-> p, key |-> o.key, verdict |-> o.verdict, total |-> t, victims |-> v]
<1> DEFINE A == {o.pc, p}  B == {o.key}  C == {o.verdict}  D == {o.total, t}
           E == {o.victims, v}
           R == [pc : A, key : B, verdict : C, total : D, victims : E]
           q == [o EXCEPT !.pc = p]
           r == [o EXCEPT !.pc = p, !.total = t]
           s == [o EXCEPT !.pc = p, !.victims = v]
           u == [o EXCEPT !.pc = p, !.total = t, !.victims = v]
<1>1. o \in R
  BY DEF Shaped
<1>2. p \in A /\ t \in D /\ v \in E
  OBVIOUS
<1> HIDE DEF A, B, C, D, E
<1>3. q \in R /\ r \in R /\ s \in R /\ u \in R
  BY <1>1, <1>2
<1>4. /\ q.pc = p /\ q.key = o.key /\ q.verdict = o.verdict /\ q.total = o.total
      /\ q.victims = o.victims
  BY <1>1, <1>2
<1>5. /\ r.pc = p /\ r.key = o.key /\ r.verdict = o.verdict /\ r.total = t
      /\ r.victims = o.victims
  BY <1>1, <1>2
<1>6. /\ s.pc = p /\ s.key = o.key /\ s.verdict = o.verdict /\ s.total = o.total
      /\ s.victims = v
  BY <1>1, <1>2
<1>7. /\ u.pc = p /\ u.key = o.key /\ u.verdict = o.verdict /\ u.total = t /\ u.victims = v
  BY <1>1, <1>2
<1> HIDE DEF q, r, s, u
<1>8. Shaped(q) /\ Shaped(r) /\ Shaped(s) /\ Shaped(u)
  BY <1>3 DEF Shaped
<1> QED BY <1>4, <1>5, <1>6, <1>7, <1>8 DEF q, r, s, u, Shaped

\* A step of a store that goes on keeps its key and its verdict.
LEMMA GotoKeepsTheStore ==
    ASSUME OpOK, NEW p \in PCs, op.pc # "failed", NEW t, NEW v,
           \/ op' = [op EXCEPT !.pc = p]
           \/ op' = [op EXCEPT !.pc = p, !.total = t]
           \/ op' = [op EXCEPT !.pc = p, !.victims = v]
           \/ op' = [op EXCEPT !.pc = p, !.total = t, !.victims = v]
    PROVE  OpOK' /\ op'.pc = p /\ op'.key = op.key /\ op'.verdict = op.verdict
<1>1. Shaped(op)
  BY DEF OpOK
<1>2. \E y, z : op' = [pc |-> p, key |-> op.key, verdict |-> op.verdict, total |-> y,
                       victims |-> z]
  BY <1>1, UpdateOfAStore
<1>3. Shaped(op') /\ op'.pc = p /\ op'.key = op.key /\ op'.verdict = op.verdict
  BY <1>2 DEF Shaped
<1> QED BY <1>3 DEF OpOK

\* A store that gave up knows nothing.
LEMMA GivingUpKeepsTheInvariant ==
    ASSUME op' = Failed, FilesOK', NeverCoResident'
    PROVE  IInv'
<1>1. Shaped(op') /\ op'.pc = "failed"
  BY DEF Failed, Shaped
<1> QED BY <1>1 DEF IInv, OpOK, StoreKnowsItsFiles, PCs

\* A store that has not failed knows its key and its hash.
LEMMA HashOfTheStore ==
    ASSUME OpOK, op.pc # "failed"
    PROVE  /\ H \in Hashes /\ op.key \in Keys
           /\ Storing => op.verdict \in Images /\ op.verdict # Nothing /\ op.verdict # Torn
BY CacheAssumption DEF OpOK, H, Storing, Verdicts

-----------------------------------------------------------------------------
\* Every step keeps the invariant.

\* The invariant, for a load, which may change the ages only,
LEMMA LoadKeepsTheInvariant ==
    ASSUME IInv, UNCHANGED <<bin, neg, idx, op, broken>>
    PROVE  IInv'
BY DEF IInv, FilesOK, OpOK, StoreKnowsItsFiles, NeverCoResident, Clean, Storing, H

\* for the start of a store,
LEMMA EnsureDirectoryKeepsTheInvariant ==
    ASSUME IInv, NEW k \in Keys, NEW v \in Verdicts, EnsureDirectory(k, v)
    PROVE  IInv'
<1>1. FilesOK' /\ NeverCoResident'
  BY DEF IInv, FilesOK, NeverCoResident, EnsureDirectory
<1>2. CASE op' = Failed
  BY <1>1, <1>2, GivingUpKeepsTheInvariant
<1>3. CASE op' = [pc |-> "clear", key |-> k, verdict |-> v, total |-> 0, victims |-> <<>>]
  <2>1. Shaped(op') /\ op'.pc = "clear" /\ op'.key = k /\ op'.verdict = v
    BY <1>3 DEF Shaped
  <2>2. OpOK' /\ StoreKnowsItsFiles'
    BY <2>1 DEF OpOK, StoreKnowsItsFiles, PCs
  <2> QED BY <1>1, <2>2 DEF IInv
<1> QED BY <1>2, <1>3 DEF EnsureDirectory

\* for the removal of the opposite verdict,
LEMMA ClearOtherKeepsTheInvariant ==
    ASSUME IInv, ClearOther
    PROVE  IInv'
<1>1. op.pc = "clear" /\ H \in Hashes
  BY HashOfTheStore DEF ClearOther, IInv
<1> DEFINE p == IF Storing THEN "list" ELSE "write"
<1>2. p \in PCs /\ op' = [op EXCEPT !.pc = p]
  BY DEF PCs, ClearOther, Goto
<1> HIDE DEF p
<1>3. OpOK' /\ op'.pc = p /\ op'.key = op.key /\ op'.verdict = op.verdict
  BY <1>1, <1>2, GotoKeepsTheStore DEF IInv
<1>4. H' = H /\ (Storing' <=> Storing)
  BY <1>3 DEF H, Storing
<1>5. CASE Storing /\ neg' = [neg EXCEPT ![H] = FALSE] /\ UNCHANGED <<bin, idx, broken>>
  <2>1. FilesOK' /\ NeverCoResident' /\ ~ neg'[H]
    BY <1>1, <1>5 DEF IInv, FilesOK, NeverCoResident
  <2>2. StoreKnowsItsFiles'
    BY <1>3, <1>4, <1>5, <2>1 DEF StoreKnowsItsFiles, p
  <2> QED BY <1>3, <2>1, <2>2 DEF IInv
<1>6. CASE ~ Storing /\ RemoveBin(H) /\ UNCHANGED <<neg, idx, broken>>
  <2>1. FilesOK' /\ NeverCoResident' /\ bin'[H] = Nothing
    BY <1>1, <1>6 DEF IInv, FilesOK, NeverCoResident, RemoveBin
  <2>2. StoreKnowsItsFiles'
    BY <1>3, <1>4, <1>6, <2>1 DEF StoreKnowsItsFiles, p
  <2> QED BY <1>3, <2>1, <2>2 DEF IInv
<1>7. CASE Breaks("remove") /\ UNCHANGED <<bin, neg, idx>>
  BY <1>3, <1>7 DEF IInv, FilesOK, NeverCoResident, StoreKnowsItsFiles, Clean, Breaks
<1> QED BY <1>5, <1>6, <1>7 DEF ClearOther

\* Steps of an eviction: no payload and no marker appears.
LEMMA EvictionKeepsTheInvariant ==
    ASSUME IInv, OpOK', op.pc \in {"list", "evict", "evictIdx"},
           op'.pc \in {"evict", "evictIdx", "write"},
           op'.key = op.key, op'.verdict = op.verdict,
           FilesOK', UNCHANGED neg, broken \subseteq broken',
           \A h \in Hashes : bin'[h] \in {bin[h], Nothing}
    PROVE  IInv'
<1>1. H \in Hashes /\ H' = H /\ (Storing' <=> Storing)
  BY HashOfTheStore DEF IInv, H, Storing
<1>2. NeverCoResident'
  BY DEF IInv, NeverCoResident
<1>3. StoreKnowsItsFiles'
  BY <1>1 DEF IInv, StoreKnowsItsFiles, Clean
<1> QED BY <1>2, <1>3 DEF IInv

\* for the listing that an eviction works from,
LEMMA ListDirectoryKeepsTheInvariant ==
    ASSUME IInv, ListDirectory
    PROVE  IInv'
<1>1. op.pc = "list" /\ UNCHANGED <<bin, neg, idx>> /\ broken \subseteq broken'
  BY DEF ListDirectory, Breaks
<1> DEFINE t == Bytes
<1>2. \/ op' = [op EXCEPT !.pc = "write"]
      \/ op' = [op EXCEPT !.pc = "evict", !.total = t, !.victims = age]
  BY DEF ListDirectory, Goto
<1> HIDE DEF t
<1>3. OpOK' /\ op'.pc \in {"evict", "write"} /\ op'.key = op.key /\ op'.verdict = op.verdict
  <2>1. "write" \in PCs /\ "evict" \in PCs /\ OpOK /\ op.pc # "failed"
    BY <1>1 DEF PCs, IInv
  <2>2. CASE op' = [op EXCEPT !.pc = "write"]
    BY <2>1, <2>2, GotoKeepsTheStore
  <2>3. CASE op' = [op EXCEPT !.pc = "evict", !.total = t, !.victims = age]
    BY <2>1, <2>3, GotoKeepsTheStore
  <2> QED BY <1>2, <2>2, <2>3
<1>4. FilesOK' /\ \A h \in Hashes : bin'[h] \in {bin[h], Nothing}
  BY <1>1 DEF IInv, FilesOK
<1> QED BY <1>1, <1>3, <1>4, EvictionKeepsTheInvariant

\* for the removal of a payload,
LEMMA EvictBinKeepsTheInvariant ==
    ASSUME IInv, EvictBin
    PROVE  IInv'
<1> DEFINE h == Head(op.victims)  size == SizeOf(bin[h])
           t == IF size > op.total THEN 0 ELSE op.total - size
<1>1. op.pc = "evict" /\ UNCHANGED <<neg, idx>> /\ broken \subseteq broken'
  BY DEF EvictBin, Breaks
<1>2. op' = [op EXCEPT !.pc = "evictIdx", !.total = t]
  BY DEF EvictBin
<1>3. bin' = [bin EXCEPT ![h] = Nothing] \/ bin' = bin
  BY DEF EvictBin, RemoveBin
<1> HIDE DEF h, t
<1>4. OpOK' /\ op'.pc = "evictIdx" /\ op'.key = op.key /\ op'.verdict = op.verdict
  BY <1>1, <1>2, GotoKeepsTheStore DEF IInv, PCs
<1>5. FilesOK' /\ \A g \in Hashes : bin'[g] \in {bin[g], Nothing}
  BY <1>1, <1>3 DEF IInv, FilesOK
<1> QED BY <1>1, <1>4, <1>5, EvictionKeepsTheInvariant

\* for the removal of its index,
LEMMA EvictIdxKeepsTheInvariant ==
    ASSUME IInv, EvictIdx
    PROVE  IInv'
<1> DEFINE h == Head(op.victims)  v == Tail(op.victims)
<1>1. op.pc = "evictIdx" /\ UNCHANGED <<bin, neg>> /\ broken \subseteq broken'
  BY DEF EvictIdx, Breaks
<1>2. op' = [op EXCEPT !.pc = "evict", !.victims = v]
  BY DEF EvictIdx
<1>3. idx' = [idx EXCEPT ![h] = Nothing] \/ idx' = idx
  BY DEF EvictIdx
<1> HIDE DEF h, v
<1>4. OpOK' /\ op'.pc = "evict" /\ op'.key = op.key /\ op'.verdict = op.verdict
  BY <1>1, <1>2, GotoKeepsTheStore DEF IInv, PCs
<1>5. FilesOK' /\ \A g \in Hashes : bin'[g] \in {bin[g], Nothing}
  BY <1>1, <1>3 DEF IInv, FilesOK
<1> QED BY <1>1, <1>4, <1>5, EvictionKeepsTheInvariant

\* for the end of an eviction,
LEMMA EvictionEndsKeepsTheInvariant ==
    ASSUME IInv, EvictionEnds
    PROVE  IInv'
<1>1. /\ op.pc = "evict" /\ UNCHANGED <<bin, neg, idx, broken>>
      /\ op' = [op EXCEPT !.pc = "write", !.total = 0, !.victims = <<>>]
  BY DEF EvictionEnds
<1>2. OpOK' /\ op'.pc = "write" /\ op'.key = op.key /\ op'.verdict = op.verdict
  BY <1>1, GotoKeepsTheStore DEF IInv, PCs
<1>3. FilesOK' /\ \A g \in Hashes : bin'[g] \in {bin[g], Nothing}
  BY <1>1 DEF IInv, FilesOK
<1> QED BY <1>1, <1>2, <1>3, EvictionKeepsTheInvariant

\* The entry is written when the other kind is gone; a torn payload counts as
\* one, but its store is over.
LEMMA WriteEntryKeepsTheInvariant ==
    ASSUME IInv, WriteEntry
    PROVE  IInv'
<1>1. op.pc = "write" /\ H \in Hashes /\ UNCHANGED <<idx, broken>>
  BY HashOfTheStore DEF WriteEntry, IInv
<1>2. Clean => IF Storing THEN ~ neg[H] ELSE bin[H] = Nothing
  BY <1>1 DEF IInv, StoreKnowsItsFiles
<1>3. CASE Goto("index") /\ Storing /\ bin' = [bin EXCEPT ![H] = op.verdict] /\ neg' = neg
  <2>1. OpOK' /\ op'.pc = "index" /\ op'.key = op.key /\ op'.verdict = op.verdict
    BY <1>1, <1>3, GotoKeepsTheStore DEF IInv, PCs, Goto
  <2>2. H' = H /\ Storing'
    BY <1>3, <2>1 DEF H, Storing
  <2>3. FilesOK' /\ NeverCoResident' /\ bin'[H] = op.verdict
    BY <1>1, <1>2, <1>3, HashOfTheStore DEF IInv, FilesOK, NeverCoResident, Clean
  <2>4. StoreKnowsItsFiles'
    BY <2>1, <2>2, <2>3 DEF StoreKnowsItsFiles
  <2> QED BY <2>1, <2>3, <2>4 DEF IInv
<1>4. CASE Goto("index") /\ ~ Storing /\ neg' = [neg EXCEPT ![H] = TRUE] /\ bin' = bin
  <2>1. OpOK' /\ op'.pc = "index" /\ op'.key = op.key /\ op'.verdict = op.verdict
    BY <1>1, <1>4, GotoKeepsTheStore DEF IInv, PCs, Goto
  <2>2. H' = H /\ ~ Storing'
    BY <1>4, <2>1 DEF H, Storing
  <2>3. FilesOK' /\ NeverCoResident' /\ neg'[H]
    BY <1>1, <1>2, <1>4 DEF IInv, FilesOK, NeverCoResident, Clean
  <2>4. StoreKnowsItsFiles'
    BY <2>1, <2>2, <2>3 DEF StoreKnowsItsFiles
  <2> QED BY <2>1, <2>3, <2>4 DEF IInv
<1>5. CASE op' = Failed /\ Storing /\ bin' = [bin EXCEPT ![H] = Torn] /\ neg' = neg
  <2>1. FilesOK' /\ NeverCoResident'
    BY <1>1, <1>2, <1>5 DEF IInv, FilesOK, NeverCoResident, Clean
  <2> QED BY <1>5, <2>1, GivingUpKeepsTheInvariant
<1>6. CASE op' = Failed /\ UNCHANGED <<bin, neg>>
  <2>1. FilesOK' /\ NeverCoResident'
    BY <1>1, <1>6 DEF IInv, FilesOK, NeverCoResident
  <2> QED BY <1>6, <2>1, GivingUpKeepsTheInvariant
<1> QED BY <1>3, <1>4, <1>5, <1>6 DEF WriteEntry

\* for the write of the index,
LEMMA WriteIndexKeepsTheInvariant ==
    ASSUME IInv, WriteIndex
    PROVE  IInv'
<1>1. op.pc = "index" /\ H \in Hashes /\ op.key \in Keys /\ UNCHANGED <<bin, neg, broken>>
  BY HashOfTheStore DEF WriteIndex, IInv
<1>2. PICK p \in {"done", "rollback"} :
        /\ op' = [op EXCEPT !.pc = p]
        /\ IF p = "done" THEN idx' = [idx EXCEPT ![H] = op.key]
           ELSE idx' \in {idx, [idx EXCEPT ![H] = Torn]}
  BY DEF WriteIndex, Goto
<1>3. OpOK' /\ op'.pc = p /\ op'.key = op.key /\ op'.verdict = op.verdict
  BY <1>1, <1>2, GotoKeepsTheStore DEF IInv, PCs
<1>4. H' = H /\ (Storing' <=> Storing)
  BY <1>3 DEF H, Storing
<1>5. FilesOK' /\ NeverCoResident' /\ (p = "done" => idx'[H] = op.key)
  BY <1>1, <1>2 DEF IInv, FilesOK, NeverCoResident
<1>6. StoreKnowsItsFiles'
  BY <1>1, <1>3, <1>4, <1>5 DEF IInv, StoreKnowsItsFiles, Clean
<1> QED BY <1>3, <1>5, <1>6 DEF IInv

\* for the removal of a payload without an index,
LEMMA RollbackKeepsTheInvariant ==
    ASSUME IInv, Rollback
    PROVE  IInv'
<1>1. op.pc = "rollback" /\ H \in Hashes /\ op' = Failed /\ idx' = idx /\ broken \subseteq broken'
  BY HashOfTheStore DEF Rollback, IInv, Breaks
<1>2. \/ bin' = [bin EXCEPT ![H] = Nothing] /\ neg' = neg
      \/ neg' = [neg EXCEPT ![H] = FALSE] /\ bin' = bin
      \/ UNCHANGED <<bin, neg>>
  BY DEF Rollback, RemoveBin
<1>3. FilesOK' /\ NeverCoResident'
  BY <1>1, <1>2 DEF IInv, FilesOK, NeverCoResident
<1> QED BY <1>1, <1>3, GivingUpKeepsTheInvariant

\* and for the end of the process between two of them.
LEMMA CrashKeepsTheInvariant ==
    ASSUME IInv, Crash
    PROVE  IInv'
<1>1. FilesOK' /\ NeverCoResident' /\ op' = Failed
  BY DEF IInv, FilesOK, NeverCoResident, Crash
<1> QED BY <1>1, GivingUpKeepsTheInvariant

-----------------------------------------------------------------------------
\* The theorems.

\* The invariant, at first.
LEMMA InitEstablishesTheInvariant ==
    ASSUME Init
    PROVE  IInv
BY DEF Init, Failed, IInv, FilesOK, OpOK, Shaped, PCs, StoreKnowsItsFiles, NeverCoResident

\* The invariant, for every step.
LEMMA NextKeepsTheInvariant ==
    ASSUME IInv, [Next]_vars
    PROVE  IInv'
<1>1. CASE \E k \in Keys : Load(k)
  BY <1>1, LoadKeepsTheInvariant DEF Load
<1>2. CASE \E k \in Keys : \E v \in {i \in Images : i.of = k} \cup {Negative} :
             EnsureDirectory(k, v)
  BY <1>2, EnsureDirectoryKeepsTheInvariant DEF Verdicts
<1>3. CASE ClearOther
  BY <1>3, ClearOtherKeepsTheInvariant
<1>4. CASE ListDirectory
  BY <1>4, ListDirectoryKeepsTheInvariant
<1>5. CASE EvictBin
  BY <1>5, EvictBinKeepsTheInvariant
<1>6. CASE EvictIdx
  BY <1>6, EvictIdxKeepsTheInvariant
<1>7. CASE EvictionEnds
  BY <1>7, EvictionEndsKeepsTheInvariant
<1>8. CASE WriteEntry
  BY <1>8, WriteEntryKeepsTheInvariant
<1>9. CASE WriteIndex
  BY <1>9, WriteIndexKeepsTheInvariant
<1>10. CASE Rollback
  BY <1>10, RollbackKeepsTheInvariant
<1>11. CASE Crash
  BY <1>11, CrashKeepsTheInvariant
<1>12. CASE UNCHANGED vars
  BY <1>12, LoadKeepsTheInvariant DEF vars
<1> QED BY <1>1, <1>2, <1>3, <1>4, <1>5, <1>6, <1>7, <1>8, <1>9, <1>10, <1>11, <1>12
        DEF Next, StoreStep

\* What is on disk is accounted for: the files of an entry agree with the
\* stage its store has reached.
THEOREM FilesAgreeWithTheStore == Spec => []IInv
<1>1. Init => IInv
  BY InitEstablishesTheInvariant
<1>2. IInv /\ [Next]_vars => IInv'
  BY NextKeepsTheInvariant
<1> QED BY <1>1, <1>2, PTL DEF Spec

\* LocalPreviewByteCache::store and storeNegative remove the opposite kind
\* before they write: whatever else fails and wherever the process dies, a
\* .bin and a .neg of one hash are never on disk together.
THEOREM PayloadAndMarkerExclude == Spec => []NeverCoResident
<1>1. IInv => NeverCoResident
  BY DEF IInv
<1> QED BY <1>1, FilesAgreeWithTheStore, PTL

\* A store that went through is what LocalPreviewByteCache::load answers, also
\* when its key shares its hash with others.
THEOREM StoresAreServed == Spec => []StoredIsServed
<1>1. ASSUME IInv, op.pc = "done", Clean
      PROVE  Answer(op.key) = op.verdict
  <2>1. /\ IF Storing THEN bin[H] = op.verdict ELSE neg[H]
        /\ idx[H] = op.key /\ H \in Hashes
    BY <1>1, HashOfTheStore DEF IInv, StoreKnowsItsFiles
  <2>2. CASE Storing
    BY <1>1, <2>1, <2>2, HashOfTheStore DEF IInv, Answer, H
  <2>3. CASE ~ Storing
    <3>1. bin[H] = Nothing
      BY <1>1, <2>1, <2>3 DEF IInv, NeverCoResident, Clean
    <3> QED BY <2>1, <2>3, <3>1 DEF Answer, H, Storing
  <2> QED BY <2>2, <2>3
<1>2. IInv => StoredIsServed
  BY <1>1 DEF StoredIsServed, Clean
<1> QED BY <1>2, FilesAgreeWithTheStore, PTL

-----------------------------------------------------------------------------
(***************************************************************************)
(* The order of the payloads.  The list of ages holds every payload once;  *)
(* the eviction works off a copy of it, and as long as removals succeed    *)
(* the copy is the list.                                                   *)
(***************************************************************************)
Lists(s, h) == \E i \in 1 .. Len(s) : s[i] = h
NoRepeats(s) == \A i, j \in 1 .. Len(s) : s[i] = s[j] => i = j

AgesOK ==
    /\ age \in Seq(Hashes)
    /\ NoRepeats(age)
    /\ \A h \in Hashes : bin[h] # Nothing <=> Lists(age, h)

\* The payload of the entry that is being evicted is gone, and there is no marker.
VictimsAreOldest ==
    /\ op.pc \in {"evict", "evictIdx"} => op.victims \in Seq(Hashes)
    /\ op.pc = "evictIdx" => op.victims # <<>>
    /\ Clean /\ op.pc = "evict" => op.victims = age
    /\ Clean /\ op.pc = "evictIdx" =>
          /\ Tail(op.victims) = age
          /\ bin[Head(op.victims)] = Nothing /\ ~ neg[Head(op.victims)]

OrderInv == IInv /\ AgesOK /\ VictimsAreOldest

\* What RemoveAt leaves of a sequence.
LEMMA RemoveAtProperties ==
    ASSUME NEW S, NEW s \in Seq(S), NEW p \in 1 .. Len(s)
    PROVE  /\ RemoveAt(s, p) \in Seq(S)
           /\ Len(RemoveAt(s, p)) = Len(s) - 1
           /\ \A i \in 1 .. Len(s) - 1 :
                 RemoveAt(s, p)[i] = IF i < p THEN s[i] ELSE s[i + 1]
<1> DEFINE a == SubSeq(s, 1, p - 1)
           b == SubSeq(s, p + 1, Len(s))
<1>1. Len(s) \in Nat /\ p \in Nat /\ 1 <= p /\ p <= Len(s)
  OBVIOUS
<1>2. /\ a \in Seq(S) /\ Len(a) = p - 1
      /\ \A i \in 1 .. p - 1 : a[i] = s[i]
  BY <1>1
<1>3. /\ b \in Seq(S) /\ Len(b) = Len(s) - p
      /\ \A i \in 1 .. Len(s) - p : b[i] = s[p + i]
  BY <1>1
<1> HIDE DEF a, b
<1>4. /\ a \o b \in Seq(S) /\ Len(a \o b) = Len(s) - 1
      /\ \A i \in 1 .. Len(s) - 1 : (a \o b)[i] = IF i < p THEN a[i] ELSE b[i - (p - 1)]
  <2>1. /\ a \o b \in Seq(S) /\ Len(a \o b) = Len(a) + Len(b)
        /\ \A i \in 1 .. Len(a) + Len(b) :
              (a \o b)[i] = IF i <= Len(a) THEN a[i] ELSE b[i - Len(a)]
    BY <1>2, <1>3, ConcatProperties
  <2>2. Len(a) + Len(b) = Len(s) - 1 /\ \A i \in Int : i <= Len(a) <=> i < p
    BY <1>1, <1>2, <1>3
  <2> QED BY <1>1, <1>2, <2>1, <2>2
<1>5. \A i \in 1 .. Len(s) - 1 : (a \o b)[i] = IF i < p THEN s[i] ELSE s[i + 1]
  <2> TAKE i \in 1 .. Len(s) - 1
  <2>1. CASE i < p
    BY <1>1, <1>2, <1>4, <2>1
  <2>2. CASE ~ (i < p)
    <3>1. i - (p - 1) \in 1 .. Len(s) - p /\ p + (i - (p - 1)) = i + 1
      BY <1>1, <2>2
    <3> QED BY <1>3, <1>4, <2>2, <3>1
  <2> QED BY <2>1, <2>2
<1> QED BY <1>4, <1>5 DEF RemoveAt, a, b

\* A hash that is forgotten is in no order, and the others are in theirs.
LEMMA ForgetProperties ==
    ASSUME AgesOK, NEW h \in Hashes
    PROVE  /\ Forget(h) \in Seq(Hashes)
           /\ NoRepeats(Forget(h))
           /\ \A g \in Hashes : Lists(Forget(h), g) <=> (Lists(age, g) /\ g # h)
<1>1. age \in Seq(Hashes) /\ Len(age) \in Nat /\ NoRepeats(age)
  BY DEF AgesOK
<1>2. CASE ~ Lists(age, h)
  <2>1. Forget(h) = age
    BY <1>2 DEF Forget, Lists
  <2> QED BY <1>1, <1>2, <2>1
<1>3. CASE Lists(age, h)
  <2> DEFINE p == CHOOSE i \in 1 .. Len(age) : age[i] = h
             r == RemoveAt(age, p)
  <2>1. p \in 1 .. Len(age) /\ age[p] = h
    BY <1>3 DEF Lists
  <2>2. Forget(h) = r
    BY <1>3 DEF Forget, Lists
  <2> HIDE DEF p
  <2>3. /\ r \in Seq(Hashes) /\ Len(r) = Len(age) - 1
        /\ \A i \in 1 .. Len(age) - 1 : r[i] = IF i < p THEN age[i] ELSE age[i + 1]
    BY <1>1, <2>1, RemoveAtProperties
  <2> HIDE DEF r
  <2> DEFINE from(i) == IF i < p THEN i ELSE i + 1
  <2>4. \A i \in 1 .. Len(r) : from(i) \in 1 .. Len(age) /\ from(i) # p /\ r[i] = age[from(i)]
    BY <1>1, <2>1, <2>3
  <2>5. \A i, j \in 1 .. Len(r) : from(i) = from(j) => i = j
    BY <1>1, <2>1, <2>3
  <2>6. \A j \in 1 .. Len(age) : j # p => \E i \in 1 .. Len(r) : from(i) = j
    <3> SUFFICES ASSUME NEW j \in 1 .. Len(age), j # p
                 PROVE  \E i \in 1 .. Len(r) : from(i) = j
      OBVIOUS
    <3>1. CASE j < p
      <4>1. j \in 1 .. Len(r) /\ from(j) = j
        BY <1>1, <2>1, <2>3, <3>1
      <4> QED BY <4>1
    <3>2. CASE j > p
      <4>1. j - 1 \in 1 .. Len(r) /\ from(j - 1) = j
        BY <1>1, <2>1, <2>3, <3>2
      <4> QED BY <4>1
    <3> QED BY <1>1, <2>1, <3>1, <3>2
  <2> HIDE DEF from
  <2>7. NoRepeats(r)
    BY <1>1, <2>4, <2>5 DEF NoRepeats
  <2>8. \A g \in Hashes : Lists(r, g) <=> (Lists(age, g) /\ g # h)
    <3> TAKE g \in Hashes
    <3>1. ASSUME Lists(r, g) PROVE Lists(age, g) /\ g # h
      <4>1. PICK i \in 1 .. Len(r) : r[i] = g
        BY <3>1 DEF Lists
      <4>2. from(i) \in 1 .. Len(age) /\ from(i) # p /\ age[from(i)] = g
        BY <2>4, <4>1
      <4> QED BY <1>1, <2>1, <4>2 DEF Lists, NoRepeats
    <3>2. ASSUME Lists(age, g), g # h PROVE Lists(r, g)
      <4>1. PICK j \in 1 .. Len(age) : age[j] = g
        BY <3>2 DEF Lists
      <4>2. PICK i \in 1 .. Len(r) : from(i) = j
        BY <2>1, <2>6, <3>2, <4>1
      <4> QED BY <2>4, <4>1, <4>2 DEF Lists
    <3> QED BY <3>1, <3>2
  <2> QED BY <2>2, <2>3, <2>7, <2>8
<1> QED BY <1>2, <1>3

\* A hash that is touched is listed once.
LEMMA NewestProperties ==
    ASSUME AgesOK, NEW h \in Hashes
    PROVE  /\ Newest(h) \in Seq(Hashes)
           /\ NoRepeats(Newest(h))
           /\ \A g \in Hashes : Lists(Newest(h), g) <=> (Lists(age, g) \/ g = h)
<1> DEFINE f == Forget(h)
           n == Newest(h)
<1>1. /\ f \in Seq(Hashes) /\ NoRepeats(f)
      /\ \A g \in Hashes : Lists(f, g) <=> (Lists(age, g) /\ g # h)
  BY ForgetProperties
<1> HIDE DEF f
<1>2. /\ n \in Seq(Hashes) /\ Len(f) \in Nat /\ Len(n) = Len(f) + 1
      /\ \A i \in 1 .. Len(f) : n[i] = f[i]
      /\ n[Len(f) + 1] = h
  BY <1>1, AppendProperties DEF Newest, f
<1> HIDE DEF n
<1>3. \A i \in 1 .. Len(n) : (i \in 1 .. Len(f) /\ n[i] = f[i]) \/ (i = Len(f) + 1 /\ n[i] = h)
  BY <1>2
<1>4. \A i \in 1 .. Len(f) : f[i] # h
  BY <1>1 DEF Lists
<1>5. NoRepeats(n)
  BY <1>1, <1>3, <1>4 DEF NoRepeats
<1>6. \A g \in Hashes : Lists(n, g) <=> (Lists(f, g) \/ g = h)
  <2> TAKE g \in Hashes
  <2>1. Lists(n, g) => (Lists(f, g) \/ g = h)
    BY <1>3 DEF Lists
  <2>2. Lists(f, g) => Lists(n, g)
    BY <1>2 DEF Lists
  <2>3. g = h => Lists(n, g)
    <3>1. Len(f) + 1 \in 1 .. Len(n)
      BY <1>2
    <3> QED BY <1>2, <3>1 DEF Lists
  <2> QED BY <2>1, <2>2, <2>3
<1> QED BY <1>1, <1>2, <1>5, <1>6 DEF n

\* The payload that is removed first is the first of the list.
LEMMA ForgetTheOldest ==
    ASSUME AgesOK, age # <<>>
    PROVE  /\ Head(age) = age[1] /\ age[1] \in Hashes /\ bin[age[1]] # Nothing
           /\ Forget(age[1]) = Tail(age)
<1>1. age \in Seq(Hashes) /\ Len(age) \in Nat /\ 1 \in 1 .. Len(age) /\ NoRepeats(age)
  BY DEF AgesOK
<1>2. Head(age) = age[1] /\ age[1] \in Hashes /\ Lists(age, age[1])
  BY <1>1 DEF Lists
<1> DEFINE p == CHOOSE i \in 1 .. Len(age) : age[i] = age[1]
<1>3. p \in 1 .. Len(age) /\ age[p] = age[1]
  BY <1>1
<1>4. p = 1
  BY <1>1, <1>3 DEF NoRepeats
<1>5. Forget(age[1]) = RemoveAt(age, 1)
  BY <1>2, <1>4 DEF Forget, Lists
<1>6. /\ RemoveAt(age, 1) \in Seq(Hashes) /\ Len(RemoveAt(age, 1)) = Len(age) - 1
      /\ \A i \in 1 .. Len(age) - 1 : RemoveAt(age, 1)[i] = age[i + 1]
  BY <1>1, RemoveAtProperties
<1>7. /\ Tail(age) \in Seq(Hashes) /\ Len(Tail(age)) = Len(age) - 1
      /\ \A i \in 1 .. Len(age) - 1 : Tail(age)[i] = age[i + 1]
  BY <1>1
<1>8. RemoveAt(age, 1) = Tail(age)
  BY <1>1, <1>6, <1>7, SeqEqual
<1> QED BY <1>2, <1>5, <1>8 DEF AgesOK

-----------------------------------------------------------------------------
\* Every step keeps the order.

\* Removing a payload keeps the ages those of the payloads there are.
LEMMA RemovingKeepsAges ==
    ASSUME FilesOK, AgesOK, NEW h \in Hashes, RemoveBin(h)
    PROVE  AgesOK' /\ bin'[h] = Nothing
<1>1. bin' = [bin EXCEPT ![h] = Nothing] /\ age' = Forget(h)
  BY DEF RemoveBin
<1> QED BY <1>1, ForgetProperties DEF AgesOK, FilesOK

\* So does writing one.
LEMMA WritingKeepsAges ==
    ASSUME FilesOK, AgesOK, NEW h \in Hashes, NEW v, v # Nothing,
           bin' = [bin EXCEPT ![h] = v], age' = Newest(h)
    PROVE  AgesOK'
BY NewestProperties DEF AgesOK, FilesOK

\* Where no eviction is under way the victims do not matter.
LEMMA NoVictims ==
    ASSUME IInv', AgesOK', op'.pc \notin {"evict", "evictIdx"}
    PROVE  OrderInv'
BY DEF OrderInv, VictimsAreOldest

\* The invariant of the order, for every step.
LEMMA TheOrderIsKept ==
    ASSUME OrderInv, [Next]_vars
    PROVE  OrderInv'
<1>1. IInv /\ IInv' /\ FilesOK /\ AgesOK /\ VictimsAreOldest
  BY NextKeepsTheInvariant DEF OrderInv, IInv
<1>2. op.pc # "failed" => H \in Hashes
  BY <1>1, HashOfTheStore DEF IInv
<1>3. ASSUME NEW k \in Keys, Load(k) PROVE OrderInv'
  <2>1. /\ HashOf[k] \in Hashes /\ bin[HashOf[k]] # Nothing
        /\ age' = Newest(HashOf[k]) /\ UNCHANGED <<bin, op>> /\ op.pc \in {"done", "failed"}
    BY <1>3, CacheAssumption DEF Load, Answer, Idle, Images
  <2>2. AgesOK'
    BY <1>1, <2>1, NewestProperties DEF AgesOK
  <2> QED BY <1>1, <2>1, <2>2, NoVictims
<1>4. ASSUME NEW k \in Keys, NEW v, EnsureDirectory(k, v) PROVE OrderInv'
  <2>1. op'.pc \in {"clear", "failed"} /\ UNCHANGED <<bin, age>>
    BY <1>4 DEF EnsureDirectory, Failed
  <2> QED BY <1>1, <2>1, NoVictims DEF AgesOK
<1>5. CASE ClearOther
  <2>1. op.pc = "clear" /\ op' = [op EXCEPT !.pc = IF Storing THEN "list" ELSE "write"]
    BY <1>5 DEF ClearOther, Goto
  <2>2. op'.pc \in {"list", "write"}
    BY <1>1, <2>1, GotoKeepsTheStore DEF IInv, PCs
  <2>3. RemoveBin(H) \/ UNCHANGED <<bin, age>>
    BY <1>5 DEF ClearOther
  <2>4. AgesOK'
    BY <1>1, <1>2, <2>1, <2>3, RemovingKeepsAges DEF AgesOK
  <2> QED BY <1>1, <2>2, <2>4, NoVictims
<1>6. CASE ListDirectory
  <2>1. op.pc = "list" /\ UNCHANGED <<bin, neg, age>>
    BY <1>6 DEF ListDirectory
  <2>2. AgesOK'
    BY <1>1, <2>1 DEF AgesOK
  <2>3. CASE op' = [op EXCEPT !.pc = "evict", !.total = Bytes, !.victims = age]
    <3> DEFINE t == Bytes
    <3>1. op' = [pc |-> "evict", key |-> op.key, verdict |-> op.verdict, total |-> t,
                 victims |-> age]
      BY <1>1, <2>3, UpdateOfAStore DEF IInv, OpOK
    <3> HIDE DEF t
    <3>2. op'.pc = "evict" /\ op'.victims = age
      BY <3>1
    <3>3. age \in Seq(Hashes) /\ UNCHANGED age
      BY <1>1, <2>1 DEF AgesOK
    <3>4. VictimsAreOldest'
      BY <3>2, <3>3 DEF VictimsAreOldest
    <3> QED BY <1>1, <2>2, <3>4 DEF OrderInv
  <2>4. CASE Goto("write")
    <3>1. op'.pc = "write"
      BY <1>1, <2>1, <2>4, GotoKeepsTheStore DEF IInv, PCs, Goto
    <3> QED BY <1>1, <2>2, <3>1, NoVictims
  <2> QED BY <1>6, <2>3, <2>4 DEF ListDirectory
<1>7. CASE EvictBin
  <2> DEFINE h == Head(op.victims)
             t == IF SizeOf(bin[h]) > op.total THEN 0 ELSE op.total - SizeOf(bin[h])
  <2>1. /\ op.pc = "evict" /\ op.victims # <<>> /\ op.victims \in Seq(Hashes) /\ UNCHANGED neg
        /\ op' = [op EXCEPT !.pc = "evictIdx", !.total = t]
        /\ \/ RemoveBin(h) /\ UNCHANGED broken
           \/ "remove" \in broken' /\ UNCHANGED <<bin, age>>
    BY <1>1, <1>7 DEF EvictBin, Breaks, VictimsAreOldest
  <2>2. op' = [pc |-> "evictIdx", key |-> op.key, verdict |-> op.verdict, total |-> t,
               victims |-> op.victims]
    <3> HIDE DEF h, t
    <3> QED BY <1>1, <2>1, UpdateOfAStore DEF IInv, OpOK
  <2>3. h \in Hashes
    BY <2>1
  <2> HIDE DEF h, t
  <2>4. op'.pc = "evictIdx" /\ op'.victims = op.victims
    BY <2>2
  <2>5. AgesOK'
    BY <1>1, <2>1, <2>3, RemovingKeepsAges DEF AgesOK
  <2>6. ASSUME Clean'
        PROVE  Tail(op'.victims) = age' /\ bin'[h] = Nothing /\ ~ neg'[h]
    <3>1. RemoveBin(h) /\ Clean
      BY <2>1, <2>6 DEF Clean
    <3>2. op.victims = age /\ age # <<>>
      BY <1>1, <2>1, <3>1 DEF VictimsAreOldest
    <3>3. h = age[1] /\ bin[h] # Nothing /\ Forget(h) = Tail(age)
      BY <1>1, <3>2, ForgetTheOldest DEF h
    <3>4. bin'[h] = Nothing
      BY <1>1, <2>3, <3>1, RemovingKeepsAges
    <3>5. ~ neg[h]
      BY <1>1, <2>3, <3>1, <3>3 DEF IInv, NeverCoResident, Clean
    <3> QED BY <2>1, <2>4, <3>1, <3>2, <3>3, <3>4, <3>5 DEF RemoveBin
  <2>7. Head(op'.victims) = h
    BY <2>4 DEF h
  <2>8. VictimsAreOldest'
    BY <2>1, <2>4, <2>6, <2>7 DEF VictimsAreOldest
  <2> QED BY <1>1, <2>5, <2>8 DEF OrderInv
<1>8. CASE EvictIdx
  <2> DEFINE v == Tail(op.victims)
  <2>1. /\ op.pc = "evictIdx" /\ UNCHANGED <<bin, neg, age>> /\ (Clean' => Clean)
        /\ op.victims # <<>> /\ op.victims \in Seq(Hashes)
        /\ op' = [op EXCEPT !.pc = "evict", !.victims = v]
    BY <1>1, <1>8 DEF EvictIdx, Breaks, VictimsAreOldest, Clean
  <2>2. op' = [pc |-> "evict", key |-> op.key, verdict |-> op.verdict, total |-> op.total,
               victims |-> v]
    <3> HIDE DEF v
    <3> QED BY <1>1, <2>1, UpdateOfAStore DEF IInv, OpOK
  <2>3. v \in Seq(Hashes) /\ (Clean => v = age)
    <3>1. v \in Seq(Hashes)
      BY <2>1, HeadTailProperties
    <3>2. Clean => v = age
      BY <1>1, <2>1 DEF VictimsAreOldest
    <3> QED BY <3>1, <3>2
  <2> HIDE DEF v
  <2>4. op'.pc = "evict" /\ op'.victims = v
    BY <2>2
  <2>5. AgesOK'
    BY <1>1, <2>1 DEF AgesOK
  <2>6. VictimsAreOldest'
    BY <2>1, <2>3, <2>4 DEF VictimsAreOldest
  <2> QED BY <1>1, <2>5, <2>6 DEF OrderInv
<1>9. CASE EvictionEnds
  <2>1. /\ op.pc = "evict" /\ UNCHANGED <<bin, age>>
        /\ op' = [op EXCEPT !.pc = "write", !.total = 0, !.victims = <<>>]
    BY <1>9 DEF EvictionEnds
  <2>2. op'.pc = "write"
    BY <1>1, <2>1, GotoKeepsTheStore DEF IInv, PCs
  <2> QED BY <1>1, <2>1, <2>2, NoVictims DEF AgesOK
<1>10. CASE WriteEntry
  <2>1. op.pc = "write" /\ (Goto("index") \/ op' = Failed) /\ H \in Hashes
    BY <1>2, <1>10 DEF WriteEntry
  <2>2. op'.pc \in {"index", "failed"}
    <3>1. Goto("index") => op'.pc = "index"
      BY <1>1, <2>1, GotoKeepsTheStore DEF IInv, PCs, Goto
    <3> QED BY <2>1, <3>1 DEF Failed
  <2>3. \/ UNCHANGED <<bin, age>>
        \/ \E v \in {op.verdict, Torn} : Storing /\ bin' = [bin EXCEPT ![H] = v] /\ age' = Newest(H)
    BY <1>10 DEF WriteEntry
  <2>4. Torn # Nothing /\ (Storing => op.verdict # Nothing)
    BY <1>1, <2>1, CacheAssumption, HashOfTheStore DEF IInv
  <2>5. AgesOK'
    BY <1>1, <2>1, <2>3, <2>4, WritingKeepsAges DEF AgesOK
  <2> QED BY <1>1, <2>2, <2>5, NoVictims
<1>11. CASE WriteIndex
  <2>1. op.pc = "index" /\ (Goto("done") \/ Goto("rollback")) /\ UNCHANGED <<bin, age>>
    BY <1>11 DEF WriteIndex
  <2>2. op'.pc \in {"done", "rollback"}
    BY <1>1, <2>1, GotoKeepsTheStore DEF IInv, PCs, Goto
  <2> QED BY <1>1, <2>1, <2>2, NoVictims DEF AgesOK
<1>12. CASE Rollback
  <2>1. op.pc = "rollback" /\ op' = Failed /\ (RemoveBin(H) \/ UNCHANGED <<bin, age>>)
    BY <1>12 DEF Rollback
  <2>2. op'.pc = "failed" /\ H \in Hashes
    BY <1>2, <2>1 DEF Failed
  <2>3. AgesOK'
    BY <1>1, <2>1, <2>2, RemovingKeepsAges DEF AgesOK
  <2> QED BY <1>1, <2>2, <2>3, NoVictims
<1>13. CASE Crash
  <2>1. op'.pc = "failed" /\ UNCHANGED <<bin, age>>
    BY <1>13 DEF Crash, Failed
  <2> QED BY <1>1, <2>1, NoVictims DEF AgesOK
<1>14. CASE UNCHANGED vars
  BY <1>1, <1>14 DEF vars, OrderInv, AgesOK, VictimsAreOldest, Clean
<1> QED BY <1>3, <1>4, <1>5, <1>6, <1>7, <1>8, <1>9, <1>10, <1>11, <1>12, <1>13, <1>14
        DEF Next, StoreStep

\* The invariant of the order, at first.
LEMMA InitIsInOrder ==
    ASSUME Init
    PROVE  OrderInv
<1>1. IInv /\ age = <<>> /\ bin = [h \in Hashes |-> Nothing] /\ op.pc = "failed"
  BY InitEstablishesTheInvariant DEF Init, Failed
<1>2. age \in Seq(Hashes) /\ Len(age) = 0
  BY <1>1
<1> QED BY <1>1, <1>2 DEF OrderInv, AgesOK, NoRepeats, Lists, VictimsAreOldest

\* The list of ages holds each payload once, and the eviction under way works off
\* that very list.
THEOREM EvictionKnowsTheAges == Spec => []OrderInv
<1>1. Init => OrderInv
  BY InitIsInOrder
<1>2. OrderInv /\ [Next]_vars => OrderInv'
  BY TheOrderIsKept
<1> QED BY <1>1, <1>2, PTL DEF Spec

\* What EvictsOldestFirst says of a step.
EvictsTheOldest ==
    \A h, g \in Hashes :
         ("remove" \notin broken
              /\ op.pc = "evict" /\ bin[h] # Nothing /\ bin'[h] = Nothing
              /\ g # h /\ bin[g] # Nothing)
           => \E i, j \in 1 .. Len(age) : i < j /\ age[i] = h /\ age[j] = g

\* Every step evicts the oldest, if it evicts.
LEMMA StepsEvictTheOldest ==
    ASSUME OrderInv, Next
    PROVE  EvictsTheOldest
<1> SUFFICES ASSUME NEW h \in Hashes, NEW g \in Hashes, Clean, op.pc = "evict",
                    bin[h] # Nothing, bin'[h] = Nothing, g # h, bin[g] # Nothing
             PROVE  \E i, j \in 1 .. Len(age) : i < j /\ age[i] = h /\ age[j] = g
  BY DEF EvictsTheOldest, Clean
<1>1. EvictBin
  BY DEF Next, StoreStep, Load, EnsureDirectory, ClearOther, ListDirectory, EvictIdx,
         EvictionEnds, WriteEntry, WriteIndex, Rollback, Crash, Idle
<1>2. op.victims = age /\ age # <<>> /\ AgesOK /\ FilesOK
  BY <1>1 DEF OrderInv, IInv, VictimsAreOldest, EvictBin
<1>3. Head(age) = age[1]
  BY <1>2, ForgetTheOldest
<1>4. bin' = [bin EXCEPT ![age[1]] = Nothing]
  BY <1>1, <1>2, <1>3 DEF EvictBin, RemoveBin
<1>5. age[1] = h
  BY <1>2, <1>4 DEF FilesOK
<1>6. PICK j \in 1 .. Len(age) : age[j] = g
  BY <1>2 DEF AgesOK, Lists
<1>7. Len(age) \in Nat /\ 1 \in 1 .. Len(age) /\ 1 < j
  BY <1>2, <1>5, <1>6 DEF AgesOK
<1> QED BY <1>5, <1>6, <1>7

\* evictIfNeededLocked lists and sorts once, and yet every payload that goes is older
\* than all that stay, for any sizes and cap.
THEOREM OldestGoesFirst == Spec => EvictsOldestFirst
<1>1. OrderInv /\ [Next]_vars => [EvictsTheOldest]_vars
  BY StepsEvictTheOldest
<1> QED BY <1>1, EvictionKnowsTheAges, PTL DEF Spec, EvictsOldestFirst, EvictsTheOldest

-----------------------------------------------------------------------------
(***************************************************************************)
(* The cap.  An eviction counts once and then subtracts; as long as        *)
(* nothing fails to be removed or listed, what it counts is what is there. *)
(***************************************************************************)

\* What changes with one of the values.
LEMMA SumChanges ==
    ASSUME NEW S, IsFiniteSet(S), NEW f \in [S -> Nat], NEW x \in S, NEW n \in Nat
    PROVE  /\ SumFunction(f) \in Nat /\ SumFunction([f EXCEPT ![x] = n]) \in Nat
           /\ f[x] <= SumFunction(f)
           /\ SumFunction([f EXCEPT ![x] = n]) = (SumFunction(f) - f[x]) + n
<1> DEFINE f2 == [f EXCEPT ![x] = n]
           R  == S \ {x}
<1>1. /\ f2 \in [S -> Nat] /\ DOMAIN f2 = S /\ DOMAIN f = S
      /\ f2[x] = n /\ \A y \in R : f[y] = f2[y]
  OBVIOUS
<1>2. S \in SUBSET S /\ R \in SUBSET S
  OBVIOUS
<1> HIDE DEF f2, R
<1>3. PICK g : SumFunctionOnSet(f, S) = g[S] /\ SumTable(g, f, S)
  BY SumUnfolds
<1>4. PICK g2 : SumFunctionOnSet(f2, S) = g2[S] /\ SumTable(g2, f2, S)
  BY SumUnfolds
<1>5. g[R] = g2[R]
  BY <1>1, <1>2, <1>3, <1>4, SumOfTheSame
<1>6. g[S] = f[x] + g[R]
  BY <1>2, <1>3, SumInAnyOrder DEF R
<1>7. g2[S] = n + g2[R]
  BY <1>1, <1>2, <1>4, SumInAnyOrder DEF R
<1>8. g[R] \in Nat /\ f[x] \in Nat
  BY <1>2, <1>3, SumIsANumber
<1>9. SumFunction(f) = g[S] /\ SumFunction(f2) = g2[S]
  BY <1>1, <1>3, <1>4 DEF SumFunction
<1> DEFINE a == SumFunction(f)
           b == SumFunction(f2)
<1>10. a = f[x] + g[R] /\ b = n + g[R]
  BY <1>5, <1>6, <1>7, <1>9
<1>11. a \in Nat /\ b \in Nat /\ f[x] <= a /\ b = (a - f[x]) + n
  <2> HIDE DEF a, b
  <2> QED BY <1>8, <1>10
<1> QED BY <1>11 DEF f2

\* There is nothing to add up in an empty function.
LEMMA SumOfNothing == SumFunction([h \in {} |-> 0]) = 0
<1> DEFINE f == [h \in {} |-> 0]
<1>1. DOMAIN f = {} /\ IsFiniteSet({})
  BY FS_EmptySet
<1> HIDE DEF f
<1>2. PICK g : SumFunctionOnSet(f, {}) = g[{}] /\ SumTable(g, f, {})
  BY <1>1, SumUnfolds
<1>3. g[{}] = 0
  BY <1>2 DEF SumTable
<1>4. SumFunction(f) = 0
  BY <1>1, <1>2, <1>3 DEF SumFunction
<1> QED BY <1>4 DEF f
\* Replacing one payload changes the sum by the difference of the two.
LEMMA BytesChange ==
    ASSUME FilesOK, NEW x \in Hashes, NEW v \in Images \cup {Torn, Nothing},
           bin' = [bin EXCEPT ![x] = v]
    PROVE  /\ Bytes \in Nat /\ Bytes' \in Nat /\ SizeOf(bin[x]) <= Bytes
           /\ Bytes' = (Bytes - SizeOf(bin[x])) + SizeOf(v)
<1> DEFINE f == [h \in Hashes |-> SizeOf(bin[h])]
           n == SizeOf(v)
           f2 == [h \in Hashes |-> SizeOf(bin'[h])]
<1>1. \A file \in Images \cup {Torn, Nothing} : SizeOf(file) \in Nat
  BY CacheAssumption DEF SizeOf, Images
<1>2. f \in [Hashes -> Nat] /\ n \in Nat /\ f[x] = SizeOf(bin[x])
  BY <1>1 DEF FilesOK
<1>3. f2 = [f EXCEPT ![x] = n]
  BY DEF FilesOK
<1>4. Bytes = SumFunction(f) /\ Bytes' = SumFunction(f2)
  BY DEF Bytes, SizeOf
<1> HIDE DEF f, n, f2
<1>5. IsFiniteSet(Hashes)
  BY CacheAssumption
<1>6. /\ SumFunction(f) \in Nat /\ SumFunction(f2) \in Nat /\ f[x] <= SumFunction(f)
      /\ SumFunction(f2) = (SumFunction(f) - f[x]) + n
  BY <1>2, <1>3, <1>5, SumChanges
<1> QED BY <1>2, <1>4, <1>6 DEF n

NoPayload == \A h \in Hashes : bin[h] = Nothing
WithinCap == Bytes <= maxBytes \/ \E h \in Hashes : \A g \in Hashes \ {h} : bin[g] = Nothing

\* The count of an eviction is right, and what it made room for fits.
CapInv ==
    broken = {} =>
      /\ WithinCap
      /\ op.pc \in {"evict", "evictIdx"} => op.total = Bytes
      /\ op.pc = "write" /\ Storing => NoPayload \/ Bytes + op.verdict.size <= maxBytes

\* Removing a payload stays within the cap.
LEMMA RemovingStaysWithin ==
    ASSUME FilesOK, WithinCap, NEW h \in Hashes, RemoveBin(h)
    PROVE  WithinCap'
<1>1. bin' = [bin EXCEPT ![h] = Nothing] /\ Nothing \in Images \cup {Torn, Nothing}
  BY DEF RemoveBin
<1>2. SizeOf(Nothing) = 0 /\ SizeOf(bin[h]) \in Nat
  BY CacheAssumption DEF SizeOf, FilesOK, Images
<1>3. CASE Bytes <= maxBytes
  <2> DEFINE a == Bytes
             b == Bytes'
             c == SizeOf(bin[h])
  <2>1. a \in Nat /\ b \in Nat /\ c <= a /\ b = (a - c) + 0 /\ c \in Nat /\ a <= maxBytes
    BY <1>1, <1>2, <1>3, BytesChange
  <2>2. b <= maxBytes
    <3> HIDE DEF a, b, c
    <3> QED BY <2>1, CacheAssumption
  <2> QED BY <2>2 DEF WithinCap
<1>4. CASE \E i \in Hashes : \A g \in Hashes \ {i} : bin[g] = Nothing
  BY <1>1, <1>4 DEF WithinCap, FilesOK
<1> QED BY <1>3, <1>4 DEF WithinCap

\* A step that leaves the payloads alone and ends elsewhere than before a write.
LEMMA NothingCounted ==
    ASSUME CapInv, broken' = {} => broken = {}, UNCHANGED bin,
           op'.pc \notin {"evict", "evictIdx", "write"}
    PROVE  CapInv'
  BY DEF CapInv, WithinCap, Bytes, SizeOf, NoPayload

\* Writing one does if there is room, even if the write is torn.
LEMMA WritingStaysWithin ==
    ASSUME FilesOK, WithinCap, NEW h \in Hashes, NEW v \in Images,
           NoPayload \/ Bytes + v.size <= maxBytes,
           NEW w \in {v, Torn}, bin' = [bin EXCEPT ![h] = w]
    PROVE  WithinCap'
<1>1. CASE NoPayload
  <2>1. \A g \in Hashes \ {h} : bin'[g] = Nothing
    BY <1>1 DEF NoPayload, FilesOK
  <2> QED BY <2>1 DEF WithinCap
<1>2. CASE Bytes + v.size <= maxBytes
  <2> DEFINE a == Bytes
             b == Bytes'
             c == SizeOf(bin[h])
             d == SizeOf(w)
             e == v.size
  <2>1. /\ SizeOf(Torn) = 0 /\ SizeOf(v) = v.size /\ v.size \in Nat
        /\ w \in Images \cup {Torn, Nothing} /\ SizeOf(bin[h]) \in Nat
    BY CacheAssumption DEF SizeOf, Images, FilesOK
  <2>2. d \in {0, e} /\ e \in Nat /\ c \in Nat
    BY <2>1
  <2>3. a \in Nat /\ b \in Nat /\ c <= a /\ b = (a - c) + d /\ a + e <= maxBytes
    BY <1>2, <2>1, BytesChange
  <2>4. b <= maxBytes
    <3> HIDE DEF a, b, c, d, e
    <3> QED BY <2>2, <2>3, CacheAssumption
  <2> QED BY <2>4 DEF WithinCap
<1> QED BY <1>1, <1>2

\* The invariant of the cap, for every step.
LEMMA TheCapIsKept ==
    ASSUME OrderInv, CapInv, [Next]_vars
    PROVE  CapInv'
<1>1. /\ IInv /\ FilesOK /\ OpOK /\ AgesOK /\ VictimsAreOldest /\ StoreKnowsItsFiles
      /\ Shaped(op)
  BY DEF OrderInv, IInv, OpOK
<1>2. op.pc # "failed" => H \in Hashes /\ op.verdict \in Verdicts
  BY <1>1, HashOfTheStore DEF OpOK
<1>3. broken' = {} => broken = {}
  BY DEF Next, StoreStep, Load, EnsureDirectory, ClearOther, ListDirectory, EvictBin, EvictIdx,
         EvictionEnds, WriteEntry, WriteIndex, Rollback, Crash, Breaks, vars
<1>4. UNCHANGED bin => Bytes' = Bytes /\ (WithinCap => WithinCap') /\ (NoPayload => NoPayload')
  BY DEF Bytes, SizeOf, WithinCap, NoPayload
<1>5. ASSUME NEW k \in Keys, Load(k) PROVE CapInv'
  <2>1. UNCHANGED <<bin, op>>
    BY <1>5 DEF Load
  <2> QED BY <1>3, <1>4, <2>1 DEF CapInv, Storing
<1>6. ASSUME NEW k \in Keys, NEW v, EnsureDirectory(k, v) PROVE CapInv'
  <2>1. op'.pc \in {"clear", "failed"} /\ UNCHANGED bin
    BY <1>6 DEF EnsureDirectory, Failed
  <2> QED BY <1>3, <2>1, NothingCounted
<1>7. CASE ClearOther
  <2>1. op.pc = "clear" /\ op' = [op EXCEPT !.pc = IF Storing THEN "list" ELSE "write"]
    BY <1>7 DEF ClearOther, Goto
  <2>2. op'.pc = (IF Storing THEN "list" ELSE "write") /\ op'.verdict = op.verdict
    BY <1>1, <2>1, GotoKeepsTheStore DEF PCs
  <2>3. RemoveBin(H) \/ UNCHANGED bin
    BY <1>7 DEF ClearOther
  <2>4. broken' = {} => WithinCap'
    BY <1>1, <1>2, <1>3, <1>4, <2>1, <2>3, RemovingStaysWithin DEF CapInv
  <2> QED BY <2>2, <2>4 DEF CapInv, Storing
<1>8. CASE ListDirectory
  <2>1. op.pc = "list" /\ UNCHANGED bin
    BY <1>8 DEF ListDirectory
  <2>2. ASSUME broken' = {} PROVE op' = [op EXCEPT !.pc = "evict", !.total = Bytes, !.victims = age]
    BY <1>8, <2>2 DEF ListDirectory, Breaks
  <2> DEFINE t == Bytes
  <2>3. ASSUME broken' = {}
        PROVE  op' = [pc |-> "evict", key |-> op.key, verdict |-> op.verdict, total |-> t,
                      victims |-> age]
    BY <1>1, <2>2, <2>3, UpdateOfAStore
  <2> HIDE DEF t
  <2>4. broken' = {} => op'.pc = "evict" /\ op'.total = t
    BY <2>3
  <2> QED BY <1>3, <1>4, <2>1, <2>4 DEF CapInv, t
<1>9. CASE EvictBin
  <2> DEFINE h == Head(op.victims)
             t == IF SizeOf(bin[h]) > op.total THEN 0 ELSE op.total - SizeOf(bin[h])
  <2>1. /\ op.pc = "evict" /\ op.victims # <<>> /\ op.victims \in Seq(Hashes)
        /\ op' = [op EXCEPT !.pc = "evictIdx", !.total = t]
        /\ RemoveBin(h) \/ broken' # {}
    BY <1>1, <1>9 DEF EvictBin, Breaks, VictimsAreOldest
  <2>2. op' = [pc |-> "evictIdx", key |-> op.key, verdict |-> op.verdict, total |-> t,
               victims |-> op.victims]
    <3> HIDE DEF h, t
    <3> QED BY <1>1, <2>1, UpdateOfAStore
  <2>3. h \in Hashes
    BY <2>1
  <2>4. SizeOf(Nothing) = 0 /\ SizeOf(bin[h]) \in Nat
    BY <1>1, <2>3, CacheAssumption DEF SizeOf, FilesOK, Images
  <2> HIDE DEF h
  <2>5. ASSUME broken' = {} PROVE WithinCap' /\ t = Bytes'
    <3>1. RemoveBin(h) /\ WithinCap /\ op.total = Bytes
      BY <1>3, <2>1, <2>5 DEF CapInv
    <3>2. bin' = [bin EXCEPT ![h] = Nothing] /\ Nothing \in Images \cup {Torn, Nothing}
      BY <3>1 DEF RemoveBin
    <3> DEFINE a == Bytes
               b == Bytes'
               c == SizeOf(bin[h])
    <3>3. a \in Nat /\ b \in Nat /\ c <= a /\ b = (a - c) + 0 /\ c \in Nat
      BY <1>1, <2>3, <2>4, <3>2, BytesChange
    <3>4. t = IF c > a THEN 0 ELSE a - c
      BY <3>1
    <3> HIDE DEF t, a, b, c
    <3>5. t = b
      BY <3>3, <3>4
    <3>6. WithinCap'
      BY <1>1, <2>3, <3>1, RemovingStaysWithin
    <3> QED BY <3>5, <3>6 DEF b
  <2> HIDE DEF t
  <2>6. op'.pc = "evictIdx" /\ op'.total = t
    BY <2>2
  <2> QED BY <2>5, <2>6 DEF CapInv
<1>10. CASE EvictIdx
  <2> DEFINE v == Tail(op.victims)
  <2>1. /\ op.pc = "evictIdx" /\ UNCHANGED bin
        /\ op' = [op EXCEPT !.pc = "evict", !.victims = v]
    BY <1>10 DEF EvictIdx
  <2>2. op' = [pc |-> "evict", key |-> op.key, verdict |-> op.verdict, total |-> op.total,
               victims |-> v]
    <3> HIDE DEF v
    <3> QED BY <1>1, <2>1, UpdateOfAStore
  <2> HIDE DEF v
  <2>3. op'.pc = "evict" /\ op'.total = op.total
    BY <2>2
  <2> QED BY <1>3, <1>4, <2>1, <2>3 DEF CapInv
<1>11. CASE EvictionEnds
  <2>1. /\ op.pc = "evict" /\ UNCHANGED <<bin, broken>>
        /\ op' = [op EXCEPT !.pc = "write", !.total = 0, !.victims = <<>>]
        /\ Fits \/ op.victims = <<>>
    BY <1>11 DEF EvictionEnds
  <2>2. op'.pc = "write" /\ op'.verdict = op.verdict
    BY <1>1, <2>1, GotoKeepsTheStore DEF PCs
  <2>3. ASSUME broken = {}, op.victims = <<>> PROVE NoPayload
    <3>1. age = <<>>
      BY <1>1, <2>1, <2>3 DEF VictimsAreOldest, Clean
    <3>2. \A h \in Hashes : ~ Lists(age, h)
      BY <3>1 DEF Lists
    <3> QED BY <1>1, <3>2 DEF AgesOK, NoPayload
  <2>4. ASSUME broken = {} PROVE NoPayload \/ Bytes + op.verdict.size <= maxBytes
    BY <2>1, <2>3, <2>4 DEF CapInv, Fits
  <2> QED BY <1>4, <2>1, <2>2, <2>4 DEF CapInv
<1>12. CASE WriteEntry
  <2>1. op.pc = "write" /\ (Goto("index") \/ op' = Failed) /\ H \in Hashes
    BY <1>2, <1>12 DEF WriteEntry
  <2>2. op'.pc \in {"index", "failed"}
    <3>1. Goto("index") => op'.pc = "index"
      BY <1>1, <2>1, GotoKeepsTheStore DEF PCs, Goto
    <3> QED BY <2>1, <3>1 DEF Failed
  <2>3. \/ UNCHANGED bin
        \/ Storing /\ \E w \in {op.verdict, Torn} : bin' = [bin EXCEPT ![H] = w]
    BY <1>12 DEF WriteEntry
  <2>4. Storing => op.verdict \in Images
    BY <1>2, <2>1 DEF Verdicts, Storing
  <2>5. ASSUME broken' = {} PROVE WithinCap'
    BY <1>1, <1>3, <1>4, <2>1, <2>3, <2>4, <2>5, WritingStaysWithin DEF CapInv
  <2> QED BY <2>2, <2>5 DEF CapInv
<1>13. CASE WriteIndex
  <2>1. op.pc = "index" /\ (Goto("done") \/ Goto("rollback")) /\ UNCHANGED bin
    BY <1>13 DEF WriteIndex
  <2>2. op'.pc \in {"done", "rollback"}
    BY <1>1, <2>1, GotoKeepsTheStore DEF PCs, Goto
  <2> QED BY <1>3, <2>1, <2>2, NothingCounted
<1>14. CASE Rollback
  <2>1. op.pc = "rollback" /\ op'.pc = "failed" /\ (RemoveBin(H) \/ UNCHANGED bin)
    BY <1>14 DEF Rollback, Failed
  <2>2. broken' = {} => WithinCap'
    BY <1>1, <1>2, <1>3, <1>4, <2>1, RemovingStaysWithin DEF CapInv
  <2> QED BY <2>1, <2>2 DEF CapInv
<1>15. CASE Crash
  <2>1. op'.pc = "failed" /\ UNCHANGED bin
    BY <1>15 DEF Crash, Failed
  <2> QED BY <1>3, <2>1, NothingCounted
<1>16. CASE UNCHANGED vars
  BY <1>4, <1>16 DEF vars, CapInv, Storing
<1> QED BY <1>5, <1>6, <1>7, <1>8, <1>9, <1>10, <1>11, <1>12, <1>13, <1>14, <1>15, <1>16
        DEF Next, StoreStep

\* The invariant of the cap, at first.
LEMMA InitIsWithin ==
    ASSUME Init
    PROVE  CapInv
<1>1. op.pc = "failed" /\ bin = [h \in Hashes |-> Nothing]
  BY DEF Init, Failed
<1>2. CASE Hashes # {}
  BY <1>1, <1>2 DEF CapInv, WithinCap
<1>3. CASE Hashes = {}
  <2>1. [h \in Hashes |-> SizeOf(bin[h])] = [h \in {} |-> 0]
    BY <1>3
  <2>2. Bytes = 0
    BY <2>1, SumOfNothing DEF Bytes
  <2>3. 0 <= maxBytes
    BY CacheAssumption
  <2> QED BY <1>1, <2>2, <2>3 DEF CapInv, WithinCap
<1> QED BY <1>2, <1>3

\* For any sizes and cap: while listing and removing succeed, wherever the process dies and
\* whichever write fails, the payloads exceed the cap only if a single one does by itself.
THEOREM TheCapHolds == Spec => []CapHonoured
<1>1. Init => CapInv
  BY InitIsWithin
<1>2. OrderInv /\ CapInv /\ [Next]_vars => CapInv'
  BY TheCapIsKept
<1>3. CapInv => CapHonoured
  BY DEF CapInv, WithinCap, CapHonoured
<1> QED BY <1>1, <1>2, <1>3, EvictionKnowsTheAges, PTL DEF Spec

-----------------------------------------------------------------------------
(***************************************************************************)
(* The refinement.  Where no two keys have one hash, every step of the     *)
(* cache is a step of PreviewByteCachePort, or none at all, as long as     *)
(* removals succeed: a store touches the answer of its own key only, and   *)
(* an eviction forgets images only.                                        *)
(***************************************************************************)
HashesDiffer == \A j, k \in Keys : HashOf[j] = HashOf[k] => j = k

Untouched(h) == bin'[h] = bin[h] /\ neg'[h] = neg[h] /\ idx'[h] = idx[h]

\* What a load answers is an entry of the port.
LEMMA AnswersAreEntries ==
    ASSUME FilesOK, NEW k \in Keys
    PROVE  Answer(k) \in Entries
BY CacheAssumption DEF FilesOK, Answer, Entries

\* A key whose files are untouched is answered as before.
LEMMA UntouchedAnswers ==
    ASSUME NEW k \in Keys, Untouched(HashOf[k])
    PROVE  Answer(k)' = Answer(k)
BY DEF Answer, Untouched

\* What answers a step may leave while a store of v under k is pending.
LEMMA EffectsArePortSteps ==
    ASSUME FilesOK, FilesOK', ~ Idle, op.key \in Keys,
           PortPending' \in {PortPending, [key |-> Nothing, verdict |-> Nothing]},
           \A k \in Keys : k = op.key =>
               \/ Answer(k)' \in {Answer(k), op.verdict, Nothing}
               \/ Answer(k)' = Torn /\ Storing,
           \A k \in Keys \ {op.key} :
               \/ Answer(k)' = Answer(k)
               \/ Answer(k)' = Nothing /\ Storing /\ Answer(k) # Negative
    PROVE  Port!Next
<1>1. PortPending = [key |-> op.key, verdict |-> op.verdict]
  BY DEF PortPending
<1>2. PortPending # Port!Idle
  BY <1>1, CacheAssumption DEF Port!Idle
<1>3. PortEntry' \in [Keys -> Entries]
  <2>1. \A k \in Keys : Answer(k)' \in Entries
    BY CacheAssumption DEF FilesOK, Answer, Entries
  <2> QED BY <2>1 DEF PortEntry
<1>4. PortEntry' \in Port!AfterStore(PortEntry, op.key, op.verdict)
  BY <1>3 DEF Port!AfterStore, Port!Entries, Entries, PortEntry, Storing
<1> QED BY <1>1, <1>2, <1>4 DEF Port!Next, Port!Effect, Port!Idle

\* A step that may touch the files of its store's hash only.
LEMMA OwnHashIsAPortStep ==
    ASSUME IInv, FilesOK', HashesDiffer, ~ Idle,
           PortPending' \in {PortPending, [key |-> Nothing, verdict |-> Nothing]},
           \A h \in Hashes \ {H} : Untouched(h),
           \A k \in Keys : k = op.key =>
               \/ Answer(k)' \in {Answer(k), op.verdict, Nothing}
               \/ Answer(k)' = Torn /\ Storing
    PROVE  Port!Next
<1>1. op.key \in Keys /\ FilesOK
  BY DEF IInv, OpOK, Idle, PCs
<1>2. \A k \in Keys \ {op.key} : HashOf[k] \in Hashes \ {H}
  BY <1>1, CacheAssumption DEF HashesDiffer, H
<1>3. \A k \in Keys \ {op.key} : Answer(k)' = Answer(k)
  BY <1>2, UntouchedAnswers
<1> QED BY <1>1, <1>3, EffectsArePortSteps

\* A store that goes on pends as before, or no longer.
LEMMA PendingIs ==
    ASSUME op'.key = op.key, op'.verdict = op.verdict,
           op.pc \notin {"done", "failed"}, op'.pc # "failed"
    PROVE  PortPending' \in {PortPending, [key |-> Nothing, verdict |-> Nothing]}
BY DEF PortPending, Idle

\* Nothing is answered otherwise while no file changes.
LEMMA SameFilesSameAnswers ==
    ASSUME UNCHANGED <<bin, neg, idx>>
    PROVE  PortEntry' = PortEntry /\ \A k \in Keys : Answer(k)' = Answer(k)
BY DEF PortEntry, Answer

\* The steps that change no file: the port sees none of them, or the end of a store.
LEMMA QuietStepsArePortSteps ==
    ASSUME OrderInv, UNCHANGED <<bin, neg, idx>>,
           \/ UNCHANGED op
           \/ op' = Failed
           \/ op.pc \in {"list", "evict"} /\ op'.pc \in {"evict", "write"}
                /\ op'.key = op.key /\ op'.verdict = op.verdict
    PROVE  Port!Next \/ UNCHANGED <<PortEntry, PortPending>>
<1>1. PortEntry' = PortEntry
  BY SameFilesSameAnswers
<1>2. CASE UNCHANGED op \/ (op.pc \in {"list", "evict"} /\ op'.pc \in {"evict", "write"}
                              /\ op'.key = op.key /\ op'.verdict = op.verdict)
  BY <1>1, <1>2 DEF PortPending, Idle
<1>3. CASE op' = Failed
  <2>1. PortPending' = [key |-> Nothing, verdict |-> Nothing]
    BY <1>3 DEF PortPending, Idle, Failed
  <2> QED BY <1>1, <2>1 DEF Port!Next, Port!End, Port!Idle
<1> QED BY <1>2, <1>3

\* The start of a store is a step of the port, or not seen by it.
LEMMA BeginIsAPortStep ==
    ASSUME NEW k \in Keys, NEW v \in Verdicts, EnsureDirectory(k, v)
    PROVE  Port!Next \/ UNCHANGED <<PortEntry, PortPending>>
<1>1. PortEntry' = PortEntry /\ PortPending = [key |-> Nothing, verdict |-> Nothing]
  BY SameFilesSameAnswers DEF EnsureDirectory, PortPending
<1>2. CASE op' = [pc |-> "clear", key |-> k, verdict |-> v, total |-> 0, victims |-> <<>>]
  <2>1. PortPending' = [key |-> k, verdict |-> v]
    BY <1>2 DEF PortPending, Idle
  <2> QED BY <1>1, <2>1 DEF Port!Next, Port!Begin, Port!Idle, Port!Verdicts, Verdicts
<1>3. CASE op' = Failed
  BY <1>1, <1>3 DEF PortPending, Idle, Failed
<1> QED BY <1>2, <1>3 DEF EnsureDirectory

\* Removing the opposite verdict is an effect of the store.
LEMMA ClearOtherIsAPortStep ==
    ASSUME OrderInv, HashesDiffer, ClearOther, Clean'
    PROVE  Port!Next
<1>1. IInv /\ FilesOK' /\ FilesOK /\ op.pc = "clear" /\ H \in Hashes
  BY ClearOtherKeepsTheInvariant, HashOfTheStore DEF OrderInv, IInv, ClearOther
<1>2. ~ Idle /\ Clean
  BY <1>1 DEF Idle, Clean, ClearOther, Breaks
<1> DEFINE p == IF Storing THEN "list" ELSE "write"
<1>3. p \in PCs /\ p # "failed" /\ op' = [op EXCEPT !.pc = p]
  BY DEF PCs, ClearOther, Goto
<1> HIDE DEF p
<1>4. op'.pc = p /\ op'.key = op.key /\ op'.verdict = op.verdict
  BY <1>1, <1>3, GotoKeepsTheStore DEF IInv
<1>5. PortPending' \in {PortPending, [key |-> Nothing, verdict |-> Nothing]}
  BY <1>1, <1>3, <1>4, PendingIs
<1>6. CASE neg' = [neg EXCEPT ![H] = FALSE] /\ UNCHANGED <<bin, idx>>
  <2>1. \A h \in Hashes \ {H} : Untouched(h)
    BY <1>1, <1>6 DEF Untouched, FilesOK
  <2>2. \A k \in Keys : k = op.key => Answer(k)' \in {Answer(k), op.verdict, Nothing}
    BY <1>1, <1>6 DEF Answer, H, FilesOK
  <2> QED BY <1>1, <1>2, <1>5, <2>1, <2>2, OwnHashIsAPortStep
<1>7. CASE RemoveBin(H) /\ UNCHANGED <<neg, idx>>
  <2>1. \A h \in Hashes \ {H} : Untouched(h)
    BY <1>1, <1>7 DEF Untouched, FilesOK, RemoveBin
  <2>2. bin'[H] = Nothing /\ ~ (bin[H] # Nothing /\ neg[H])
    BY <1>1, <1>2, <1>7 DEF FilesOK, RemoveBin, IInv, NeverCoResident, Clean
  <2>3. \A k \in Keys : k = op.key => Answer(k)' \in {Answer(k), op.verdict, Nothing}
    BY <1>1, <1>7, <2>2 DEF Answer, H
  <2> QED BY <1>1, <1>2, <1>5, <2>1, <2>3, OwnHashIsAPortStep
<1> QED BY <1>2, <1>6, <1>7 DEF ClearOther, Breaks, Clean

\* An image is forgotten, of whichever key; its marker is not there.
LEMMA EvictBinIsAPortStep ==
    ASSUME OrderInv, HashesDiffer, EvictBin, Clean'
    PROVE  Port!Next
<1> DEFINE h == Head(op.victims)
           t == IF SizeOf(bin[h]) > op.total THEN 0 ELSE op.total - SizeOf(bin[h])
<1>1. /\ IInv /\ FilesOK /\ FilesOK' /\ AgesOK /\ op.pc = "evict" /\ op.victims # <<>>
      /\ RemoveBin(h) /\ UNCHANGED <<neg, idx>> /\ Clean
      /\ op' = [op EXCEPT !.pc = "evictIdx", !.total = t]
  BY EvictBinKeepsTheInvariant DEF OrderInv, IInv, EvictBin, Breaks, Clean
<1>2. ~ Idle /\ op.key \in Keys /\ Storing
  BY <1>1, HashOfTheStore DEF Idle, IInv, StoreKnowsItsFiles
<1>3. h \in Hashes /\ bin[h] # Nothing /\ ~ neg[h]
  <2>1. op.victims = age
    BY <1>1 DEF OrderInv, VictimsAreOldest
  <2>2. h \in Hashes /\ bin[h] # Nothing
    BY <1>1, <2>1, ForgetTheOldest
  <2> HIDE DEF h
  <2> QED BY <1>1, <2>2 DEF IInv, NeverCoResident, Clean
<1> HIDE DEF h, t
<1>4. op'.pc = "evictIdx" /\ op'.key = op.key /\ op'.verdict = op.verdict
  BY <1>1, GotoKeepsTheStore DEF IInv, PCs
<1>5. PortPending' \in {PortPending, [key |-> Nothing, verdict |-> Nothing]}
  BY <1>1, <1>4, PendingIs
<1>6. bin' = [bin EXCEPT ![h] = Nothing]
  BY <1>1 DEF RemoveBin
<1>7. \A k \in Keys : Answer(k)' = Answer(k) \/ (Answer(k)' = Nothing /\ Answer(k) # Negative)
  <2> TAKE k \in Keys
  <2>1. CASE HashOf[k] = h
    BY <1>1, <1>3, <1>6, <2>1, CacheAssumption DEF Answer, FilesOK
  <2>2. CASE HashOf[k] # h
    BY <1>1, <1>6, <2>2, CacheAssumption DEF Answer, FilesOK
  <2> QED BY <2>1, <2>2
<1> QED BY <1>1, <1>2, <1>5, <1>7, EffectsArePortSteps

\* The sidecar of an entry that is gone answers nothing.
LEMMA EvictIdxIsNoPortStep ==
    ASSUME OrderInv, EvictIdx, Clean'
    PROVE  UNCHANGED <<PortEntry, PortPending>>
<1> DEFINE h == Head(op.victims)  v == Tail(op.victims)
<1>1. /\ IInv /\ FilesOK /\ op.pc = "evictIdx" /\ UNCHANGED <<bin, neg>>
      /\ idx' = [idx EXCEPT ![h] = Nothing] /\ Clean
      /\ op' = [op EXCEPT !.pc = "evict", !.victims = v]
  BY DEF OrderInv, IInv, EvictIdx, Breaks, Clean
<1>2. bin[h] = Nothing /\ ~ neg[h]
  BY <1>1 DEF OrderInv, VictimsAreOldest
<1> HIDE DEF h, v
<1>3. op'.pc = "evict" /\ op'.key = op.key /\ op'.verdict = op.verdict
  BY <1>1, GotoKeepsTheStore DEF IInv, PCs
<1>4. PortPending' = PortPending
  BY <1>1, <1>3 DEF PortPending, Idle
<1>5. \A k \in Keys : Answer(k)' = Answer(k)
  <2> TAKE k \in Keys
  <2>1. CASE HashOf[k] = h
    BY <1>1, <1>2, <2>1, CacheAssumption DEF Answer, FilesOK
  <2>2. CASE HashOf[k] # h
    BY <1>1, <2>2, CacheAssumption DEF Answer, FilesOK
  <2> QED BY <2>1, <2>2
<1> QED BY <1>4, <1>5 DEF PortEntry

\* Writing the entry is one, or not seen yet.
LEMMA WriteEntryIsAPortStep ==
    ASSUME OrderInv, HashesDiffer, WriteEntry, Clean'
    PROVE  Port!Next \/ UNCHANGED <<PortEntry, PortPending>>
<1>1. /\ IInv /\ FilesOK /\ FilesOK' /\ op.pc = "write" /\ H \in Hashes /\ op.key \in Keys
      /\ UNCHANGED idx /\ ~ Idle /\ Clean
      /\ Storing => op.verdict # Nothing
  BY WriteEntryKeepsTheInvariant, HashOfTheStore DEF OrderInv, IInv, WriteEntry, Idle, Clean
<1>2. IF Storing THEN ~ neg[H] ELSE bin[H] = Nothing
  BY <1>1 DEF IInv, StoreKnowsItsFiles
<1>3. CASE Goto("index")
  <2>1. op'.pc = "index" /\ op'.key = op.key /\ op'.verdict = op.verdict
    BY <1>1, <1>3, GotoKeepsTheStore DEF IInv, PCs, Goto
  <2>2. PortPending' \in {PortPending, [key |-> Nothing, verdict |-> Nothing]}
    BY <1>1, <2>1, PendingIs
  <2>3. \/ Storing /\ bin' = [bin EXCEPT ![H] = op.verdict] /\ neg' = neg
        \/ ~ Storing /\ neg' = [neg EXCEPT ![H] = TRUE] /\ bin' = bin
    BY <2>1 DEF WriteEntry, Failed
  <2>4. \A h \in Hashes \ {H} : Untouched(h)
    BY <1>1, <2>3 DEF Untouched, FilesOK
  <2>5. \A k \in Keys : k = op.key => Answer(k)' \in {Answer(k), op.verdict, Nothing}
    <3> SUFFICES Answer(op.key) = Answer(op.key) /\
                 \A k \in Keys : k = op.key => Answer(k)' \in {op.verdict, Nothing}
      OBVIOUS
    <3>1. CASE Storing /\ bin' = [bin EXCEPT ![H] = op.verdict] /\ neg' = neg
      <4>1. bin'[H] = op.verdict /\ op.verdict # Nothing
        BY <1>1, <3>1 DEF FilesOK
      <4> QED BY <4>1 DEF Answer, H
    <3>2. CASE ~ Storing /\ neg' = [neg EXCEPT ![H] = TRUE] /\ bin' = bin
      <4>1. neg'[H] /\ bin'[H] = Nothing /\ op.verdict = Negative
        BY <1>1, <1>2, <3>2 DEF FilesOK, Storing
      <4> QED BY <4>1 DEF Answer, H
    <3> QED BY <2>3, <3>1, <3>2
  <2> QED BY <1>1, <2>2, <2>4, <2>5, OwnHashIsAPortStep
<1>4. CASE op' = Failed
  <2>1. PortPending' = [key |-> Nothing, verdict |-> Nothing]
    BY <1>4 DEF PortPending, Idle, Failed
  <2>2. CASE Storing /\ bin' = [bin EXCEPT ![H] = Torn] /\ neg' = neg
    <3>1. \A h \in Hashes \ {H} : Untouched(h)
      BY <1>1, <2>2 DEF Untouched, FilesOK
    <3>2. bin'[H] = Torn /\ Torn # Nothing
      BY <1>1, <2>2, CacheAssumption DEF FilesOK
    <3>3. \A k \in Keys : k = op.key => Answer(k)' \in {Torn, Nothing}
      BY <3>2 DEF Answer, H
    <3> QED BY <1>1, <2>1, <2>2, <3>1, <3>3, OwnHashIsAPortStep
  <2>3. CASE UNCHANGED <<bin, neg>>
    BY <1>1, <1>4, <2>3, QuietStepsArePortSteps
  <2>4. UNCHANGED <<bin, neg>> \/ (Storing /\ bin' = [bin EXCEPT ![H] = Torn] /\ neg' = neg)
    <3>1. ~ Goto("index")
      BY <1>1, <1>4, GotoKeepsTheStore DEF IInv, PCs, Goto, Failed
    <3> QED BY <3>1 DEF WriteEntry
  <2> QED BY <2>2, <2>3, <2>4
<1> QED BY <1>3, <1>4 DEF WriteEntry

\* Writing the index is one.
LEMMA WriteIndexIsAPortStep ==
    ASSUME OrderInv, HashesDiffer, WriteIndex, Clean'
    PROVE  Port!Next
<1>1. /\ IInv /\ FilesOK /\ FilesOK' /\ op.pc = "index" /\ H \in Hashes /\ op.key \in Keys
      /\ UNCHANGED <<bin, neg>> /\ ~ Idle /\ Clean
  BY WriteIndexKeepsTheInvariant, HashOfTheStore DEF OrderInv, IInv, WriteIndex, Idle, Clean
<1>2. PICK p \in {"done", "rollback"} :
        /\ op' = [op EXCEPT !.pc = p]
        /\ idx' \in {idx, [idx EXCEPT ![H] = op.key], [idx EXCEPT ![H] = Torn]}
  BY DEF WriteIndex, Goto
<1>3. op'.pc = p /\ op'.key = op.key /\ op'.verdict = op.verdict
  BY <1>1, <1>2, GotoKeepsTheStore DEF IInv, PCs
<1>4. PortPending' \in {PortPending, [key |-> Nothing, verdict |-> Nothing]}
  BY <1>1, <1>2, <1>3, PendingIs
<1>5. \A h \in Hashes \ {H} : Untouched(h)
  BY <1>1, <1>2 DEF Untouched, FilesOK
<1>6. IF Storing THEN bin[H] = op.verdict /\ op.verdict # Nothing
      ELSE neg[H] /\ bin[H] = Nothing /\ op.verdict = Negative
  BY <1>1, HashOfTheStore DEF IInv, StoreKnowsItsFiles, NeverCoResident, Clean, Storing
<1>7. \A k \in Keys : k = op.key => Answer(k)' \in {op.verdict, Nothing}
  BY <1>1, <1>6 DEF Answer, H
<1> QED BY <1>1, <1>4, <1>5, <1>7, OwnHashIsAPortStep

\* Removing what was written, after a failure, is one.
LEMMA RollbackIsAPortStep ==
    ASSUME OrderInv, HashesDiffer, Rollback, Clean'
    PROVE  Port!Next
<1>1. /\ IInv /\ FilesOK /\ FilesOK' /\ op.pc = "rollback" /\ H \in Hashes /\ op.key \in Keys
      /\ UNCHANGED idx /\ ~ Idle /\ Clean /\ op' = Failed
  BY RollbackKeepsTheInvariant, HashOfTheStore
     DEF OrderInv, IInv, Rollback, Idle, Clean, Breaks
<1>2. PortPending' = [key |-> Nothing, verdict |-> Nothing]
  BY <1>1 DEF PortPending, Idle, Failed
<1>3. \/ Storing /\ bin' = [bin EXCEPT ![H] = Nothing] /\ neg' = neg
      \/ ~ Storing /\ neg' = [neg EXCEPT ![H] = FALSE] /\ bin' = bin
  BY DEF Rollback, RemoveBin, Breaks, Clean
<1>4. \A h \in Hashes \ {H} : Untouched(h)
  BY <1>1, <1>3 DEF Untouched, FilesOK
<1>5. ~ (bin[H] # Nothing /\ neg[H]) /\ (IF Storing THEN bin[H] # Nothing ELSE neg[H])
  BY <1>1, HashOfTheStore DEF IInv, StoreKnowsItsFiles, NeverCoResident, Clean
<1>6. bin'[H] = Nothing /\ ~ neg'[H]
  BY <1>1, <1>3, <1>5 DEF FilesOK
<1>7. \A k \in Keys : k = op.key => Answer(k)' = Nothing
  BY <1>6 DEF Answer, H
<1> QED BY <1>1, <1>2, <1>4, <1>7, OwnHashIsAPortStep

\* Every step is one of the port, unless a removal failed.
LEMMA NextIsAPortStep ==
    ASSUME OrderInv, HashesDiffer, Next
    PROVE  Port!Next \/ "remove" \in broken' \/ UNCHANGED <<PortEntry, PortPending>>
<1> SUFFICES ASSUME Clean'
             PROVE  Port!Next \/ UNCHANGED <<PortEntry, PortPending>>
  BY DEF Clean
<1>1. CASE (\E k \in Keys : Load(k)) \/ Crash
  BY <1>1, QuietStepsArePortSteps DEF Load, Crash
<1>2. ASSUME NEW k \in Keys, NEW v \in {i \in Images : i.of = k} \cup {Negative},
             EnsureDirectory(k, v)
      PROVE  Port!Next \/ UNCHANGED <<PortEntry, PortPending>>
  BY <1>2, BeginIsAPortStep DEF Verdicts
<1>3. CASE ListDirectory \/ EvictionEnds
  <2>1. op.pc \in {"list", "evict"} /\ UNCHANGED <<bin, neg, idx>> /\ OpOK
    BY <1>3 DEF ListDirectory, EvictionEnds, OrderInv, IInv
  <2> DEFINE t == Bytes
  <2>2. \/ op' = [op EXCEPT !.pc = "write"]
        \/ op' = [op EXCEPT !.pc = "evict", !.total = t, !.victims = age]
        \/ op' = [op EXCEPT !.pc = "write", !.total = 0, !.victims = <<>>]
    BY <1>3 DEF ListDirectory, EvictionEnds, Goto
  <2> HIDE DEF t
  <2>3. op'.pc \in {"evict", "write"} /\ op'.key = op.key /\ op'.verdict = op.verdict
    <3>1. "write" \in PCs /\ "evict" \in PCs /\ op.pc # "failed"
      BY <2>1 DEF PCs
    <3>2. CASE op' = [op EXCEPT !.pc = "write"]
      BY <2>1, <3>1, <3>2, GotoKeepsTheStore
    <3>3. CASE op' = [op EXCEPT !.pc = "evict", !.total = t, !.victims = age]
      BY <2>1, <3>1, <3>3, GotoKeepsTheStore
    <3>4. CASE op' = [op EXCEPT !.pc = "write", !.total = 0, !.victims = <<>>]
      BY <2>1, <3>1, <3>4, GotoKeepsTheStore
    <3> QED BY <2>2, <3>2, <3>3, <3>4
  <2> QED BY <2>1, <2>3, QuietStepsArePortSteps
<1>4. CASE ClearOther \/ EvictBin \/ WriteIndex \/ Rollback
  BY <1>4, ClearOtherIsAPortStep, EvictBinIsAPortStep, WriteIndexIsAPortStep,
     RollbackIsAPortStep
<1>5. CASE EvictIdx
  BY <1>5, EvictIdxIsNoPortStep
<1>6. CASE WriteEntry
  BY <1>6, WriteEntryIsAPortStep
<1> QED BY <1>1, <1>2, <1>3, <1>4, <1>5, <1>6 DEF Next, StoreStep

\* LocalPreviewByteCache keeps what IPreviewByteCache promises CardPreviewService, for any
\* sizes, cap and failing writes and wherever the process dies, if hashKey tells the keys
\* apart and removals succeed.
THEOREM CacheImplementsThePort == ASSUME HashesDiffer PROVE Spec => ImplementsPort
<1>1. Init => Port!Init
  <2> SUFFICES ASSUME Init PROVE Port!Init
    OBVIOUS
  <2>1. PortEntry = [k \in Keys |-> Nothing]
    BY CacheAssumption DEF Init, PortEntry, Answer
  <2>2. PortPending = [key |-> Nothing, verdict |-> Nothing]
    BY DEF Init, PortPending, Idle, Failed
  <2> QED BY <2>1, <2>2 DEF Port!Init, Port!Idle
<1>2. OrderInv /\ [Next]_vars => [Port!Next \/ "remove" \in broken']_<<PortEntry, PortPending>>
  <2> SUFFICES ASSUME OrderInv, UNCHANGED vars PROVE UNCHANGED <<PortEntry, PortPending>>
    BY NextIsAPortStep
  <2> QED BY DEF vars, PortEntry, PortPending, Answer, Idle
<1> QED BY <1>1, <1>2, EvictionKnowsTheAges, PTL DEF Spec, ImplementsPort
=============================================================================
