----------------------- MODULE LocalPreviewByteCache -----------------------
(***************************************************************************)
(* LocalPreviewByteCache: the persistent preview tier, on files.  A key is *)
(* hashed to a file name; <hash>.bin holds an image, <hash>.neg marks "no  *)
(* image", and the sidecar <hash>.idx holds the key itself, so that a hash *)
(* collision is a miss.  mutex_ serialises the operations, so nothing runs *)
(* between the file operations of a store, but each of them may fail and   *)
(* the process may die after any of them.                                  *)
(*                                                                         *)
(* An image is the key it was stored under and its size.  A file that was  *)
(* truncated by a write which then failed is Torn and weighs nothing.      *)
(* Modification times are an order: no two files are equally old.          *)
(***************************************************************************)
EXTENDS Naturals, SequencesExt

CONSTANTS
    Keys, Sizes,
    Torn, Negative, Nothing,
    Hashes, HashOf,  \* hashKey: HashOf \in [Keys -> Hashes]
    maxBytes,
    Faults           \* file operations that may fail: a subset of FileOps

FileOps == {"ensureDirectory", "listDirectory", "remove", "writeText"}
Images  == [of : Keys, size : Sizes]

ASSUME CacheAssumption ==
    /\ IsFiniteSet(Hashes) /\ HashOf \in [Keys -> Hashes]
    /\ Sizes \subseteq Nat \ {0}
    /\ maxBytes \in Nat
    /\ Faults \subseteq FileOps
    /\ Images \cap {Torn, Negative, Nothing} = {}
    /\ Keys \cap {Torn, Nothing} = {}
    /\ Torn # Negative /\ Torn # Nothing /\ Negative # Nothing

VARIABLES
    bin,    \* <hash>.bin: an image, Torn, or Nothing if there is no file
    neg,    \* whether <hash>.neg exists
    idx,    \* <hash>.idx: a key, Torn or Nothing
    age,    \* hashes of the .bin files, least recently modified first
    op,     \* the store in progress, or the last one
    broken  \* history: the kinds of cleaning up that have failed

vars == <<bin, neg, idx, age, op, broken>>

Verdicts == Images \cup {Negative}
Entries  == Images \cup {Torn, Negative, Nothing}
PCs == {"clear", "list", "evict", "evictIdx", "write", "index", "rollback",
        "done", "failed"}

TypeOK ==
    /\ bin \in [Hashes -> Images \cup {Torn, Nothing}]
    /\ neg \in [Hashes -> BOOLEAN]
    /\ idx \in [Hashes -> Keys \cup {Torn, Nothing}]
    /\ age \in Seq(Hashes)
    /\ op \in [pc : PCs, key : Keys \cup {Nothing}, verdict : Verdicts \cup {Nothing},
               total : Nat, victims : Seq(Hashes)]
    /\ op.pc \notin {"done", "failed"} => op.key \in Keys /\ op.verdict \in Verdicts
    /\ broken \subseteq {"remove", "listDirectory"}

Failed == [pc |-> "failed", key |-> Nothing, verdict |-> Nothing,
           total |-> 0, victims |-> <<>>]

Init ==
    /\ bin = [h \in Hashes |-> Nothing]
    /\ neg = [h \in Hashes |-> FALSE]
    /\ idx = [h \in Hashes |-> Nothing]
    /\ age = <<>>
    /\ op = Failed
    /\ broken = {}

-----------------------------------------------------------------------------
\* Files

SizeOf(file) == IF file \in {Torn, Nothing} THEN 0 ELSE file.size

\* currentSizeBytes
Bytes == SumFunction([h \in Hashes |-> SizeOf(bin[h])])

\* No hash is listed twice.
Forget(h) ==
    IF \E i \in 1 .. Len(age) : age[i] = h
    THEN RemoveAt(age, CHOOSE i \in 1 .. Len(age) : age[i] = h)
    ELSE age
Newest(h) == Append(Forget(h), h)

FailsAt(file_op) == file_op \in Faults
Breaks(file_op)  == FailsAt(file_op) /\ broken' = broken \cup {file_op}

-----------------------------------------------------------------------------
\* load, also the answer of the entry: the sidecar must hold the very key, and
\* a payload is preferred to a marker.
Answer(k) ==
    LET h == HashOf[k] IN
    IF idx[h] # k THEN Nothing
    ELSE IF bin[h] # Nothing THEN bin[h]
    ELSE IF neg[h] THEN Negative ELSE Nothing

Idle == op.pc \in {"done", "failed"}

\* A hit touches the payload, which may fail.  The rest of load changes nothing.
Load(k) ==
    /\ Idle
    /\ Answer(k) \in Images \cup {Torn}
    /\ age' = Newest(HashOf[k])
    /\ UNCHANGED <<bin, neg, idx, op, broken>>

-----------------------------------------------------------------------------
\* store(k, v), and storeNegative(k) as the store of Negative

H == HashOf[op.key]
Storing == op.verdict # Negative
Goto(pc) == op' = [op EXCEPT !.pc = pc]

EnsureDirectory(k, v) ==
    /\ Idle
    /\ \/ op' = [pc |-> "clear", key |-> k, verdict |-> v, total |-> 0, victims |-> <<>>]
       \/ /\ FailsAt("ensureDirectory")
          /\ op' = Failed
    /\ UNCHANGED <<bin, neg, idx, age, broken>>

RemoveBin(h) == bin' = [bin EXCEPT ![h] = Nothing] /\ age' = Forget(h)

\* Mutant: store leaves the marker where it is.
ClearOnlyPayloads ==
    /\ op.pc = "clear"
    /\ Goto(IF Storing THEN "list" ELSE "write")
    /\ IF Storing THEN UNCHANGED <<bin, age>> ELSE RemoveBin(H)
    /\ UNCHANGED <<neg, idx, broken>>

\* The opposite kind of entry goes first; store then makes room.
ClearOther ==
    /\ op.pc = "clear"
    /\ Goto(IF Storing THEN "list" ELSE "write")
    /\ \/ /\ Storing
          /\ neg' = [neg EXCEPT ![H] = FALSE]
          /\ UNCHANGED <<bin, age, broken>>
       \/ /\ ~ Storing
          /\ RemoveBin(H)
          /\ UNCHANGED <<neg, broken>>
       \/ /\ Breaks("remove")
          /\ IF Storing THEN neg[H] ELSE bin[H] # Nothing
          /\ UNCHANGED <<bin, neg, age>>
    /\ UNCHANGED idx

\* Mutant: the comparison of the sort is the wrong way round.
ListNewestFirst ==
    /\ op.pc = "list"
    /\ op' = [op EXCEPT !.pc = "evict", !.total = Bytes, !.victims = Reverse(age)]
    /\ UNCHANGED <<bin, neg, idx, age, broken>>

\* Mutant: markers are eviction candidates too.
ListMarkersToo ==
    /\ op.pc = "list"
    /\ op' = [op EXCEPT !.pc = "evict", !.total = Bytes,
                        !.victims = SetToSeq({h \in Hashes : neg[h]}) \o age]
    /\ UNCHANGED <<bin, neg, idx, age, broken>>

\* evictIfNeededLocked: the directory is listed and sorted once.
ListDirectory ==
    /\ op.pc = "list"
    /\ \/ /\ op' = [op EXCEPT !.pc = "evict", !.total = Bytes, !.victims = age]
          /\ UNCHANGED broken
       \/ /\ Breaks("listDirectory")
          /\ Goto("write")
    /\ UNCHANGED <<bin, neg, idx, age>>

\* Mutant: the incoming payload is not counted.
FitsWithoutIncoming == op.total <= maxBytes

Fits == op.total + op.verdict.size <= maxBytes

EvictBin ==
    /\ op.pc = "evict" /\ ~ Fits /\ op.victims # <<>>
    /\ LET h == Head(op.victims)
           size == SizeOf(bin[h])
       IN  /\ op' = [op EXCEPT !.pc = "evictIdx",
                               !.total = IF size > @ THEN 0 ELSE @ - size]
           /\ \/ RemoveBin(h) /\ UNCHANGED broken
              \/ Breaks("remove") /\ UNCHANGED <<bin, age>>
    /\ UNCHANGED <<neg, idx>>

EvictIdx ==
    /\ op.pc = "evictIdx"
    /\ op' = [op EXCEPT !.pc = "evict", !.victims = Tail(@)]
    /\ \/ idx' = [idx EXCEPT ![Head(op.victims)] = Nothing] /\ UNCHANGED broken
       \/ Breaks("remove") /\ UNCHANGED idx
    /\ UNCHANGED <<bin, neg, age>>

EvictionEnds ==
    /\ op.pc = "evict"
    /\ Fits \/ op.victims = <<>>
    /\ op' = [op EXCEPT !.pc = "write", !.total = 0, !.victims = <<>>]
    /\ UNCHANGED <<bin, neg, idx, age, broken>>

\* The payload or the marker.  A failed write leaves no file, or a torn one.
WriteEntry ==
    /\ op.pc = "write"
    /\ \/ /\ Storing
          /\ bin' = [bin EXCEPT ![H] = op.verdict]
          /\ age' = Newest(H)
          /\ Goto("index")
          /\ UNCHANGED neg
       \/ /\ ~ Storing
          /\ neg' = [neg EXCEPT ![H] = TRUE]
          /\ Goto("index")
          /\ UNCHANGED <<bin, age>>
       \/ /\ FailsAt("writeText") /\ Storing
          /\ bin' = [bin EXCEPT ![H] = Torn]
          /\ age' = Newest(H)
          /\ op' = Failed
          /\ UNCHANGED neg
       \/ /\ FailsAt("writeText")
          /\ op' = Failed
          /\ UNCHANGED <<bin, neg, age>>
    /\ UNCHANGED <<idx, broken>>

\* Mutant: a sidecar that is there already is trusted.
WriteMissingIndex ==
    /\ op.pc = "index"
    /\ \/ /\ idx' = IF idx[H] = Nothing THEN [idx EXCEPT ![H] = op.key] ELSE idx
          /\ Goto("done")
       \/ /\ FailsAt("writeText")
          /\ idx' \in {idx, [idx EXCEPT ![H] = Torn]}
          /\ Goto("rollback")
    /\ UNCHANGED <<bin, neg, age, broken>>

WriteIndex ==
    /\ op.pc = "index"
    /\ \/ /\ idx' = [idx EXCEPT ![H] = op.key]
          /\ Goto("done")
       \/ /\ FailsAt("writeText")
          /\ idx' \in {idx, [idx EXCEPT ![H] = Torn]}
          /\ Goto("rollback")
    /\ UNCHANGED <<bin, neg, age, broken>>

Rollback ==
    /\ op.pc = "rollback"
    /\ op' = Failed
    /\ \/ Storing /\ RemoveBin(H) /\ UNCHANGED <<neg, broken>>
       \/ ~ Storing /\ neg' = [neg EXCEPT ![H] = FALSE] /\ UNCHANGED <<bin, age, broken>>
       \/ Breaks("remove") /\ UNCHANGED <<bin, neg, age>>
    /\ UNCHANGED idx

StoreStep == \/ ClearOther \/ ListDirectory \/ EvictBin \/ EvictIdx \/ EvictionEnds
             \/ WriteEntry \/ WriteIndex \/ Rollback

\* The process dies in the middle of a store.
Crash == ~ Idle /\ op' = Failed /\ UNCHANGED <<bin, neg, idx, age, broken>>

Next == \/ \E k \in Keys : Load(k)
        \/ \E k \in Keys : \E v \in {i \in Images : i.of = k} \cup {Negative} :
                EnsureDirectory(k, v)
        \/ StoreStep
        \/ Crash

Spec == Init /\ [][Next]_vars

-----------------------------------------------------------------------------
\* Properties

\* .bin and .neg of one hash are never on disk together, whatever fails or
\* dies, unless a removal failed.
NeverCoResident == "remove" \notin broken => \A h \in Hashes : ~ (bin[h] # Nothing /\ neg[h])

\* The payloads exceed the cap only if a single payload does, or if a removal
\* or a listing failed.
CapHonoured ==
    broken = {} => \/ Bytes <= maxBytes
                   \/ \E h \in Hashes : \A g \in Hashes \ {h} : bin[g] = Nothing

\* A store that went through is what the next load answers.
StoredIsServed ==
    (op.pc = "done" /\ "remove" \notin broken) => Answer(op.key) = op.verdict

\* A store that evicts leaves no payload that is older than an evicted one,
\* unless it cannot be removed.
EvictsOldestFirst ==
    [][\A h, g \in Hashes :
         ("remove" \notin broken
              /\ op.pc = "evict" /\ bin[h] # Nothing /\ bin'[h] = Nothing
              /\ g # h /\ bin[g] # Nothing)
           => \E i, j \in 1 .. Len(age) : i < j /\ age[i] = h /\ age[j] = g]_vars

\* A failed write is a no-op: no load ever answers a torn payload.
TornIsNeverServed == \A k \in Keys : Answer(k) # Torn

\* As long as no removal fails, the cache implements the port that
\* CardPreviewService relies on.
PortEntry   == [k \in Keys |-> Answer(k)]
PortPending == IF Idle THEN [key |-> Nothing, verdict |-> Nothing]
               ELSE [key |-> op.key, verdict |-> op.verdict]

Port == INSTANCE PreviewByteCachePort WITH entry <- PortEntry, pending <- PortPending

ImplementsPort ==
    Port!Init /\ [][Port!Next \/ "remove" \in broken']_<<PortEntry, PortPending>>
=============================================================================
