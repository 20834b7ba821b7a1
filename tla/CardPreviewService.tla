------------------------- MODULE CardPreviewService -------------------------
(***************************************************************************)
(* CardPreviewService: resolves and downloads preview images through two   *)
(* cache tiers, an LRU in memory and the persistent IPreviewByteCache.     *)
(* It is called from any number of worker threads at once.  cacheMutex_ is *)
(* held for one memory-tier operation at a time and the disk tier locks    *)
(* itself per operation, so calls interleave between every two of these    *)
(* steps.  The upstream (preview source plus image host) may change its    *)
(* mind between two requests.                                              *)
(***************************************************************************)
EXTENDS Naturals, Sequences

CONSTANTS
    Keys,       \* cache keys: preview coordinates and card-back URLs
    UrlKeys,    \* those of fetchImageBytesByUrl
    AssetKeys,  \* those whose image is a bundled file (asset: URL)
    Unsourced,  \* those of a game with no registered preview source
    Images, Torn, Negative, Nothing,
    Error,      \* a failed call that says nothing about the card
    Workers,    \* threads that may be inside the service at once
    kCacheCapacity,
    MaxTroubles \* bound on the environment's misbehaviour: upstream answers
                \* that change, disk operations that fail, restarts

ASSUME ServiceAssumption ==
    /\ UrlKeys \subseteq Keys
    /\ AssetKeys \subseteq Keys
    /\ Unsourced \subseteq Keys \ UrlKeys
    /\ kCacheCapacity \in Nat \ {0}
    /\ MaxTroubles \in Nat
    /\ Images \cap {Torn, Negative, Nothing, Error} = {}
    /\ Torn # Negative /\ Torn # Nothing /\ Torn # Error
    /\ Negative # Nothing /\ Negative # Error /\ Nothing # Error

VARIABLES
    lru,       \* keys of cacheList_, most recently used first
    memo,      \* what cacheIndex_ finds for a key; Nothing if it finds none
    disk,      \* what the persistent tier holds
    call,      \* the call each worker is executing, or executed last
    upstream,  \* what the upstream would answer now
    troubles,  \* how often the environment misbehaved
    answered,  \* history: <<key, verdict>> pairs the upstream gave
    strained,  \* history: keys with overlapping calls or a disk-tier loss
    usedAfter  \* history: <<a, b>> if a, in the tier, was used after b, in the tier

vars == <<lru, memo, disk, call, upstream, troubles, answered, strained, usedAfter>>

memoryTier == <<lru, memo, usedAfter>>
world      == <<upstream, troubles>>

Port == INSTANCE PreviewByteCachePort WITH entry <- disk, pending <- call

Verdicts == Images \cup {Negative}
Entries  == Images \cup {Torn, Negative, Nothing}
\* Card-back URLs are constants of the program that do exist; fetching one may fail.
Hosted   == UrlKeys \ AssetKeys

PCs      == {"lookup", "load", "promote", "resolve", "get", "asset",
             "memStore", "diskStore", "done"}
Calls    == [pc : PCs, key : Keys \cup {Nothing}, verdict : Entries \cup {Error}]

TypeOK ==
    /\ lru \in Seq(Keys)
    /\ memo \in [Keys -> Entries]
    /\ disk \in [Keys -> Entries]
    /\ call \in [Workers -> Calls]
    /\ \A w \in Workers : call[w].pc # "done" => call[w].key \in Keys
    /\ upstream \in [Keys -> Verdicts]
    /\ troubles \in 0 .. MaxTroubles
    /\ answered \subseteq Keys \X Verdicts
    /\ strained \subseteq Keys
    /\ usedAfter \subseteq Keys \X Keys

Init ==
    /\ lru = <<>>
    /\ memo = [k \in Keys |-> Nothing]
    /\ disk = [k \in Keys |-> Nothing]
    /\ call = [w \in Workers |-> [pc |-> "done", key |-> Nothing, verdict |-> Nothing]]
    /\ upstream \in {u \in [Keys -> Verdicts] : \A k \in Hosted : u[k] # Negative}
    /\ troubles = 0
    /\ answered = {}
    /\ strained = {}
    /\ usedAfter = {}

Trouble == troubles < MaxTroubles /\ troubles' = troubles + 1

-----------------------------------------------------------------------------
\* The memory tier

\* Mutant: a use does not count.
LeaveInPlace(s, k) == s

MoveToFront(s, k) ==
    LET p == CHOOSE i \in DOMAIN s : s[i] = k
    IN  [i \in DOMAIN s |-> IF i = 1 THEN k ELSE IF i <= p THEN s[i - 1] ELSE s[i]]

\* History: k is used now, later than every other key in the tier.
Used(k) ==
    LET resident == {j \in Keys : memo'[j] # Nothing}
    IN  usedAfter' = {p \in usedAfter : p[2] # k /\ {p[1], p[2]} \subseteq resident}
                         \cup {<<k, j>> : j \in resident \ {k}}

\* cacheLookup when the key is there
TouchEntry(k) ==
    /\ lru' = MoveToFront(lru, k)
    /\ UNCHANGED memo
    /\ Used(k)

\* Mutant: the index keeps the entry that the list drops.
CacheStoreKeepsIndex(k, v) ==
    /\ IF memo[k] # Nothing
       THEN lru' = MoveToFront(lru, k)
       ELSE lru' = <<k>> \o SubSeq(lru, 1, IF Len(lru) < kCacheCapacity
                                           THEN Len(lru) ELSE kCacheCapacity - 1)
    /\ memo' = [memo EXCEPT ![k] = v]
    /\ Used(k)

\* cacheStore and cacheStoreNegative
CacheStore(k, v) ==
    /\ IF memo[k] # Nothing
       THEN /\ lru' = MoveToFront(lru, k)
            /\ memo' = [memo EXCEPT ![k] = v]
       ELSE IF Len(lru) < kCacheCapacity
       THEN /\ lru' = <<k>> \o lru
            /\ memo' = [memo EXCEPT ![k] = v]
       ELSE /\ lru' = <<k>> \o SubSeq(lru, 1, kCacheCapacity - 1)
            /\ memo' = [memo EXCEPT ![lru[kCacheCapacity]] = Nothing, ![k] = v]
    /\ Used(k)

-----------------------------------------------------------------------------
\* One call of worker w

Goto(w, pc, v) == call' = [call EXCEPT ![w].pc = pc, ![w].verdict = v]

\* Another call under the same key is on its way.
Overlaps(w, k) == \E x \in Workers \ {w} : call[x].pc # "done" /\ call[x].key = k

\* fetchPreviewBytes or fetchImageBytesByUrl is entered.
Enter(w, k) ==
    /\ call[w].pc = "done"
    /\ call' = [call EXCEPT ![w] =
                  IF k \in Unsourced
                  THEN [pc |-> "done", key |-> k, verdict |-> Error]
                  ELSE [pc |-> "lookup", key |-> k, verdict |-> Nothing]]
    /\ strained' = IF Overlaps(w, k) THEN strained \cup {k} ELSE strained
    /\ UNCHANGED <<memoryTier, disk, world, answered>>

CacheLookup(w) ==
    LET k == call[w].key IN
    /\ call[w].pc = "lookup"
    /\ \/ /\ memo[k] # Nothing
          /\ TouchEntry(k)
          /\ IF k \in UrlKeys /\ memo[k] = Negative
             THEN Goto(w, "load", Nothing)
             ELSE Goto(w, "done", memo[k])
       \/ /\ memo[k] = Nothing
          /\ Goto(w, "load", Nothing)
          /\ UNCHANGED memoryTier
    /\ UNCHANGED <<disk, world, answered, strained>>

\* Where a call goes when both tiers missed.
AskUpstream(k) ==
    IF k \notin UrlKeys THEN "resolve" ELSE IF k \in AssetKeys THEN "asset" ELSE "get"

\* persistentCache_->load; an I/O error is a miss.
LoadFromDisk(w) ==
    LET k == call[w].key IN
    /\ call[w].pc = "load"
    /\ \/ /\ disk[k] # Nothing
          /\ k \in UrlKeys => disk[k] # Negative
          /\ Goto(w, "promote", disk[k])
          /\ UNCHANGED <<strained, troubles>>
       \/ /\ disk[k] = Nothing \/ (k \in UrlKeys /\ disk[k] = Negative)
          /\ Goto(w, AskUpstream(k), Nothing)
          /\ UNCHANGED <<strained, troubles>>
       \/ /\ disk[k] # Nothing
          /\ Goto(w, AskUpstream(k), Nothing)
          /\ strained' = strained \cup {k}
          /\ Trouble
    /\ UNCHANGED <<memoryTier, disk, upstream, answered>>

\* A torn payload may be empty; cacheStore ignores an empty payload.
Promote(w) ==
    LET k == call[w].key  v == call[w].verdict IN
    /\ call[w].pc = "promote"
    /\ \/ CacheStore(k, v)
       \/ v = Torn /\ UNCHANGED memoryTier
    /\ Goto(w, "done", v)
    /\ UNCHANGED <<disk, world, answered, strained>>

\* Mutants: a transient failure is cached, as it is or as "no image".
ResolveInto(w, failure) ==
    LET k == call[w].key IN
    /\ call[w].pc = "resolve"
    /\ \/ /\ upstream[k] # Negative
          /\ Goto(w, IF k \in AssetKeys THEN "asset" ELSE "get", Nothing)
       \/ Goto(w, "memStore", failure)
    /\ UNCHANGED <<memoryTier, disk, world, answered, strained>>
ResolveCachesErrors(w)   == ResolveInto(w, Error)
ResolveCachesNegative(w) == ResolveInto(w, Negative)

\* fetchImageUrl of the game's preview source: a URL, NotFound or Transient.
Resolve(w) ==
    LET k == call[w].key IN
    /\ call[w].pc = "resolve"
    /\ \/ /\ upstream[k] # Negative
          /\ Goto(w, IF k \in AssetKeys THEN "asset" ELSE "get", Nothing)
          /\ UNCHANGED answered
       \/ /\ upstream[k] = Negative
          /\ Goto(w, "memStore", Negative)
          /\ answered' = answered \cup {<<k, Negative>>}
       \/ /\ Goto(w, "done", Error)
          /\ UNCHANGED answered
    /\ UNCHANGED <<memoryTier, disk, world, strained>>

\* Mutant: a failed request for a URL means there is no image.
GetCachesNegative(w) ==
    LET k == call[w].key IN
    /\ call[w].pc = "get"
    /\ \E v \in {upstream[k], Negative} :
          /\ Goto(w, "memStore", v)
          /\ answered' = answered \cup {<<k, v>>}
    /\ UNCHANGED <<memoryTier, disk, world, strained>>

\* fetchAndCache up to the stores: bytes, or a failed or empty response.
Get(w) ==
    LET k == call[w].key IN
    /\ call[w].pc = "get"
    /\ \/ /\ upstream[k] # Negative
          /\ Goto(w, "memStore", upstream[k])
          /\ answered' = answered \cup {<<k, upstream[k]>>}
       \/ /\ Goto(w, "done", Error)
          /\ UNCHANGED answered
    /\ UNCHANGED <<memoryTier, disk, world, strained>>

\* fetchAssetAndCache up to the stores: a missing or empty file is NotFound.
ReadAsset(w) ==
    LET k == call[w].key IN
    /\ call[w].pc = "asset"
    /\ IF upstream[k] = Negative /\ k \in UrlKeys
       THEN Goto(w, "done", Error) /\ UNCHANGED answered
       ELSE /\ Goto(w, "memStore", upstream[k])
            /\ answered' = answered \cup {<<k, upstream[k]>>}
    /\ UNCHANGED <<memoryTier, disk, world, strained>>

\* Mutant: verdicts without an image stay in memory.
StoreNegativeInMemoryOnly(w) ==
    /\ call[w].pc = "memStore"
    /\ CacheStore(call[w].key, call[w].verdict)
    /\ Goto(w, IF call[w].verdict = Negative THEN "done" ELSE "diskStore", call[w].verdict)
    /\ UNCHANGED <<disk, world, answered, strained>>

StoreInMemory(w) ==
    /\ call[w].pc = "memStore"
    /\ CacheStore(call[w].key, call[w].verdict)
    /\ Goto(w, "diskStore", call[w].verdict)
    /\ UNCHANGED <<disk, world, answered, strained>>

\* persistentCache_->store or storeNegative, with what may become of it.
StoreOnDisk(w) ==
    LET k == call[w].key  v == call[w].verdict IN
    /\ call[w].pc = "diskStore"
    /\ \/ /\ disk' = [disk EXCEPT ![k] = v]
          /\ UNCHANGED <<strained, troubles>>
       \/ /\ disk' \in Port!AfterStore(disk, k, v) \ {[disk EXCEPT ![k] = v]}
          /\ strained' = strained \cup {j \in Keys : disk'[j] # IF j = k THEN v ELSE disk[j]}
          /\ Trouble
    /\ Goto(w, "done", v)
    /\ UNCHANGED <<memoryTier, upstream, answered>>

CallStep(w) ==
    \/ CacheLookup(w) \/ LoadFromDisk(w) \/ Promote(w)
    \/ Resolve(w) \/ Get(w) \/ ReadAsset(w)
    \/ StoreInMemory(w) \/ StoreOnDisk(w)

-----------------------------------------------------------------------------
\* The upstream gains, loses or replaces an image.
Flip(k, v) ==
    /\ Trouble
    /\ upstream[k] # v
    /\ k \in Hosted => v # Negative
    /\ upstream' = [upstream EXCEPT ![k] = v]
    /\ UNCHANGED <<memoryTier, disk, call, answered, strained>>

\* The application ends, workers and all, and is launched again.
Restart ==
    /\ Trouble
    /\ lru' = <<>>
    /\ memo' = [k \in Keys |-> Nothing]
    /\ usedAfter' = {}
    /\ call' = [w \in Workers |-> [pc |-> "done", key |-> Nothing, verdict |-> Nothing]]
    /\ UNCHANGED <<disk, upstream, answered, strained>>

Next ==
    \/ \E w \in Workers : CallStep(w) \/ \E k \in Keys : Enter(w, k)
    \/ \E k \in Keys, v \in Verdicts : Flip(k, v)
    \/ Restart

Spec == Init /\ [][Next]_vars

-----------------------------------------------------------------------------
\* Properties

\* cacheList_ and cacheIndex_ describe the same entries: no key is listed
\* twice, none is indexed but not listed, and the capacity is never exceeded.
ListAndIndexAgree ==
    /\ Len(lru) <= kCacheCapacity
    /\ \A i, j \in 1 .. Len(lru) : lru[i] = lru[j] => i = j
    /\ \A k \in Keys : memo[k] # Nothing <=> \E i \in 1 .. Len(lru) : lru[i] = k

\* A verdict in either tier, or on its way to one, is one the upstream gave
\* for that very key: a transient failure is never remembered as "no image",
\* and concurrent calls never cross their payloads.
VerdictsComeFromUpstream ==
    /\ \A k \in Keys : {memo[k], disk[k]} \ {Torn, Nothing} \subseteq
                          {v \in Verdicts : <<k, v>> \in answered}
    /\ \A w \in Workers : call[w].verdict \in Verdicts =>
                              <<call[w].key, call[w].verdict>> \in answered

\* Card-back URLs are never cached negatively, in either tier.
UrlsAreNeverNegative == \A k \in UrlKeys : Negative \notin {memo[k], disk[k]}

\* What the memory tier knows survives a restart: unless calls for the key
\* overlapped or the disk tier failed or evicted it, the disk knows the same.
WriteThrough ==
    \A k \in Keys \ strained :
        (memo[k] # Nothing /\ \A w \in Workers : call[w].pc = "done" \/ call[w].key # k)
            => disk[k] = memo[k]

\* An entry that falls out of a full memory tier was used less recently than
\* every entry that stays.
EvictsLeastRecentlyUsed ==
    [][\A k, j \in Keys :
          (memo[k] # Nothing /\ memo'[k] = Nothing /\ memo[j] # Nothing /\ memo'[j] # Nothing)
              => <<j, k>> \in usedAfter]_vars

=============================================================================
