----------------------- MODULE CardCollection_proofs -----------------------
(***************************************************************************)
(* Proofs about CardCollection, for any number of records, titles, images  *)
(* and accidents: an id that is given to a new record is free, the upgrade *)
(* of image names works on the record it was started for, apart from the   *)
(* name of its set a record changes only by what is done to it, and the    *)
(* images of a record carry its id and show the pictures attached to it.   *)
(***************************************************************************)
EXTENDS CardCollection, TLAPS, WellFoundedInduction

-----------------------------------------------------------------------------
(***************************************************************************)
(* The next id.                                                            *)
(***************************************************************************)

\* CollectionService::add gives no id away twice.
LEMMA NextIdIsFree ==
    ASSUME NEW ids \in SUBSET Ids
    PROVE  NextId(ids) \in Nat /\ NextId(ids) \notin ids
<1>1. CASE ids = {}
  BY <1>1 DEF NextId
<1>2. CASE ids # {}
  <2> DEFINE top == CHOOSE i \in ids : \A j \in ids : j <= i
  <2>1. top \in ids /\ \A j \in ids : j <= top
    BY <1>2, CollectionAssumption, BoundedSetsHaveAMaximum DEF Ids
  <2>2. NextId(ids) = 1 + top
    BY <1>2 DEF NextId
  <2> HIDE DEF top
  <2>3. top \in Nat /\ \A j \in ids : j \in Nat /\ j <= top
    BY <2>1, CollectionAssumption DEF Ids
  <2> QED BY <2>2, <2>3
<1> QED BY <1>1, <1>2

-----------------------------------------------------------------------------
(***************************************************************************)
(* What the game view is doing, and to which record.                       *)
(***************************************************************************)
IsJob(j) == j = [pc |-> j.pc, id |-> j.id, card |-> j.card, n |-> j.n]

Upgrading == job.pc \in {"copy", "undo", "removeOld", "update"}

\* An upgrade stands for a record that is stored as the dialog left it, and nothing
\* else is done meanwhile, so that it stays like that.
UpgradeWorksOnItsRecord ==
    /\ IsJob(job)
    /\ DOMAIN collection = Ids
    /\ ~ Idle => dialog = Closed
    /\ Upgrading => job.id \in Ids /\ collection[job.id] = job.card

\* A job that goes on keeps its record.
LEMMA ProceedKeepsTheRecord ==
    ASSUME IsJob(job), NEW pc, NEW n, Proceed(pc, n)
    PROVE  IsJob(job)' /\ job'.pc = pc /\ job'.id = job.id /\ job'.card = job.card
<1>1. job' = [[pc |-> job.pc, id |-> job.id, card |-> job.card, n |-> job.n]
                 EXCEPT !.pc = pc, !.n = n]
  BY Zenon DEF Proceed, IsJob
<1>2. job' = [pc |-> pc, id |-> job.id, card |-> job.card, n |-> n]
  BY <1>1
<1> QED BY <1>2 DEF IsJob

\* No job is a job, too.
LEMMA RestIsAJob == IsJob(Rest) /\ Rest.pc = "rest"
BY DEF IsJob, Rest

\* Nothing but a save changes the collection, and a save that fails may lose it.
LEMMA SavesAreTyped ==
    ASSUME NEW c, DOMAIN c = Ids, Saved(c) \/ SaveFails, DOMAIN collection = Ids
    PROVE  DOMAIN collection' = Ids
BY DEF Saved, SaveFails, store

-----------------------------------------------------------------------------
(***************************************************************************)
(* The invariant, action by action.                                        *)
(***************************************************************************)
DialogStep ==
    \/ \E t \in Titles : OpenCreate(t) \/ Retitle(t)
    \/ \E i \in Ids : OpenEdit(i)
    \/ AddImage \/ (\E k \in 1 .. MaxImages : RemoveImage(k)) \/ Cancel

JobStep ==
    \/ CopyName \/ UndoCopy \/ RemoveOldName \/ SaveNames
    \/ DeleteImage \/ EraseRecord

\* While the dialog is open nothing is saved and no job runs.
LEMMA DialogStepsLeaveTheStore ==
    ASSUME UpgradeWorksOnItsRecord, DialogStep
    PROVE  Idle /\ UNCHANGED <<collection, job>>
<1>1. Idle
  BY DEF DialogStep, OpenCreate, OpenEdit, Retitle, AddImage, RemoveImage, Cancel,
         UpgradeWorksOnItsRecord
<1>2. UNCHANGED <<collection, job>>
  BY DEF DialogStep, OpenCreate, OpenEdit, Retitle, AddImage, RemoveImage, Cancel, store
<1> QED BY <1>1, <1>2

\* The id of a new record is free, so that the dialog's record is what is stored.
LEMMA AcceptCreateKeepsIt ==
    ASSUME UpgradeWorksOnItsRecord, AcceptCreate
    PROVE  UpgradeWorksOnItsRecord'
<1> DEFINE id == NextId(Stored)
           c  == [collection EXCEPT ![id] = IF @ = NoCard THEN dialog.card ELSE @]
<1>1. Idle /\ id \in Ids /\ dialog' = Closed
  BY DEF AcceptCreate, UpgradeWorksOnItsRecord, Closed
<1>2. collection[id] = NoCard
  <2>1. Stored \in SUBSET Ids
    BY DEF Stored
  <2>2. id \notin Stored
    BY <2>1, NextIdIsFree
  <2> QED BY <1>1, <2>2 DEF Stored
<1> HIDE DEF id
<1>3. DOMAIN c = Ids /\ c[id] = dialog.card
  BY <1>1, <1>2 DEF UpgradeWorksOnItsRecord
<1>4. CASE Saved(c) /\ job' \in {Rest, [pc |-> "copy", id |-> id, card |-> dialog.card, n |-> 1]}
  <2>1. collection' = c
    BY <1>4 DEF Saved
  <2>2. IsJob(job')
    BY <1>4, RestIsAJob DEF IsJob
  <2>3. Upgrading' => job'.id = id /\ job'.card = dialog.card
    BY <1>4, RestIsAJob DEF Upgrading
  <2> QED BY <1>1, <1>3, <2>1, <2>2, <2>3 DEF UpgradeWorksOnItsRecord, IsJob
<1>5. CASE SaveFails /\ UNCHANGED job
  <2>1. DOMAIN collection' = Ids
    BY <1>3, <1>5, SavesAreTyped DEF UpgradeWorksOnItsRecord
  <2> QED BY <1>1, <1>5, <2>1 DEF UpgradeWorksOnItsRecord, IsJob, Idle, Upgrading
<1> QED BY <1>4, <1>5 DEF AcceptCreate, id

\* A save that leaves no job behind leaves nothing to keep.
LEMMA SavesAtRestKeepIt ==
    ASSUME UpgradeWorksOnItsRecord, NEW c, DOMAIN c = Ids, Saved(c) \/ SaveFails,
           job' = Rest \/ (Idle /\ job' = job)
    PROVE  UpgradeWorksOnItsRecord'
<1>1. DOMAIN collection' = Ids
  BY SavesAreTyped DEF UpgradeWorksOnItsRecord
<1>2. IsJob(job)' /\ job'.pc = "rest"
  BY RestIsAJob DEF UpgradeWorksOnItsRecord, Idle, IsJob
<1> QED BY <1>1, <1>2 DEF UpgradeWorksOnItsRecord, Idle, Upgrading

\* A step of a job goes on with the same record, or ends the job.
LEMMA JobStepKeepsIt ==
    ASSUME UpgradeWorksOnItsRecord, JobStep
    PROVE  UpgradeWorksOnItsRecord'
<1>1. CASE CopyName \/ UndoCopy \/ RemoveOldName \/ DeleteImage
  <2>1. ~ Idle /\ UNCHANGED <<collection, dialog>>
    BY <1>1 DEF CopyName, UndoCopy, RemoveOldName, DeleteImage, Idle, store
  <2>2. CASE job' = Rest
    BY <2>1, <2>2, RestIsAJob DEF UpgradeWorksOnItsRecord, Idle, Upgrading, IsJob
  <2>3. CASE \E pc, n : Proceed(pc, n) /\ (Upgrading \/ pc \in {"removeImages", "erase"})
    <3>1. PICK pc, n : Proceed(pc, n) /\ (Upgrading \/ pc \in {"removeImages", "erase"})
      BY <2>3
    <3>2. IsJob(job)' /\ job'.pc = pc /\ job'.id = job.id /\ job'.card = job.card
      BY <3>1, ProceedKeepsTheRecord DEF UpgradeWorksOnItsRecord
    <3> QED BY <2>1, <3>1, <3>2 DEF UpgradeWorksOnItsRecord, Idle, Upgrading
  <2>4. CASE CopyName \/ UndoCopy \/ RemoveOldName
    BY <2>2, <2>3, <2>4 DEF CopyName, UndoCopy, RemoveOldName, Upgrading, Spoil
  <2>5. CASE DeleteImage
    BY <2>3, <2>5 DEF DeleteImage
  <2> QED BY <1>1, <2>4, <2>5
<1>2. CASE SaveNames
  <2> DEFINE c == [collection EXCEPT ![job.id] = Normalized(job.id, job.card)]
  <2>1. DOMAIN c = Ids
    BY DEF UpgradeWorksOnItsRecord
  <2>2. (Saved(c) \/ SaveFails) /\ job' = Rest
    BY <1>2 DEF SaveNames, Spoil
  <2> HIDE DEF c
  <2> QED BY <2>1, <2>2, SavesAtRestKeepIt
<1>3. CASE EraseRecord
  <2> DEFINE c == [collection EXCEPT ![job.id] = NoCard]
  <2>1. DOMAIN c = Ids
    BY DEF UpgradeWorksOnItsRecord
  <2>2. (Saved(c) \/ SaveFails) /\ job' = Rest
    BY <1>3 DEF EraseRecord, Spoil
  <2> HIDE DEF c
  <2> QED BY <2>1, <2>2, SavesAtRestKeepIt
<1> QED BY <1>1, <1>2, <1>3 DEF JobStep

\* The invariant, for every step.
LEMMA NextKeepsIt ==
    ASSUME UpgradeWorksOnItsRecord, [Next]_vars
    PROVE  UpgradeWorksOnItsRecord'
<1>1. CASE DialogStep
  BY <1>1, DialogStepsLeaveTheStore DEF UpgradeWorksOnItsRecord, Idle, Upgrading, IsJob
<1>2. CASE AcceptCreate
  BY <1>2, AcceptCreateKeepsIt
<1>3. CASE AcceptEdit
  <2> DEFINE c == [collection EXCEPT ![dialog.id] = dialog.card]
  <2>1. DOMAIN c = Ids
    BY DEF UpgradeWorksOnItsRecord
  <2>2. (Saved(c) \/ SaveFails) /\ Idle /\ job' = job
    BY <1>3 DEF AcceptEdit, UpgradeWorksOnItsRecord, Closed
  <2> HIDE DEF c
  <2> QED BY <2>1, <2>2, SavesAtRestKeepIt
<1>4. CASE JobStep
  BY <1>4, JobStepKeepsIt
<1>5. ASSUME NEW i \in Ids, Delete(i) PROVE UpgradeWorksOnItsRecord'
  <2>1. /\ job' = [pc |-> "removeImages", id |-> i, card |-> collection[i], n |-> 1]
        /\ dialog = Closed /\ UNCHANGED <<collection, dialog>>
    BY <1>5 DEF Delete, store
  <2> QED BY <2>1 DEF UpgradeWorksOnItsRecord, IsJob, Upgrading
<1>6. ASSUME NEW old \in Titles, NEW new \in Titles, SyncSets(old, new)
      PROVE  UpgradeWorksOnItsRecord'
  <2> DEFINE c == [i \in Ids |-> IF i \in Affected(old) THEN [collection[i] EXCEPT !.title = new]
                                 ELSE collection[i]]
  <2>1. DOMAIN c = Ids
    OBVIOUS
  <2>2. (Saved(c) \/ SaveFails) /\ Idle /\ job' = job
    BY <1>6 DEF SyncSets
  <2> HIDE DEF c
  <2> QED BY <2>1, <2>2, SavesAtRestKeepIt
<1>7. CASE Crash
  <2>1. job' = Rest /\ dialog' = Closed /\ UNCHANGED collection
    BY <1>7 DEF Crash, store
  <2> QED BY <2>1, RestIsAJob DEF UpgradeWorksOnItsRecord, Upgrading, IsJob
<1>8. CASE UNCHANGED vars
  BY <1>8 DEF vars, UpgradeWorksOnItsRecord, Idle, Upgrading, IsJob
<1> QED BY <1>1, <1>2, <1>3, <1>4, <1>5, <1>6, <1>7, <1>8 DEF Next, DialogStep, JobStep

\* While the image names of a record are upgraded the record stays the one that was
\* just stored: the last save of the upgrade writes over nothing else.
THEOREM UpgradeIsUndisturbed == Spec => []UpgradeWorksOnItsRecord
<1>1. Init => UpgradeWorksOnItsRecord
  BY RestIsAJob DEF Init, UpgradeWorksOnItsRecord, Idle, Upgrading
<1>2. UpgradeWorksOnItsRecord /\ [Next]_vars => UpgradeWorksOnItsRecord'
  BY NextKeepsIt
<1> QED BY <1>1, <1>2, PTL DEF Spec

-----------------------------------------------------------------------------
(***************************************************************************)
(* Records keep to themselves.                                             *)
(***************************************************************************)

\* What OnlyItsOwnRecordChanges says of a step and a record.
ChangesAsItMay(i) ==
    (collection[i] # NoCard /\ collection'[i] # collection[i] /\ readable'
         /\ ~ \E t \in Titles : collection'[i] = [collection[i] EXCEPT !.title = t])
      => \/ dialog.mode = "edit" /\ dialog.id = i
         \/ job.pc = "erase" /\ job.id = i
         \/ job.pc = "update" /\ job.id = i /\ collection[i] = job.card

\* A save that fails keeps the records or all of them are lost with the file.
LEMMA OnlySavesChangeRecords ==
    ASSUME NEW i \in Ids, NEW c, Saved(c) \/ SaveFails,
           c[i] = collection[i] \/ ChangesAsItMay(i)
    PROVE  ChangesAsItMay(i)
BY DEF Saved, SaveFails, store, ChangesAsItMay

\* What a step may do to a record, action by action.
LEMMA StepsChangeTheirRecord ==
    ASSUME UpgradeWorksOnItsRecord, Next, NEW i \in Ids
    PROVE  ChangesAsItMay(i)
<1>1. CASE collection' = collection
  BY <1>1 DEF ChangesAsItMay
<1>2. CASE AcceptCreate
  <2> DEFINE c == [collection EXCEPT ![NextId(Stored)] = IF @ = NoCard THEN dialog.card ELSE @]
  <2>1. Saved(c) \/ SaveFails
    BY <1>2 DEF AcceptCreate
  <2>2. collection[i] # NoCard => c[i] = collection[i]
    BY DEF UpgradeWorksOnItsRecord
  <2> HIDE DEF c
  <2> QED BY <2>1, <2>2 DEF Saved, SaveFails, store, ChangesAsItMay
<1>3. CASE AcceptEdit
  <2> DEFINE c == [collection EXCEPT ![dialog.id] = dialog.card]
  <2>1. Saved(c) \/ SaveFails
    BY <1>3 DEF AcceptEdit
  <2>2. i # dialog.id => c[i] = collection[i]
    BY DEF UpgradeWorksOnItsRecord
  <2>3. i = dialog.id => ChangesAsItMay(i)
    BY <1>3 DEF AcceptEdit, ChangesAsItMay
  <2> HIDE DEF c
  <2> QED BY <2>1, <2>2, <2>3, OnlySavesChangeRecords
<1>4. CASE SaveNames
  <2> DEFINE c == [collection EXCEPT ![job.id] = Normalized(job.id, job.card)]
  <2>1. Saved(c) \/ SaveFails
    BY <1>4 DEF SaveNames
  <2>2. i # job.id => c[i] = collection[i]
    BY DEF UpgradeWorksOnItsRecord
  <2>3. i = job.id => ChangesAsItMay(i)
    BY <1>4 DEF SaveNames, ChangesAsItMay, UpgradeWorksOnItsRecord, Upgrading
  <2> HIDE DEF c
  <2> QED BY <2>1, <2>2, <2>3, OnlySavesChangeRecords
<1>5. CASE EraseRecord
  <2> DEFINE c == [collection EXCEPT ![job.id] = NoCard]
  <2>1. Saved(c) \/ SaveFails
    BY <1>5 DEF EraseRecord
  <2>2. i # job.id => c[i] = collection[i]
    BY DEF UpgradeWorksOnItsRecord
  <2>3. i = job.id => ChangesAsItMay(i)
    BY <1>5 DEF EraseRecord, ChangesAsItMay
  <2> HIDE DEF c
  <2> QED BY <2>1, <2>2, <2>3, OnlySavesChangeRecords
<1>6. ASSUME NEW old \in Titles, NEW new \in Titles, SyncSets(old, new)
      PROVE  ChangesAsItMay(i)
  <2> DEFINE c == [j \in Ids |-> IF j \in Affected(old) THEN [collection[j] EXCEPT !.title = new]
                                 ELSE collection[j]]
  <2>1. Saved(c) \/ SaveFails
    BY <1>6 DEF SyncSets
  <2>2. c[i] \in {collection[i], [collection[i] EXCEPT !.title = new]}
    OBVIOUS
  <2> HIDE DEF c
  <2> QED BY <2>1, <2>2 DEF Saved, SaveFails, store, ChangesAsItMay
<1>7. AcceptCreate \/ AcceptEdit \/ SaveNames \/ EraseRecord
        \/ (\E old, new \in Titles : SyncSets(old, new)) \/ collection' = collection
  <2>1. DialogStep => collection' = collection
    BY DialogStepsLeaveTheStore
  <2>2. (\E j \in Ids : Delete(j)) \/ CopyName \/ UndoCopy \/ RemoveOldName \/ DeleteImage
          \/ Crash => collection' = collection
    BY DEF Delete, CopyName, UndoCopy, RemoveOldName, DeleteImage, Crash, store
  <2> QED BY <2>1, <2>2 DEF Next, DialogStep
<1> QED BY <1>1, <1>2, <1>3, <1>4, <1>5, <1>6, <1>7

\* Whatever fails, and wherever the process dies: adding a record never replaces one,
\* and neither a deletion nor an upgrade of names ever reaches another record.
THEOREM RecordsKeepToThemselves == Spec => OnlyItsOwnRecordChanges
<1>1. UpgradeWorksOnItsRecord /\ [Next]_vars => [\A i \in Ids : ChangesAsItMay(i)]_vars
  BY StepsChangeTheirRecord
<1> QED BY <1>1, UpgradeIsUndisturbed, PTL
        DEF Spec, OnlyItsOwnRecordChanges, ChangesAsItMay

-----------------------------------------------------------------------------
(***************************************************************************)
(* The types.                                                              *)
(***************************************************************************)
GoodCards == {c \in Cards : Len(c.images) <= MaxImages}

\* A job knows which file it is at.
HasWork(j) ==
    /\ j.pc \in {"copy", "undo", "removeOld"} => j.n \in 1 .. Len(RenamesOf(j.id, j.card))
    /\ j.pc = "removeImages" => j.n \in 1 .. Len(j.card.images) + 1

StoreTyped(c)  == c \in [Ids -> GoodCards \cup {NoCard}]
FilesTyped(fs) == fs \in [FileNames -> Nothing .. Torn]
DialogTyped(d) ==
    \/ d = Closed
    \/ d \in [mode : {"create", "edit"}, id : Ids, card : GoodCards, pruned : BOOLEAN]
JobTyped(j) ==
    \/ j = Rest
    \/ /\ j \in [pc : {"copy", "undo", "removeOld", "update", "removeImages", "erase"},
                 id : Ids, card : GoodCards, n : 0 .. MaxImages + 1]
       /\ HasWork(j)
CountersTyped(p, a, s) ==
    p \in 0 .. MaxPictures /\ a \in 0 .. MaxAccidents /\ s \subseteq Ids

\* TypeOK, and what is at hand while a dialog is open or a job runs.
TypeInv ==
    /\ StoreTyped(collection) /\ readable \in BOOLEAN
    /\ FilesTyped(files)
    /\ DialogTyped(dialog)
    /\ JobTyped(job)
    /\ CountersTyped(pictures, accidents, spoiled)

\* The names that are made are names of files.
LEMMA NamesAreFileNames ==
    ASSUME NEW t \in Titles, NEW n \in Indices, NEW i \in Ids
    PROVE  CreateName(t, n) \in FileNames /\ PersistedName(i, t, n) \in FileNames
BY DEF FileNames

\* A file name has at least one part.
LEMMA FileNamesHaveParts ==
    ASSUME NEW f \in FileNames
    PROVE  f \in Seq(Nat) /\ f # <<>>
<1>1. \A t \in Titles : t \in Seq(Nat)
  <2>1. ASSUME NEW t \in Nat \X Nat PROVE t \in Seq(Nat)
    <3>1. PICK a \in Nat, b \in Nat : t = <<a, b>>
      OBVIOUS
    <3> QED BY <3>1
  <2> QED BY <2>1, CollectionAssumption
<1>2. \A n \in Indices \cup Ids : n \in Nat
  BY CollectionAssumption DEF Indices, Ids
<1>3. ASSUME NEW s \in Seq(Nat), NEW n \in Nat
      PROVE  s \o <<n>> \in Seq(Nat) /\ s \o <<n>> # <<>> /\ <<n>> \o s \in Seq(Nat)
  <2>1. <<n>> \in Seq(Nat) /\ Len(<<n>>) = 1 /\ Len(s) \in Nat
    OBVIOUS
  <2>2. s \o <<n>> \in Seq(Nat) /\ <<n>> \o s \in Seq(Nat) /\ Len(s \o <<n>>) = Len(s) + 1
    BY <2>1
  <2> QED BY <2>1, <2>2
<1>4. ASSUME NEW t \in Titles, NEW n \in Indices, f = CreateName(t, n)
      PROVE  f \in Seq(Nat) /\ f # <<>>
  BY <1>1, <1>2, <1>3, <1>4 DEF CreateName
<1>5. ASSUME NEW i \in Ids, NEW t \in Titles, NEW n \in Indices, f = PersistedName(i, t, n)
      PROVE  f \in Seq(Nat) /\ f # <<>>
  <2>1. <<i>> \o t \in Seq(Nat)
    BY <1>1, <1>2, <1>3
  <2> QED BY <1>2, <1>3, <1>5, <2>1 DEF PersistedName
<1> QED BY <1>4, <1>5 DEF FileNames

\* parseIndexFromFilename returns less than IndexBase, and what it reads if that fits.
LEMMA IndicesWrap ==
    ASSUME NEW f \in FileNames
    PROVE  /\ f[Len(f)] \in Nat
           /\ ParseIndex(f) \in Nat /\ ParseIndex(f) < IndexBase
           /\ ParseIndex(f) \in Indices /\ ParseIndex(f) + 1 \in Indices
           /\ f[Len(f)] < IndexBase => ParseIndex(f) = f[Len(f)]
<1> DEFINE last == f[Len(f)]
<1>1. last \in Nat
  BY FileNamesHaveParts
<1>2. IndexBase \in Nat /\ IndexBase # 0
  BY CollectionAssumption
<1> HIDE DEF last
<1>3. last % IndexBase \in 0 .. IndexBase - 1 /\ (last < IndexBase => last % IndexBase = last)
  BY <1>1, <1>2
<1>4. ParseIndex(f) = last % IndexBase
  BY DEF ParseIndex, last
<1> HIDE DEF ParseIndex
<1> QED BY <1>1, <1>2, <1>3, <1>4 DEF Indices, last

\* NoCard is told apart from every record.
LEMMA NoCardIsNone == NoCard \notin Cards
<1>1. Titles \subseteq Nat \X Nat
  BY CollectionAssumption
<1>2. Images \subseteq [file : Seq(Nat), picture : Nat]
  BY FileNamesHaveParts, CollectionAssumption DEF Images
<1>3. Seq(Images) \subseteq Seq([file : Seq(Nat), picture : Nat])
  <2> DEFINE Loose == [file : Seq(Nat), picture : Nat]
  <2>1. Images \subseteq Loose
    BY <1>2
  <2> HIDE DEF Loose
  <2>2. Seq(Images) \subseteq Seq(Loose)
    BY <2>1
  <2> QED BY <2>2 DEF Loose
<1>4. Cards \subseteq [title : Nat \X Nat, images : Seq([file : Seq(Nat), picture : Nat])]
  BY <1>1, <1>3 DEF Cards
<1> QED BY <1>4, CollectionAssumption

\* TypeInv is stronger than TypeOK.
LEMMA TypesFollow == ASSUME TypeInv PROVE TypeOK
<1>1. 0 \in Ids /\ 0 \in 0 .. MaxImages + 1 /\ MaxImages \in Nat
  BY CollectionAssumption DEF Ids
<1>2. dialog \in [mode : {"closed", "create", "edit"}, id : Ids,
                  card : Cards \cup {NoCard}, pruned : BOOLEAN]
        /\ (dialog.card # NoCard => Len(dialog.card.images) <= MaxImages)
  <2>1. CASE dialog = Closed
    BY <1>1, <2>1 DEF Closed
  <2>2. CASE dialog # Closed
    BY <2>2 DEF TypeInv, DialogTyped, GoodCards
  <2> QED BY <2>1, <2>2
<1>3. job \in [pc : {"rest", "copy", "undo", "removeOld", "update", "removeImages", "erase"},
               id : Ids, card : Cards \cup {NoCard}, n : 0 .. MaxImages + 1]
        /\ (job.card # NoCard => Len(job.card.images) <= MaxImages)
  <2>1. CASE job = Rest
    BY <1>1, <2>1 DEF Rest
  <2>2. CASE job # Rest
    BY <2>2 DEF TypeInv, JobTyped, GoodCards
  <2> QED BY <2>1, <2>2
<1>4. collection \in [Ids -> Cards \cup {NoCard}]
        /\ \A i \in Ids : collection[i] # NoCard => Len(collection[i].images) <= MaxImages
  BY DEF TypeInv, StoreTyped, GoodCards
<1> QED BY <1>2, <1>3, <1>4 DEF TypeInv, TypeOK, FilesTyped, CountersTyped

-----------------------------------------------------------------------------
(***************************************************************************)
(* What the upgrade of names makes of a record.                            *)
(***************************************************************************)
LEMMA NormalizedNames ==
    ASSUME NEW i \in Ids, NEW c \in GoodCards, NEW k \in DOMAIN c.images
    PROVE  /\ c.images[k] \in Images /\ c.images[k].file \in FileNames
           /\ NormalizedName(i, c, k) \in FileNames
           /\ Head(c.images[k].file) # i =>
                 NormalizedName(i, c, k) = PersistedName(i, c.title, ParseIndex(c.images[k].file))
           /\ Head(c.images[k].file) = i => NormalizedName(i, c, k) = c.images[k].file
<1>1. c.title \in Titles /\ c.images \in Seq(Images)
  BY DEF GoodCards, Cards
<1>2. c.images[k] \in Images /\ c.images[k].file \in FileNames
  <2>1. c.images[k] \in Images
    BY <1>1
  <2> QED BY <2>1 DEF Images
<1>3. PersistedName(i, c.title, ParseIndex(c.images[k].file)) \in FileNames
  BY <1>1, <1>2, IndicesWrap, NamesAreFileNames
<1> QED BY <1>2, <1>3 DEF NormalizedName, Upgrades

\* An upgraded record differs in its image names only.
LEMMA NormalizedCard ==
    ASSUME NEW i \in Ids, NEW c \in GoodCards
    PROVE  /\ Normalized(i, c) \in GoodCards
           /\ Normalized(i, c).title = c.title
           /\ DOMAIN Normalized(i, c).images = DOMAIN c.images
           /\ \A k \in DOMAIN c.images :
                 /\ Normalized(i, c).images[k].file = NormalizedName(i, c, k)
                 /\ Normalized(i, c).images[k].picture = c.images[k].picture
<1> DEFINE ims == [k \in DOMAIN c.images |-> [c.images[k] EXCEPT !.file = NormalizedName(i, c, k)]]
<1>1. c \in Cards /\ c.images \in Seq(Images) /\ Len(c.images) <= MaxImages
  BY DEF GoodCards, Cards
<1>2. Normalized(i, c) = [c EXCEPT !.images = ims]
  BY DEF Normalized
<1>3. ASSUME NEW k \in DOMAIN c.images
      PROVE  ims[k] \in Images /\ ims[k].file = NormalizedName(i, c, k)
               /\ ims[k].picture = c.images[k].picture
  <2>1. c.images[k] \in Images /\ NormalizedName(i, c, k) \in FileNames
    BY NormalizedNames
  <2> QED BY <2>1 DEF Images
<1>4. Len(c.images) \in Nat /\ DOMAIN c.images = 1 .. Len(c.images)
  BY <1>1
<1>5. ims \in Seq(Images) /\ Len(ims) = Len(c.images) /\ DOMAIN ims = DOMAIN c.images
  <2>1. \A k \in 1 .. Len(c.images) : ims[k] \in Images
    BY <1>3, <1>4
  <2>2. ims \in [1 .. Len(c.images) -> Images]
    BY <1>4, <2>1
  <2>3. ims \in Seq(Images) /\ Len(ims) = Len(c.images)
    BY <1>4, <2>2
  <2> QED BY <1>4, <2>2, <2>3
<1> HIDE DEF ims
<1>6. /\ [c EXCEPT !.images = ims] \in Cards
      /\ [c EXCEPT !.images = ims].images = ims
      /\ [c EXCEPT !.images = ims].title = c.title
  BY <1>1, <1>5 DEF Cards
<1> QED BY <1>1, <1>2, <1>3, <1>5, <1>6 DEF GoodCards

\* The renamings of a record: of the images whose names change, in their order.
Renamed(i, c, from) ==
    LET r == RenamesOf(i, c)
    IN  /\ from \in [1 .. Len(r) -> DOMAIN c.images]
        /\ \A m \in 1 .. Len(r) :
              /\ r[m].old = c.images[from[m]].file /\ r[m].new = NormalizedName(i, c, from[m])
              /\ r[m].old # r[m].new
        /\ \A m, l \in 1 .. Len(r) : m < l => from[m] < from[l]
        /\ \A k \in DOMAIN c.images :
              NormalizedName(i, c, k) # c.images[k].file => \E m \in 1 .. Len(r) : from[m] = k

LEMMA RenamesAreNames ==
    ASSUME NEW i \in Ids, NEW c \in GoodCards
    PROVE  /\ RenamesOf(i, c) \in Seq([old : FileNames, new : FileNames])
           /\ Len(RenamesOf(i, c)) \in Nat /\ Len(RenamesOf(i, c)) <= Len(c.images)
           /\ RenamesOf(i, c) = <<>> =>
                 \A k \in DOMAIN c.images : NormalizedName(i, c, k) = c.images[k].file
           /\ \E from : Renamed(i, c, from)
<1> DEFINE R == [old : FileNames, new : FileNames]
           s == [k \in DOMAIN c.images |-> [old |-> c.images[k].file, new |-> NormalizedName(i, c, k)]]
           t == KeepIn(s, Renames)
<1>1. c.images \in Seq(Images) /\ Len(c.images) \in Nat /\ DOMAIN c.images = 1 .. Len(c.images)
  <2>1. c.images \in Seq(Images)
    BY DEF GoodCards, Cards
  <2> QED BY <2>1
<1>2. \A k \in 1 .. Len(c.images) : s[k] \in R
  BY <1>1, NormalizedNames
<1>3. s \in Seq(R) /\ Len(s) = Len(c.images)
  <2>1. s \in [1 .. Len(c.images) -> R]
    BY <1>1, <1>2
  <2> HIDE DEF s, R
  <2> QED BY <1>1, <2>1
<1>4. \A k \in 1 .. Len(s) : /\ k \in DOMAIN c.images
                             /\ s[k].old = c.images[k].file /\ s[k].new = NormalizedName(i, c, k)
                             /\ s[k] = [old |-> c.images[k].file, new |-> NormalizedName(i, c, k)]
  BY <1>1, <1>3
<1>5. \A k \in 1 .. Len(s) : s[k] \in Renames <=> NormalizedName(i, c, k) # c.images[k].file
  BY <1>1, <1>2, <1>4 DEF Renames
<1>6. RenamesOf(i, c) = t
  BY DEF RenamesOf
<1> HIDE DEF s, R, t
<1>7. t \in Seq(R) /\ \E from : Picked(t, from, s, Renames)
  BY <1>3, KeptInOrder DEF t
<1>8. /\ Len(t) <= Len(s)
      /\ t = <<>> => \A k \in 1 .. Len(s) : s[k] \notin Renames
  BY <1>3, KeptIsShorter DEF t
<1>9. PICK from : Picked(t, from, s, Renames)
  BY <1>7
<1>10. Len(t) \in Nat
  BY <1>7
<1>11. from \in [1 .. Len(t) -> DOMAIN c.images] /\ DOMAIN c.images = 1 .. Len(s)
  BY <1>1, <1>3, <1>9 DEF Picked
<1>12. ASSUME NEW m \in 1 .. Len(t)
       PROVE  /\ t[m].old = c.images[from[m]].file /\ t[m].new = NormalizedName(i, c, from[m])
              /\ t[m].old # t[m].new
  <2>1. from[m] \in 1 .. Len(s) /\ t[m] = s[from[m]] /\ s[from[m]] \in Renames
    BY <1>9, <1>11 DEF Picked
  <2> QED BY <1>4, <2>1 DEF Renames
<1>13. Renamed(i, c, from)
  BY <1>5, <1>6, <1>9, <1>11, <1>12 DEF Picked, Renamed
<1> QED BY <1>1, <1>3, <1>4, <1>5, <1>6, <1>7, <1>8, <1>10, <1>13 DEF R

-----------------------------------------------------------------------------
(***************************************************************************)
(* The types, action by action.                                            *)
(***************************************************************************)

\* A file operation changes no other file.
Touched(f) ==
    /\ FilesTyped(files')
    /\ \A g \in FileNames : g # f => files'[g] = files[g]
    /\ accidents' \in 0 .. MaxAccidents

\* What copying to a file or removing it may do, failing or not.
LEMMA FileSteps ==
    ASSUME TypeInv, NEW f \in FileNames, NEW p \in Nothing .. Torn,
           CopyTo(f, p) \/ RemoveFile(f) \/ CopyFails(f) \/ RemoveFails(f)
    PROVE  Touched(f)
<1>1. Nothing \in Nothing .. Torn /\ Torn \in Nothing .. Torn
  BY CollectionAssumption DEF Nothing, Torn
<1>2. \E x \in Nothing .. Torn : files' = [files EXCEPT ![f] = x] \/ files' = files
  BY <1>1 DEF CopyTo, RemoveFile, CopyFails, RemoveFails
<1>3. accidents' \in 0 .. MaxAccidents
  BY CollectionAssumption DEF CopyTo, RemoveFile, CopyFails, RemoveFails, Accident, TypeInv, CountersTyped
<1> QED BY <1>2, <1>3 DEF Touched, FilesTyped, TypeInv

\* What a save may do, failing or not.
LEMMA SaveSteps ==
    ASSUME TypeInv, NEW c, StoreTyped(c), Saved(c) \/ SaveFails
    PROVE  /\ StoreTyped(collection') /\ readable' \in BOOLEAN
           /\ accidents' \in 0 .. MaxAccidents
<1>1. accidents' \in 0 .. MaxAccidents
  BY CollectionAssumption DEF Saved, SaveFails, Accident, TypeInv, CountersTyped
<1>2. collection' \in {c, collection, [i \in Ids |-> NoCard]} /\ readable' \in BOOLEAN
  BY DEF Saved, SaveFails, store, TypeInv
<1>3. StoreTyped([i \in Ids |-> NoCard])
  BY DEF StoreTyped
<1> QED BY <1>1, <1>2, <1>3 DEF TypeInv

\* A job that goes on is a job.
LEMMA JobGoesOn ==
    ASSUME JobTyped(job), job # Rest, NEW n \in 0 .. MaxImages + 1,
           NEW pc \in {"copy", "undo", "removeOld", "update", "removeImages", "erase"},
           pc \in {"copy", "undo", "removeOld"} => n \in 1 .. Len(Renamings),
           pc = "removeImages" => n \in 1 .. Len(job.card.images) + 1,
           Proceed(pc, n)
    PROVE  /\ JobTyped(job') /\ job' # Rest
           /\ job'.pc = pc /\ job'.n = n /\ job'.id = job.id /\ job'.card = job.card
<1> DEFINE Js == [pc : {"copy", "undo", "removeOld", "update", "removeImages", "erase"},
                  id : Ids, card : GoodCards, n : 0 .. MaxImages + 1]
<1>1. job \in Js
  BY DEF JobTyped
<1>2. job' = [job EXCEPT !.pc = pc, !.n = n]
  BY DEF Proceed
<1>3. /\ job' \in Js /\ job'.pc = pc /\ job'.n = n /\ job'.id = job.id /\ job'.card = job.card
  BY <1>1, <1>2
<1>4. HasWork(job')
  BY <1>3 DEF HasWork, Renamings
<1>5. job' # Rest
  BY <1>3 DEF Rest
<1> QED BY <1>3, <1>4, <1>5 DEF JobTyped

\* A dialog that is open, and its card.
LEMMA OpenDialog ==
    ASSUME TypeInv, dialog # Closed
    PROVE  /\ dialog \in [mode : {"create", "edit"}, id : Ids, card : GoodCards, pruned : BOOLEAN]
           /\ dialog.card.title \in Titles /\ dialog.card.images \in Seq(Images)
           /\ Len(dialog.card.images) \in Nat /\ Len(dialog.card.images) <= MaxImages
           /\ \A k \in DOMAIN dialog.card.images :
                 dialog.card.images[k] \in Images /\ dialog.card.images[k].file \in FileNames
<1>1. dialog \in [mode : {"create", "edit"}, id : Ids, card : GoodCards, pruned : BOOLEAN]
  BY DEF TypeInv, DialogTyped
<1>2. dialog.card \in GoodCards
  BY <1>1
<1>3. /\ dialog.card.title \in Titles /\ dialog.card.images \in Seq(Images)
      /\ Len(dialog.card.images) <= MaxImages
  BY <1>2 DEF GoodCards, Cards
<1>4. \A k \in DOMAIN dialog.card.images : dialog.card.images[k] \in Images
  BY <1>3
<1> QED BY <1>1, <1>3, <1>4 DEF Images

\* A job that runs, and its card.
LEMMA RunningJob ==
    ASSUME TypeInv, job.pc # "rest"
    PROVE  /\ job # Rest /\ job.id \in Ids /\ job.card \in GoodCards /\ HasWork(job)
           /\ job.n \in 0 .. MaxImages + 1
           /\ job.card.title \in Titles /\ job.card.images \in Seq(Images)
           /\ Len(job.card.images) \in Nat /\ Len(job.card.images) <= MaxImages
           /\ \A k \in DOMAIN job.card.images :
                 job.card.images[k] \in Images /\ job.card.images[k].file \in FileNames
<1>1. /\ job # Rest /\ job.id \in Ids /\ job.card \in GoodCards /\ HasWork(job)
      /\ job.n \in 0 .. MaxImages + 1
  BY DEF TypeInv, JobTyped, Rest
<1>2. /\ job.card.title \in Titles /\ job.card.images \in Seq(Images)
      /\ Len(job.card.images) <= MaxImages
  BY <1>1 DEF GoodCards, Cards
<1>3. \A k \in DOMAIN job.card.images : job.card.images[k] \in Images
  BY <1>2
<1> QED BY <1>1, <1>2, <1>3 DEF Images

\* The name an image is about to be copied to.
Target == BuildTargetName(dialog.mode, dialog.id, dialog.card.title,
                          NextImageIndex(dialog.card.images))

\* The next index is no more than IndexBase, and the target of a copy is a file name.
LEMMA TargetIsAName ==
    ASSUME TypeInv, dialog # Closed
    PROVE  /\ NextImageIndex(dialog.card.images) \in Indices
           /\ Target \in FileNames
<1> DEFINE images == dialog.card.images
           n == NextImageIndex(images)
<1>1. images \in Seq(Images) /\ dialog.card.title \in Titles /\ dialog.id \in Ids
  BY OpenDialog
<1>2. n \in Indices
  <2>1. CASE images = <<>>
    BY <2>1, CollectionAssumption DEF NextImageIndex, Indices
  <2>2. CASE images # <<>>
    <3>1. images[Len(images)] \in Images
      BY <1>1, <2>2
    <3>2. ParseIndex(images[Len(images)].file) + 1 \in Indices
      BY <3>1, IndicesWrap DEF Images
    <3> QED BY <2>2, <3>2 DEF NextImageIndex
  <2> QED BY <2>1, <2>2
<1> HIDE DEF n
<1>3. Target \in FileNames
  <2>1. Target \in {CreateName(dialog.card.title, n), PersistedName(dialog.id, dialog.card.title, n)}
    BY DEF Target, BuildTargetName, n
  <2> QED BY <1>1, <1>2, <2>1, NamesAreFileNames
<1> QED BY <1>2, <1>3 DEF n

\* Opening the dialog.
LEMMA OpeningIsTyped ==
    ASSUME TypeInv, NEW t \in Titles, NEW i \in Ids, OpenCreate(t) \/ OpenEdit(i)
    PROVE  TypeInv'
<1>1. [title |-> t, images |-> <<>>] \in GoodCards
  <2>1. <<>> \in Seq(Images) /\ Len(<<>>) = 0 /\ MaxImages \in Nat
    BY CollectionAssumption
  <2>2. [title |-> t, images |-> <<>>].images = <<>>
    OBVIOUS
  <2> QED BY <2>1, <2>2 DEF GoodCards, Cards
<1>2. DialogTyped(dialog')
  <2>1. CASE OpenCreate(t)
    <3>1. dialog' = [mode |-> "create", id |-> 0, card |-> [title |-> t, images |-> <<>>],
                     pruned |-> FALSE]
      BY <2>1 DEF OpenCreate, Closed
    <3>2. 0 \in Ids
      BY CollectionAssumption DEF Ids
    <3> QED BY <1>1, <3>1, <3>2 DEF DialogTyped
  <2>2. CASE OpenEdit(i)
    BY <2>2 DEF OpenEdit, DialogTyped, TypeInv, StoreTyped
  <2> QED BY <2>1, <2>2
<1> QED BY <1>2 DEF OpenCreate, OpenEdit, TypeInv, store

\* Changing the set or the name in the dialog.
LEMMA RetitleIsTyped ==
    ASSUME TypeInv, NEW t \in Titles, Retitle(t)
    PROVE  /\ TypeInv' /\ dialog # Closed /\ dialog' # Closed
           /\ dialog'.card.images = dialog.card.images
           /\ dialog'.mode = dialog.mode /\ dialog'.id = dialog.id /\ dialog'.pruned = dialog.pruned
<1> DEFINE c == [dialog.card EXCEPT !.title = t]
<1>1. dialog # Closed /\ dialog' = [dialog EXCEPT !.card = c]
  BY DEF Retitle
<1>2. dialog \in [mode : {"create", "edit"}, id : Ids, card : GoodCards, pruned : BOOLEAN]
  BY <1>1, OpenDialog
<1>3. c \in GoodCards /\ c.images = dialog.card.images
  BY <1>2 DEF GoodCards, Cards
<1> HIDE DEF c
<1>4. dialog' \in [mode : {"create", "edit"}, id : Ids, card : GoodCards, pruned : BOOLEAN]
        /\ dialog'.card.images = dialog.card.images
        /\ dialog'.mode = dialog.mode /\ dialog'.id = dialog.id /\ dialog'.pruned = dialog.pruned
  BY <1>1, <1>2, <1>3
<1>5. dialog' # Closed
  BY <1>4 DEF Closed
<1> QED BY <1>1, <1>4, <1>5 DEF Retitle, TypeInv, store, DialogTyped

\* The dialog with one image more.
LEMMA ImageIsAdded ==
    ASSUME TypeInv, dialog # Closed, Len(dialog.card.images) < MaxImages,
           NEW f \in FileNames, NEW p \in 1 .. MaxPictures,
           dialog' = [dialog EXCEPT !.card.images = Append(@, [file |-> f, picture |-> p])]
    PROVE  /\ DialogTyped(dialog') /\ dialog' # Closed
           /\ dialog'.mode = dialog.mode /\ dialog'.id = dialog.id /\ dialog'.pruned = dialog.pruned
           /\ dialog'.card.images = Append(dialog.card.images, [file |-> f, picture |-> p])
<1> DEFINE ims == Append(dialog.card.images, [file |-> f, picture |-> p])
           c == [dialog.card EXCEPT !.images = ims]
<1>1. dialog' = [dialog EXCEPT !.card = c]
  OBVIOUS
<1>2. dialog \in [mode : {"create", "edit"}, id : Ids, card : GoodCards, pruned : BOOLEAN]
        /\ dialog.card.images \in Seq(Images) /\ Len(dialog.card.images) \in Nat
  BY OpenDialog
<1>3. ims \in Seq(Images) /\ Len(ims) <= MaxImages
  <2>1. [file |-> f, picture |-> p] \in Images
    BY DEF Images
  <2>2. ims \in Seq(Images) /\ Len(ims) = Len(dialog.card.images) + 1
    BY <1>2, <2>1
  <2> QED BY <1>2, <2>2, CollectionAssumption
<1> HIDE DEF ims
<1>4. c \in GoodCards /\ c.images = ims
  BY <1>2, <1>3 DEF GoodCards, Cards
<1> HIDE DEF c
<1>5. /\ dialog' \in [mode : {"create", "edit"}, id : Ids, card : GoodCards, pruned : BOOLEAN]
      /\ dialog'.mode = dialog.mode /\ dialog'.id = dialog.id /\ dialog'.pruned = dialog.pruned
      /\ dialog'.card.images = ims
  BY <1>1, <1>2, <1>4
<1>6. dialog' # Closed
  BY <1>5 DEF Closed
<1> QED BY <1>5, <1>6 DEF DialogTyped, ims

\* What adding an image does to the dialog.
LEMMA AddImageSteps ==
    ASSUME TypeInv, AddImage
    PROVE  /\ dialog # Closed /\ UNCHANGED <<collection, readable, job, spoiled>>
           /\ pictures' \in 1 .. MaxPictures
           /\ \/ CopyFails(Target) /\ UNCHANGED dialog
              \/ /\ CopyTo(Target, pictures')
                 /\ DialogTyped(dialog') /\ dialog' # Closed
                 /\ dialog'.mode = dialog.mode /\ dialog'.id = dialog.id
                 /\ dialog'.pruned = dialog.pruned
                 /\ dialog'.card.images =
                       Append(dialog.card.images, [file |-> Target, picture |-> pictures'])
<1> DEFINE p == pictures'
<1>1. /\ dialog # Closed /\ Len(dialog.card.images) < MaxImages /\ pictures < MaxPictures
      /\ p = pictures + 1
      /\ \/ /\ CopyTo(Target, p)
            /\ dialog' = [dialog EXCEPT !.card.images = Append(@, [file |-> Target, picture |-> p])]
         \/ CopyFails(Target) /\ UNCHANGED dialog
      /\ UNCHANGED <<collection, readable, job, spoiled>>
  BY DEF AddImage, Target, store
<1>2. p \in 1 .. MaxPictures
  BY <1>1, CollectionAssumption DEF TypeInv, CountersTyped
<1>3. Target \in FileNames
  BY <1>1, TargetIsAName
<1>4. CASE /\ CopyTo(Target, p)
           /\ dialog' = [dialog EXCEPT !.card.images = Append(@, [file |-> Target, picture |-> p])]
  <2> HIDE DEF p
  <2>1. /\ DialogTyped(dialog') /\ dialog' # Closed
        /\ dialog'.mode = dialog.mode /\ dialog'.id = dialog.id /\ dialog'.pruned = dialog.pruned
        /\ dialog'.card.images = Append(dialog.card.images, [file |-> Target, picture |-> p])
    BY <1>1, <1>2, <1>3, <1>4, ImageIsAdded
  <2> QED BY <1>1, <1>2, <1>4, <2>1 DEF p
<1> QED BY <1>1, <1>2, <1>4

\* Adding an image touches its target only.
LEMMA AddImageIsTyped ==
    ASSUME TypeInv, AddImage
    PROVE  TypeInv' /\ Touched(Target)
<1>1. /\ pictures' \in 0 .. MaxPictures /\ pictures' \in Nothing .. Torn
      /\ Target \in FileNames
  BY AddImageSteps, TargetIsAName, CollectionAssumption DEF TypeInv, CountersTyped, Nothing, Torn
<1>2. Touched(Target)
  <2>1. CopyTo(Target, pictures') \/ CopyFails(Target)
    BY AddImageSteps
  <2> QED BY <1>1, <2>1, FileSteps
<1> QED BY <1>1, <1>2, AddImageSteps DEF TypeInv, Touched, CountersTyped

\* images without the k-th
Without(images, k) == [j \in 1 .. Len(images) - 1 |-> IF j < k THEN images[j] ELSE images[j + 1]]

\* Where the images come from that a removal leaves.
LEMMA WithoutIsPart ==
    ASSUME NEW X, NEW s \in Seq(X), NEW k \in DOMAIN s
    PROVE  /\ Len(s) \in Nat /\ DOMAIN Without(s, k) = 1 .. Len(s) - 1
           /\ \A j \in DOMAIN Without(s, k) :
                 /\ j \in DOMAIN s /\ j + 1 \in DOMAIN s
                 /\ Without(s, k)[j] = IF j < k THEN s[j] ELSE s[j + 1]
<1>1. Len(s) \in Nat /\ DOMAIN s = 1 .. Len(s)
  OBVIOUS
<1>2. DOMAIN Without(s, k) = 1 .. Len(s) - 1
  BY DEF Without
<1>3. \A j \in 1 .. Len(s) - 1 : Without(s, k)[j] = IF j < k THEN s[j] ELSE s[j + 1]
  BY DEF Without
<1>4. \A j \in 1 .. Len(s) - 1 : j \in 1 .. Len(s) /\ j + 1 \in 1 .. Len(s)
  BY <1>1
<1> QED BY <1>1, <1>2, <1>3, <1>4

\* Removing an image touches its file only.
LEMMA RemoveImageIsTyped ==
    ASSUME TypeInv, NEW k \in 1 .. MaxImages, RemoveImage(k)
    PROVE  /\ TypeInv' /\ Touched(dialog.card.images[k].file)
           /\ dialog # Closed /\ k \in DOMAIN dialog.card.images /\ dialog' # Closed
           /\ dialog'.mode = dialog.mode /\ dialog'.id = dialog.id /\ dialog'.pruned = TRUE
           /\ dialog'.card.images = Without(dialog.card.images, k)
<1> DEFINE ims == Without(dialog.card.images, k)
           c == [dialog.card EXCEPT !.images = ims]
<1>1. dialog # Closed /\ k \in DOMAIN dialog.card.images
  BY DEF RemoveImage
<1>2. dialog' = [dialog EXCEPT !.pruned = TRUE, !.card = c]
  BY DEF RemoveImage, Without
<1>3. /\ dialog \in [mode : {"create", "edit"}, id : Ids, card : GoodCards, pruned : BOOLEAN]
      /\ dialog.card.images \in Seq(Images) /\ Len(dialog.card.images) \in Nat
      /\ Len(dialog.card.images) <= MaxImages
      /\ dialog.card.images[k].file \in FileNames
  BY <1>1, OpenDialog
<1>4. ims \in Seq(Images) /\ Len(ims) <= MaxImages
  <2> DEFINE n == Len(dialog.card.images) - 1
  <2>1. n \in Nat /\ n <= MaxImages
    BY <1>1, <1>3, CollectionAssumption
  <2>2. \A j \in 1 .. n : ims[j] \in Images
    BY <1>1, <1>3 DEF Without
  <2>3. ims \in [1 .. n -> Images]
    BY <2>2 DEF Without
  <2> HIDE DEF n, ims
  <2>4. ims \in Seq(Images) /\ Len(ims) = n
    BY <2>1, <2>3
  <2> QED BY <2>1, <2>4
<1> HIDE DEF ims
<1>5. c \in GoodCards /\ c.images = ims
  BY <1>3, <1>4 DEF GoodCards, Cards
<1> HIDE DEF c
<1>6. /\ dialog' \in [mode : {"create", "edit"}, id : Ids, card : GoodCards, pruned : BOOLEAN]
      /\ dialog'.mode = dialog.mode /\ dialog'.id = dialog.id /\ dialog'.pruned = TRUE
      /\ dialog'.card.images = ims
  BY <1>2, <1>3, <1>5
<1>7. dialog' # Closed
  BY <1>6 DEF Closed
<1>8. Touched(dialog.card.images[k].file)
  <2>1. Nothing \in Nothing .. Torn
    BY CollectionAssumption DEF Nothing, Torn
  <2> QED BY <1>3, <2>1, FileSteps DEF RemoveImage
<1> QED BY <1>1, <1>6, <1>7, <1>8 DEF TypeInv, DialogTyped, Touched, RemoveImage, store,
                                      CountersTyped, ims

\* Closing the dialog.
LEMMA CancelIsTyped ==
    ASSUME TypeInv, Cancel
    PROVE  TypeInv'
<1>1. dialog # Closed => dialog.id \in Ids
  BY OpenDialog
<1>2. Abandoned \subseteq Ids
  BY <1>1 DEF Abandoned, Closed
<1> QED BY <1>2 DEF Cancel, TypeInv, DialogTyped, CountersTyped, store

\* Adding the record; the upgrade starts with the first renaming there is.
LEMMA AcceptCreateIsTyped ==
    ASSUME TypeInv, AcceptCreate
    PROVE  TypeInv'
<1> DEFINE id == NextId(Stored)
           c  == [collection EXCEPT ![id] = IF @ = NoCard THEN dialog.card ELSE @]
           j  == [pc |-> "copy", id |-> id, card |-> dialog.card, n |-> 1]
<1>1. dialog # Closed /\ id \in Ids /\ dialog' = Closed
  BY DEF AcceptCreate, Closed
<1>2. dialog.card \in GoodCards
  BY <1>1, OpenDialog
<1>3. /\ \/ Saved(c) /\ job' = IF RenamesOf(id, dialog.card) = <<>> THEN Rest ELSE j
         \/ SaveFails /\ UNCHANGED job
      /\ UNCHANGED <<files, pictures, spoiled>>
  BY DEF AcceptCreate
<1> HIDE DEF id
<1>4. StoreTyped(c)
  BY <1>2 DEF TypeInv, StoreTyped
<1>5. StoreTyped(collection') /\ readable' \in BOOLEAN /\ accidents' \in 0 .. MaxAccidents
  BY <1>3, <1>4, SaveSteps
<1>6. RenamesOf(id, dialog.card) # <<>> => JobTyped(j)
  <2> DEFINE R == RenamesOf(id, dialog.card)
  <2>1. R \in Seq([old : FileNames, new : FileNames]) /\ Len(R) \in Nat
    BY <1>1, <1>2, RenamesAreNames
  <2> HIDE DEF R
  <2>2. R # <<>> => 1 \in 1 .. Len(R)
    BY <2>1
  <2>3. 1 \in 0 .. MaxImages + 1
    BY CollectionAssumption
  <2> QED BY <1>1, <1>2, <2>2, <2>3 DEF JobTyped, HasWork, R
<1> HIDE DEF c, j
<1>7. JobTyped(job')
  BY <1>3, <1>6 DEF JobTyped, TypeInv
<1> QED BY <1>1, <1>3, <1>5, <1>7 DEF TypeInv, DialogTyped, CountersTyped

\* Saving the edited record.
LEMMA AcceptEditIsTyped ==
    ASSUME TypeInv, AcceptEdit
    PROVE  TypeInv'
<1> DEFINE c == [collection EXCEPT ![dialog.id] = dialog.card]
<1>1. dialog # Closed /\ dialog' = Closed
  BY DEF AcceptEdit, Closed
<1>2. dialog.card \in GoodCards /\ dialog.id \in Ids
  BY <1>1, OpenDialog
<1>3. StoreTyped(c)
  BY <1>2 DEF TypeInv, StoreTyped
<1>4. Saved(c) \/ SaveFails
  BY DEF AcceptEdit
<1> HIDE DEF c
<1>5. StoreTyped(collection') /\ readable' \in BOOLEAN /\ accidents' \in 0 .. MaxAccidents
  BY <1>3, <1>4, SaveSteps
<1>6. spoiled' \subseteq Ids
  BY <1>2 DEF AcceptEdit, TypeInv, CountersTyped, Abandoned
<1> QED BY <1>1, <1>5, <1>6 DEF AcceptEdit, TypeInv, DialogTyped, CountersTyped

\* The renaming a job is at, while it has any.
LEMMA RenamingAtHand ==
    ASSUME TypeInv, job.pc \in {"copy", "undo", "removeOld"}
    PROVE  /\ Len(Renamings) \in Nat /\ Len(Renamings) <= MaxImages /\ MaxImages \in Nat
           /\ job.n \in 1 .. Len(Renamings)
           /\ \A k \in 1 .. Len(Renamings) :
                 Renamings[k].old \in FileNames /\ Renamings[k].new \in FileNames
<1> DEFINE R == [old : FileNames, new : FileNames]
<1>1. job.pc # "rest" /\ job.id \in Ids /\ job.card \in GoodCards /\ HasWork(job)
        /\ Len(job.card.images) \in Nat /\ Len(job.card.images) <= MaxImages
  BY RunningJob
<1>2. Renamings \in Seq(R) /\ Len(Renamings) \in Nat /\ Len(Renamings) <= Len(job.card.images)
  BY <1>1, RenamesAreNames DEF Renamings
<1>3. \A k \in 1 .. Len(Renamings) : Renamings[k] \in R
  <2> HIDE DEF R
  <2> QED BY <1>2
<1>4. MaxImages \in Nat /\ job.n \in 1 .. Len(Renamings)
  BY <1>1, CollectionAssumption DEF HasWork, Renamings
<1> QED BY <1>1, <1>2, <1>3, <1>4

\* Giving a job up.
LEMMA SpoilIsTyped ==
    ASSUME TypeInv, job.pc # "rest", Spoil
    PROVE  JobTyped(job') /\ spoiled' \subseteq Ids
BY RunningJob DEF Spoil, JobTyped, TypeInv, CountersTyped

\* Copying a file to its new name touches the new name only.
LEMMA CopyNameIsTyped ==
    ASSUME TypeInv, CopyName
    PROVE  TypeInv' /\ Touched(Rename.new)
<1>1. job.pc = "copy" /\ job.pc # "rest" /\ UNCHANGED <<collection, readable, dialog, pictures, spoiled>>
  BY DEF CopyName, store
<1>2. /\ Len(Renamings) \in Nat /\ Len(Renamings) <= MaxImages /\ MaxImages \in Nat
      /\ job.n \in 1 .. Len(Renamings)
      /\ Rename.old \in FileNames /\ Rename.new \in FileNames
  BY <1>1, RenamingAtHand DEF Rename
<1>3. job # Rest /\ JobTyped(job)
  BY <1>1, RunningJob DEF TypeInv
<1>4. JobTyped(job')
  <2>1. \E pc \in {"copy", "undo", "removeOld"} : \E n \in 1 .. Len(Renamings) : Proceed(pc, n)
    BY <1>2 DEF CopyName
  <2>2. PICK pc \in {"copy", "undo", "removeOld"} : \E n \in 1 .. Len(Renamings) : Proceed(pc, n)
    BY <2>1
  <2>3. PICK n \in 1 .. Len(Renamings) : Proceed(pc, n)
    BY <2>2
  <2>4. n \in 0 .. MaxImages + 1
    BY <1>2
  <2> QED BY <1>3, <2>3, <2>4, JobGoesOn
<1>5. Touched(Rename.new)
  <2>1. files[Rename.old] \in Nothing .. Torn
    BY <1>2 DEF TypeInv, FilesTyped
  <2>2. CopyTo(Rename.new, files[Rename.old]) \/ CopyFails(Rename.new)
    BY DEF CopyName
  <2> QED BY <1>2, <2>1, <2>2, FileSteps
<1> QED BY <1>1, <1>4, <1>5 DEF TypeInv, Touched, CountersTyped

\* Undoing a copy touches its new name only, and ends at the first.
LEMMA UndoCopyIsTyped ==
    ASSUME TypeInv, UndoCopy
    PROVE  /\ TypeInv'
           /\ \/ job.n = 1 /\ Spoil /\ files' = files
              \/ job.n - 1 \in 1 .. Len(Renamings) /\ Touched(Renamings[job.n - 1].new)
                   /\ Proceed("undo", job.n - 1) /\ spoiled' = spoiled
<1>1. job.pc = "undo" /\ job.pc # "rest" /\ UNCHANGED <<collection, readable, dialog, pictures>>
  BY DEF UndoCopy, store
<1>2. /\ Len(Renamings) \in Nat /\ Len(Renamings) <= MaxImages /\ MaxImages \in Nat
      /\ job.n \in 1 .. Len(Renamings)
      /\ \A k \in 1 .. Len(Renamings) : Renamings[k].new \in FileNames
  BY <1>1, RenamingAtHand
<1>3. job # Rest /\ JobTyped(job)
  BY <1>1, RunningJob DEF TypeInv
<1>4. CASE job.n = 1
  <2>1. Spoil /\ UNCHANGED <<files, accidents>>
    BY <1>4 DEF UndoCopy
  <2>2. JobTyped(job') /\ spoiled' \subseteq Ids
    BY <1>1, <2>1, SpoilIsTyped
  <2> QED BY <1>1, <1>4, <2>1, <2>2 DEF TypeInv, CountersTyped
<1>5. CASE job.n # 1
  <2> DEFINE m == job.n - 1
  <2>1. m \in 1 .. Len(Renamings) /\ m \in 0 .. MaxImages + 1
    BY <1>2, <1>5
  <2>2. /\ Proceed("undo", m) /\ UNCHANGED spoiled
        /\ RemoveFile(Renamings[m].new) \/ RemoveFails(Renamings[m].new)
    BY <1>5 DEF UndoCopy
  <2> HIDE DEF m
  <2>3. JobTyped(job')
    BY <1>3, <2>1, <2>2, JobGoesOn
  <2>4. Touched(Renamings[m].new)
    <3>1. Nothing \in Nothing .. Torn /\ Renamings[m].new \in FileNames
      BY <1>2, <2>1, CollectionAssumption DEF Nothing, Torn
    <3> QED BY <2>2, <3>1, FileSteps
  <2> QED BY <1>1, <2>1, <2>2, <2>3, <2>4 DEF TypeInv, Touched, CountersTyped, m
<1> QED BY <1>4, <1>5

\* Removing an old name touches it only, and ends at the last.
LEMMA RemoveOldNameIsTyped ==
    ASSUME TypeInv, RemoveOldName
    PROVE  TypeInv' /\ Touched(Rename.old)
<1>1. job.pc = "removeOld" /\ job.pc # "rest" /\ UNCHANGED <<collection, readable, dialog, pictures>>
  BY DEF RemoveOldName, store
<1>2. /\ Len(Renamings) \in Nat /\ Len(Renamings) <= MaxImages /\ MaxImages \in Nat
      /\ job.n \in 1 .. Len(Renamings)
      /\ Rename.old \in FileNames
  BY <1>1, RenamingAtHand DEF Rename
<1>3. job # Rest /\ JobTyped(job)
  BY <1>1, RunningJob DEF TypeInv
<1>4. Touched(Rename.old)
  <2>1. Nothing \in Nothing .. Torn
    BY CollectionAssumption DEF Nothing, Torn
  <2>2. RemoveFile(Rename.old) \/ RemoveFails(Rename.old)
    BY DEF RemoveOldName
  <2> QED BY <1>2, <2>1, <2>2, FileSteps
<1>5. JobTyped(job') /\ spoiled' \subseteq Ids
  <2>1. CASE Spoil
    BY <1>1, <2>1, SpoilIsTyped
  <2>2. CASE /\ IF job.n = Len(Renamings) THEN Proceed("update", 0)
                ELSE Proceed("removeOld", job.n + 1)
             /\ UNCHANGED spoiled
    <3>1. CASE job.n = Len(Renamings)
      <4>1. Proceed("update", 0) /\ 0 \in 0 .. MaxImages + 1
        BY <1>2, <2>2, <3>1
      <4>2. JobTyped(job')
        BY <1>3, <4>1, JobGoesOn
      <4> QED BY <2>2, <4>2 DEF TypeInv, CountersTyped
    <3>2. CASE job.n # Len(Renamings)
      <4> DEFINE m == job.n + 1
      <4>1. Proceed("removeOld", m) /\ m \in 1 .. Len(Renamings) /\ m \in 0 .. MaxImages + 1
        BY <1>2, <2>2, <3>2
      <4> HIDE DEF m
      <4>2. JobTyped(job')
        BY <1>3, <4>1, JobGoesOn
      <4> QED BY <2>2, <4>2 DEF TypeInv, CountersTyped
    <3> QED BY <3>1, <3>2
  <2> QED BY <2>1, <2>2 DEF RemoveOldName
<1> QED BY <1>1, <1>4, <1>5 DEF TypeInv, Touched, CountersTyped

\* The saves that end a job.
LEMMA SavingJobsAreTyped ==
    ASSUME TypeInv, SaveNames \/ EraseRecord
    PROVE  TypeInv'
<1> DEFINE c == IF job.pc = "update"
                THEN [collection EXCEPT ![job.id] = Normalized(job.id, job.card)]
                ELSE [collection EXCEPT ![job.id] = NoCard]
<1>1. job.pc # "rest" /\ UNCHANGED <<files, dialog, pictures>>
  BY DEF SaveNames, EraseRecord
<1>2. job.id \in Ids /\ job.card \in GoodCards
  BY <1>1, RunningJob
<1>3. StoreTyped(c)
  <2>1. Normalized(job.id, job.card) \in GoodCards
    BY <1>2, NormalizedCard
  <2> QED BY <1>2, <2>1 DEF TypeInv, StoreTyped
<1>4. Saved(c) \/ SaveFails
  BY DEF SaveNames, EraseRecord
<1> HIDE DEF c
<1>5. StoreTyped(collection') /\ readable' \in BOOLEAN /\ accidents' \in 0 .. MaxAccidents
  BY <1>3, <1>4, SaveSteps
<1>6. job' = Rest /\ spoiled' \subseteq Ids
  BY <1>2 DEF SaveNames, EraseRecord, Spoil, TypeInv, CountersTyped
<1> QED BY <1>1, <1>5, <1>6 DEF TypeInv, JobTyped, CountersTyped

\* Starting a deletion.
LEMMA DeletingIsTyped ==
    ASSUME TypeInv, NEW i \in Ids, Delete(i)
    PROVE  TypeInv'
<1>1. collection[i] \in GoodCards
  BY DEF Delete, TypeInv, StoreTyped
<1>2. Len(collection[i].images) \in Nat /\ 1 \in 1 .. Len(collection[i].images) + 1
  <2>1. collection[i].images \in Seq(Images)
    BY <1>1 DEF GoodCards, Cards
  <2>2. Len(collection[i].images) \in Nat
    BY <2>1
  <2> QED BY <2>2
<1>3. 1 \in 0 .. MaxImages + 1
  BY CollectionAssumption
<1>4. JobTyped(job')
  BY <1>1, <1>2, <1>3 DEF Delete, JobTyped, HasWork
<1> QED BY <1>4 DEF Delete, TypeInv, store

\* Deleting the image of a record touches its file only, and ends after the last.
LEMMA DeleteImageIsTyped ==
    ASSUME TypeInv, DeleteImage
    PROVE  /\ TypeInv' /\ job'.id = job.id /\ job'.card = job.card
           /\ \/ files' = files
              \/ job.n \in DOMAIN job.card.images /\ Touched(job.card.images[job.n].file)
<1>1. job.pc = "removeImages" /\ job.pc # "rest"
        /\ UNCHANGED <<collection, readable, dialog, pictures, spoiled>>
  BY DEF DeleteImage, store
<1>2. /\ job # Rest /\ HasWork(job) /\ JobTyped(job) /\ Len(job.card.images) \in Nat
      /\ job.card.images \in Seq(Images)
      /\ Len(job.card.images) <= MaxImages /\ MaxImages \in Nat
      /\ \A k \in DOMAIN job.card.images : job.card.images[k].file \in FileNames
  BY <1>1, RunningJob, CollectionAssumption DEF TypeInv
<1>3. job.n \in 1 .. Len(job.card.images) + 1
  BY <1>1, <1>2 DEF HasWork
<1>4. CASE job.n > Len(job.card.images)
  <2>1. Proceed("erase", 0) /\ UNCHANGED <<files, accidents>> /\ 0 \in 0 .. MaxImages + 1
    BY <1>2, <1>4 DEF DeleteImage
  <2>2. JobTyped(job') /\ job'.id = job.id /\ job'.card = job.card
    BY <1>2, <2>1, JobGoesOn
  <2> QED BY <1>1, <2>1, <2>2 DEF TypeInv, CountersTyped
<1>5. CASE ~ (job.n > Len(job.card.images))
  <2> DEFINE m == job.n + 1
             f == job.card.images[job.n].file
  <2>1. m \in 1 .. Len(job.card.images) + 1 /\ m \in 0 .. MaxImages + 1
          /\ job.n \in DOMAIN job.card.images
    BY <1>2, <1>3, <1>5
  <2>2. Proceed("removeImages", m) /\ (RemoveFile(f) \/ RemoveFails(f))
    BY <1>5 DEF DeleteImage
  <2> HIDE DEF m, f
  <2>3. JobTyped(job') /\ job'.id = job.id /\ job'.card = job.card
    BY <1>2, <2>1, <2>2, JobGoesOn
  <2>4. Touched(f)
    <3>1. Nothing \in Nothing .. Torn /\ f \in FileNames
      BY <1>2, <2>1, CollectionAssumption DEF Nothing, Torn, f
    <3> QED BY <2>2, <3>1, FileSteps
  <2> QED BY <1>1, <2>1, <2>3, <2>4 DEF TypeInv, Touched, CountersTyped, f
<1> QED BY <1>4, <1>5

\* Renaming a set.
LEMMA SyncIsTyped ==
    ASSUME TypeInv, NEW old \in Titles, NEW new \in Titles, SyncSets(old, new)
    PROVE  TypeInv'
<1> DEFINE c == [i \in Ids |-> IF i \in Affected(old) THEN [collection[i] EXCEPT !.title = new]
                               ELSE collection[i]]
<1>1. \A i \in Affected(old) : [collection[i] EXCEPT !.title = new] \in GoodCards
  BY DEF Affected, Stored, TypeInv, StoreTyped, GoodCards, Cards
<1>2. StoreTyped(c)
  BY <1>1 DEF TypeInv, StoreTyped
<1>3. Saved(c) \/ SaveFails
  BY DEF SyncSets
<1> HIDE DEF c
<1>4. StoreTyped(collection') /\ readable' \in BOOLEAN /\ accidents' \in 0 .. MaxAccidents
  BY <1>2, <1>3, SaveSteps
<1> QED BY <1>4 DEF SyncSets, TypeInv, CountersTyped

\* The process dies.
LEMMA CrashIsTyped ==
    ASSUME TypeInv, Crash
    PROVE  TypeInv'
<1>1. (dialog.mode = "edit" => dialog.id \in Ids) /\ (job.pc # "rest" => job.id \in Ids)
  BY OpenDialog, RunningJob DEF Closed
<1>2. Unsettled \subseteq Ids
  BY <1>1 DEF Unsettled, Abandoned, Idle
<1>3. accidents' \in 0 .. MaxAccidents
  BY CollectionAssumption DEF Crash, Accident, TypeInv, CountersTyped
<1> QED BY <1>2, <1>3 DEF Crash, TypeInv, DialogTyped, JobTyped, CountersTyped, store

\* The types, for every step.
LEMMA StepsAreTyped == TypeInv /\ [Next]_vars => TypeInv'
<1> SUFFICES ASSUME TypeInv, [Next]_vars PROVE TypeInv'
  OBVIOUS
<1>1. 0 \in Ids
  BY CollectionAssumption DEF Ids
<1>2. ASSUME NEW t \in Titles, OpenCreate(t) \/ Retitle(t) PROVE TypeInv'
  BY <1>1, <1>2, OpeningIsTyped, RetitleIsTyped
<1>3. ASSUME NEW i \in Ids, OpenEdit(i) PROVE TypeInv'
  <2>1. collection[i] \in GoodCards
    BY <1>3 DEF OpenEdit, TypeInv, StoreTyped
  <2>2. collection[i].title \in Titles
    BY <2>1 DEF GoodCards, Cards
  <2> QED BY <1>3, <2>2, OpeningIsTyped
<1>4. ASSUME NEW i \in Ids, Delete(i) PROVE TypeInv'
  BY <1>4, DeletingIsTyped
<1>5. CASE AddImage
  BY <1>5, AddImageIsTyped
<1>6. ASSUME NEW k \in 1 .. MaxImages, RemoveImage(k) PROVE TypeInv'
  BY <1>6, RemoveImageIsTyped
<1>7. CASE Cancel \/ AcceptCreate \/ AcceptEdit
  BY <1>7, CancelIsTyped, AcceptCreateIsTyped, AcceptEditIsTyped
<1>8. CASE CopyName \/ UndoCopy \/ RemoveOldName \/ SaveNames
  BY <1>8, CopyNameIsTyped, UndoCopyIsTyped, RemoveOldNameIsTyped, SavingJobsAreTyped
<1>9. CASE DeleteImage \/ EraseRecord
  BY <1>9, DeleteImageIsTyped, SavingJobsAreTyped
<1>10. ASSUME NEW old \in Titles, NEW new \in Titles, SyncSets(old, new) PROVE TypeInv'
  BY <1>10, SyncIsTyped
<1>11. CASE Crash
  BY <1>11, CrashIsTyped
<1>12. CASE UNCHANGED vars
  BY <1>12 DEF vars, TypeInv
<1> QED BY <1>2, <1>3, <1>4, <1>5, <1>6, <1>7, <1>8, <1>9, <1>10, <1>11, <1>12 DEF Next

\* The types, at first.
LEMMA InitIsTyped == Init => TypeInv
<1> SUFFICES ASSUME Init PROVE TypeInv
  OBVIOUS
<1>1. Nothing \in Nothing .. Torn /\ 0 \in 0 .. MaxPictures /\ 0 \in 0 .. MaxAccidents
  BY CollectionAssumption DEF Nothing, Torn
<1> QED BY <1>1 DEF Init, TypeInv, StoreTyped, FilesTyped, DialogTyped, JobTyped, CountersTyped

\* Whatever fails: the dialog has a record while it is open, a job has one while it runs,
\* no image index and no step of a job runs out of its list.
THEOREM TypeCorrect == Spec => []TypeOK
<1>1. Spec => []TypeInv
  BY InitIsTyped, StepsAreTyped, PTL DEF Spec
<1>2. TypeInv => TypeOK
  BY TypesFollow
<1> QED BY <1>1, <1>2, PTL

-----------------------------------------------------------------------------
(***************************************************************************)
(* Which records a step leaves as they are.                                *)
(***************************************************************************)
Left(i) ==
    i \in Stored' => /\ i \in Stored /\ collection'[i].images = collection[i].images
                     /\ i \in Settled' => i \in Settled

\* A record is settled if nothing was left of it and nothing is done to it.
LEMMA WhoIsSettled ==
    \A i : i \in Settled <=> /\ i \in Stored /\ i \notin spoiled
                             /\ ~ (dialog.mode = "edit" /\ dialog.pruned /\ i = dialog.id)
                             /\ Idle \/ i # job.id
BY DEF Settled, Unsettled, Abandoned

\* The same of the next state.
LEMMA WhoIsSettledNext ==
    \A i : i \in Settled' <=> /\ i \in Stored' /\ i \notin spoiled'
                              /\ ~ (dialog'.mode = "edit" /\ dialog'.pruned /\ i = dialog'.id)
                              /\ job'.pc = "rest" \/ i # job'.id
BY DEF Settled, Unsettled, Abandoned, Idle

\* A record is stored if it is there.
LEMMA WhoIsStored ==
    /\ \A i : i \in Stored  <=> i \in Ids /\ collection[i] # NoCard
    /\ \A i : i \in Stored' <=> i \in Ids /\ collection'[i] # NoCard
BY DEF Stored

\* What a save leaves of a record.
LEMMA SavedRecords ==
    ASSUME NEW c, Saved(c) \/ SaveFails, NEW i \in Stored'
    PROVE  (i \in Stored /\ collection'[i] = collection[i]) \/ (Saved(c) /\ collection'[i] = c[i])
BY WhoIsStored DEF Saved, SaveFails, store

\* The dialog changes no record, and settles none.
LEMMA DialogLeavesRecords ==
    ASSUME TypeInv, UpgradeWorksOnItsRecord, DialogStep, NEW i
    PROVE  Left(i)
<1>1. Idle /\ UNCHANGED <<collection, job>>
  BY DialogStepsLeaveTheStore
<1>2. CASE spoiled' = spoiled /\ (dialog'.mode = "edit" /\ dialog.mode = "edit" =>
                                   dialog'.id = dialog.id /\ (dialog.pruned => dialog'.pruned))
                 /\ (dialog.mode = "edit" => dialog'.mode = "edit")
  BY <1>1, <1>2, WhoIsSettled, WhoIsSettledNext, WhoIsStored DEF Left, Idle
<1>3. ASSUME NEW t \in Titles, OpenCreate(t) PROVE Left(i)
  BY <1>2, <1>3 DEF OpenCreate, Closed
<1>4. ASSUME NEW t \in Titles, Retitle(t) PROVE Left(i)
  BY <1>2, <1>4, RetitleIsTyped DEF Retitle
<1>5. ASSUME NEW j \in Ids, OpenEdit(j) PROVE Left(i)
  BY <1>2, <1>5 DEF OpenEdit, Closed
<1>6. CASE AddImage
  BY <1>2, <1>6, AddImageSteps
<1>7. ASSUME NEW k \in 1 .. MaxImages, RemoveImage(k) PROVE Left(i)
  BY <1>2, <1>7, RemoveImageIsTyped DEF RemoveImage
<1>8. CASE Cancel
  BY <1>1, <1>8, WhoIsSettled, WhoIsSettledNext, WhoIsStored DEF Left, Idle, Cancel, Closed, Abandoned
<1> QED BY <1>3, <1>4, <1>5, <1>6, <1>7, <1>8 DEF DialogStep

\* A step of a job that goes on.
JobGoes ==
    /\ job.pc # "rest" /\ job'.pc # "rest" /\ job'.id = job.id /\ job'.card = job.card
    /\ Upgrading' => Upgrading
    /\ job'.pc = "removeImages" => job.pc = "removeImages"
    /\ UNCHANGED <<collection, dialog, spoiled>>

\* A job that goes on or is given up changes no record, and settles none.
LEMMA JobLeavesRecords ==
    ASSUME NEW i
    PROVE  /\ JobGoes => Left(i)
           /\ UNCHANGED <<collection, dialog>> /\ job.pc # "rest" /\ Spoil => Left(i)
<1>1. JobGoes => Left(i)
  BY WhoIsSettled, WhoIsSettledNext, WhoIsStored DEF Left, JobGoes, Idle
<1>2. UNCHANGED <<collection, dialog>> /\ job.pc # "rest" /\ Spoil => Left(i)
  BY WhoIsSettled, WhoIsSettledNext, WhoIsStored DEF Left, Spoil, Idle, Rest
<1> QED BY <1>1, <1>2

\* The saves that end a job.
LEMMA LastSaveLeavesRecords ==
    ASSUME TypeInv, NEW i, EraseRecord \/ SaveNames
    PROVE  Left(i) \/ (SaveNames /\ i = job.id /\ Saved([collection EXCEPT ![job.id] = Normalized(job.id, job.card)]))
<1> DEFINE c == [collection EXCEPT ![job.id] = IF SaveNames THEN Normalized(job.id, job.card) ELSE NoCard]
<1>1. /\ job' = Rest /\ job.pc # "rest" /\ UNCHANGED dialog
      /\ \/ Saved(c) /\ (IF SaveNames THEN spoiled' = spoiled ELSE spoiled' = spoiled \ {job.id})
         \/ SaveFails /\ spoiled' = spoiled \cup {job.id}
  BY DEF EraseRecord, SaveNames, Spoil
<1> SUFFICES ASSUME i \in Stored', ~ (SaveNames /\ i = job.id /\ Saved(c)) PROVE Left(i)
  BY DEF Left
<1>2. DOMAIN collection = Ids /\ i \in Ids
  BY WhoIsStored DEF TypeInv, StoreTyped
<1>3. i \in Stored /\ collection'[i] = collection[i] /\ (Saved(c) => i # job.id)
  <2>1. CASE i \in Stored /\ collection'[i] = collection[i]
    <3>1. Saved(c) /\ ~ SaveNames => collection'[job.id] = NoCard \/ job.id \notin Ids
      BY <1>2 DEF Saved
    <3> QED BY <1>2, <2>1, <3>1, WhoIsStored
  <2>2. CASE Saved(c) /\ collection'[i] = c[i]
    <3>1. i # job.id
      BY <1>2, <2>2, WhoIsStored
    <3>2. c[i] = collection[i]
      BY <1>2, <3>1
    <3> QED BY <1>2, <2>2, <3>1, <3>2, WhoIsStored
  <2>3. Saved(c) \/ SaveFails
    BY <1>1
  <2> HIDE DEF c
  <2> QED BY <2>1, <2>2, <2>3, SavedRecords
<1> HIDE DEF c
<1>4. i \in Settled' => i \in Settled
  <2>1. CASE Saved(c)
    BY <1>1, <1>3, <2>1, WhoIsSettled, WhoIsSettledNext DEF Rest, Idle
  <2>2. CASE ~ Saved(c)
    BY <1>1, <1>3, <2>2, WhoIsSettled, WhoIsSettledNext DEF Rest, Idle
  <2> QED BY <2>1, <2>2
<1> QED BY <1>3, <1>4 DEF Left

\* Accepting the dialog changes its own record only.
LEMMA AcceptLeavesRecords ==
    ASSUME TypeInv, UpgradeWorksOnItsRecord, NEW i, AcceptCreate \/ AcceptEdit
    PROVE  \/ Left(i)
           \/ /\ AcceptCreate /\ i = NextId(Stored)
              /\ Saved([collection EXCEPT ![i] = IF @ = NoCard THEN dialog.card ELSE @])
           \/ /\ AcceptEdit /\ i = dialog.id
              /\ Saved([collection EXCEPT ![i] = dialog.card])
<1>1. DOMAIN collection = Ids
  BY DEF TypeInv, StoreTyped
<1>2. CASE AcceptCreate
  <2> DEFINE id == NextId(Stored)
             c == [collection EXCEPT ![id] = IF @ = NoCard THEN dialog.card ELSE @]
             Same == i \in Stored /\ collection'[i] = collection[i]
  <2>1. spoiled' = spoiled /\ dialog.mode = "create" /\ dialog'.mode = "closed" /\ Idle
    BY <1>2 DEF AcceptCreate, UpgradeWorksOnItsRecord, Closed
  <2>2. Same => (i \in Settled' => i \in Settled)
    BY <2>1, WhoIsSettled, WhoIsSettledNext
  <2>3. CASE Saved(c)
    <3>1. i # id => c[i] = collection[i]
      BY <1>1
    <3> HIDE DEF c
    <3>2. i \in Stored' => Same \/ collection'[i] = c[i]
      BY <2>3, SavedRecords
    <3>3. i # id => Left(i)
      BY <2>2, <3>1, <3>2, WhoIsStored DEF Left
    <3>4. i = id => Saved([collection EXCEPT ![i] = IF @ = NoCard THEN dialog.card ELSE @])
      BY <2>3 DEF c
    <3> QED BY <1>2, <3>3, <3>4
  <2>4. CASE SaveFails
    <3>1. i \in Stored' => Same
      BY <2>4, WhoIsStored DEF SaveFails, store
    <3> QED BY <2>2, <3>1 DEF Left
  <2>5. Saved(c) \/ SaveFails
    BY <1>2 DEF AcceptCreate
  <2> QED BY <2>3, <2>4, <2>5
<1>3. CASE AcceptEdit
  <2> DEFINE c == [collection EXCEPT ![dialog.id] = dialog.card]
             Same == i \in Stored /\ collection'[i] = collection[i]
  <2>1. /\ dialog.mode = "edit" /\ dialog'.mode = "closed" /\ Idle /\ job' = job
        /\ \/ Saved(c) /\ spoiled' = spoiled
           \/ SaveFails /\ spoiled' = spoiled \cup Abandoned
    BY <1>3 DEF AcceptEdit, UpgradeWorksOnItsRecord, Closed
  <2> HIDE DEF c
  <2>2. CASE Saved(c) /\ spoiled' = spoiled
    <3>1. i # dialog.id => c[i] = collection[i]
      BY <1>1 DEF c
    <3>2. i \in Stored' => Same \/ collection'[i] = c[i]
      BY <2>2, SavedRecords
    <3>3. i # dialog.id /\ Same => (i \in Settled' => i \in Settled)
      BY <2>1, <2>2, WhoIsSettled, WhoIsSettledNext
    <3>4. i # dialog.id => Left(i)
      BY <3>1, <3>2, <3>3, WhoIsStored DEF Left
    <3>5. i = dialog.id => Saved([collection EXCEPT ![i] = dialog.card])
      BY <2>2 DEF c
    <3> QED BY <1>3, <3>4, <3>5
  <2>3. CASE SaveFails /\ spoiled' = spoiled \cup Abandoned
    <3>1. i \in Stored' => Same
      BY <2>3, WhoIsStored DEF SaveFails, store
    <3>2. Same => (i \in Settled' => i \in Settled)
      BY <2>1, <2>3, WhoIsSettled, WhoIsSettledNext DEF Abandoned
    <3> QED BY <3>1, <3>2 DEF Left
  <2> QED BY <2>1, <2>2, <2>3
<1> QED BY <1>2, <1>3

\* Starting a deletion, renaming a set or dying changes no images, and settles no record.
LEMMA OtherStepsLeaveRecords ==
    ASSUME TypeInv, UpgradeWorksOnItsRecord, NEW i,
           \/ \E j \in Ids : Delete(j)
           \/ \E old, new \in Titles : SyncSets(old, new)
           \/ Crash
    PROVE  Left(i)
<1>1. CASE \E j \in Ids : Delete(j)
  <2>1. Idle /\ dialog = Closed /\ UNCHANGED <<collection, dialog, spoiled>>
    BY <1>1 DEF Delete, store
  <2> QED BY <2>1, WhoIsSettled, WhoIsSettledNext, WhoIsStored DEF Left, Closed
<1>2. ASSUME NEW old \in Titles, NEW new \in Titles, SyncSets(old, new) PROVE Left(i)
  <2> DEFINE c == [j \in Ids |-> IF j \in Affected(old) THEN [collection[j] EXCEPT !.title = new]
                                 ELSE collection[j]]
  <2>1. /\ Saved(c) \/ SaveFails
        /\ UNCHANGED <<dialog, job, spoiled>>
    BY <1>2 DEF SyncSets
  <2>2. \A j \in Affected(old) : j \in Stored /\ [collection[j] EXCEPT !.title = new].images = collection[j].images
    BY DEF Affected, Stored, TypeInv, StoreTyped, GoodCards, Cards
  <2>3. i \in Ids => \/ i \in Stored /\ c[i].images = collection[i].images
                    \/ c[i] = collection[i]
    BY <2>2
  <2> HIDE DEF c
  <2>4. i \in Stored' => i \in Stored /\ collection'[i].images = collection[i].images
    <3>1. i \in Stored' => \/ i \in Stored /\ collection'[i] = collection[i]
                           \/ collection'[i] = c[i]
      BY <2>1, SavedRecords
    <3> QED BY <2>3, <3>1, WhoIsStored
  <2>5. i \in Stored /\ i \in Settled' => i \in Settled
    BY <2>1, WhoIsSettled, WhoIsSettledNext DEF Idle
  <2> QED BY <2>4, <2>5 DEF Left
<1>3. CASE Crash
  <2>1. spoiled' = spoiled \cup Unsettled /\ UNCHANGED collection
    BY <1>3 DEF Crash, store
  <2> QED BY <2>1, WhoIsStored DEF Left, Settled
<1> QED BY <1>1, <1>2, <1>3

-----------------------------------------------------------------------------
(***************************************************************************)
(* The parts of a name.                                                    *)
(***************************************************************************)
\* What parseIndexFromFilename reads, if it has less digits than two.
Index(f) == f[Len(f)]

\* The last part of a name that is put together, and its first.
LEMMA Joined ==
    ASSUME NEW s \in Seq(Nat), NEW t \in Seq(Nat), t # <<>>
    PROVE  /\ s \o t \in Seq(Nat) /\ s \o t # <<>>
           /\ Len(s \o t) = Len(s) + Len(t)
           /\ Index(s \o t) = Index(t)
           /\ s # <<>> => Head(s \o t) = Head(s)
<1>1. Len(s) \in Nat /\ Len(t) \in Nat /\ Len(t) > 0 /\ Len(s \o t) = Len(s) + Len(t) /\ s \o t \in Seq(Nat)
  OBVIOUS
<1>2. Index(s \o t) = Index(t)
  BY <1>1 DEF Index
<1>3. s # <<>> => Head(s \o t) = Head(s)
  <2>1. s # <<>> => 1 \in 1 .. Len(s) /\ (s \o t)[1] = s[1]
    BY <1>1
  <2> QED BY <2>1, <1>1
<1>4. s \o t # <<>>
  BY <1>1
<1> QED BY <1>1, <1>2, <1>3, <1>4

\* A name of one part.
LEMMA Pieces ==
    ASSUME NEW n \in Nat
    PROVE  /\ <<n>> \in Seq(Nat) /\ <<n>> # <<>> /\ Len(<<n>>) = 1
           /\ Head(<<n>>) = n /\ Index(<<n>>) = n
BY DEF Index

\* A title is a name of two parts.
LEMMA TitleIsSeq ==
    ASSUME NEW t \in Nat \X Nat
    PROVE  t \in Seq(Nat) /\ t # <<>> /\ Len(t) = 2 /\ Head(t) = t[1]
<1>1. PICK a \in Nat, b \in Nat : t = <<a, b>>
  OBVIOUS
<1> QED BY <1>1

\* The first and the last part of the names that are made, and which carry an id.
LEMMA Names ==
    ASSUME NEW t \in Titles, NEW n \in Nat, NEW i \in Nat
    PROVE  /\ Head(CreateName(t, n)) = t[1] /\ Index(CreateName(t, n)) = n
           /\ ~ CarriesAnId(CreateName(t, n))
           /\ Head(PersistedName(i, t, n)) = i /\ Index(PersistedName(i, t, n)) = n
           /\ CarriesAnId(PersistedName(i, t, n))
<1>1. t \in Nat \X Nat
  BY CollectionAssumption
<1>2. t \in Seq(Nat) /\ t # <<>> /\ Len(t) = 2 /\ Head(t) = t[1]
  BY <1>1, TitleIsSeq
<1>3. <<n>> \in Seq(Nat) /\ <<n>> # <<>> /\ Len(<<n>>) = 1 /\ Index(<<n>>) = n
  BY Pieces
<1>4. <<i>> \in Seq(Nat) /\ <<i>> # <<>> /\ Len(<<i>>) = 1 /\ Head(<<i>>) = i
  BY Pieces
<1>5. /\ Head(t \o <<n>>) = t[1] /\ Index(t \o <<n>>) = n /\ Len(t \o <<n>>) = Len(t) + Len(<<n>>)
      /\ t \o <<n>> \in Seq(Nat) /\ t \o <<n>> # <<>>
  BY <1>2, <1>3, Joined
<1>6. /\ Head(<<i>> \o t) = i /\ Len(<<i>> \o t) = Len(<<i>>) + Len(t)
      /\ <<i>> \o t \in Seq(Nat) /\ <<i>> \o t # <<>>
  BY <1>2, <1>4, Joined
<1>7. /\ Head((<<i>> \o t) \o <<n>>) = i /\ Index((<<i>> \o t) \o <<n>>) = n
      /\ Len((<<i>> \o t) \o <<n>>) = Len(<<i>> \o t) + Len(<<n>>)
  BY <1>3, <1>6, Joined
<1>8. Len(t \o <<n>>) = 3 /\ Len((<<i>> \o t) \o <<n>>) = 4
  BY <1>2, <1>3, <1>4, <1>5, <1>6, <1>7
<1> QED BY <1>5, <1>7, <1>8 DEF CreateName, PersistedName, CarriesAnId

-----------------------------------------------------------------------------
(***************************************************************************)
(* Which names there are.                                                  *)
(***************************************************************************)
Fresh(images)         == \A k \in DOMAIN images : ~ CarriesAnId(images[k].file)
OwnNames(i, images)   == \A k \in DOMAIN images : Head(images[k].file) = i
OwnOrFresh(i, images) == \A k \in DOMAIN images :
                             Head(images[k].file) = i \/ ~ CarriesAnId(images[k].file)

RecordNamed(i) ==
    i \in Stored => /\ OwnOrFresh(i, collection[i].images)
                    /\ i \in Settled => OwnNames(i, collection[i].images)

DialogNamed(d, s) ==
    /\ d.mode = "create" => Fresh(d.card.images)
    /\ d.mode = "edit" => /\ OwnOrFresh(d.id, d.card.images)
                          /\ d.id \notin s => OwnNames(d.id, d.card.images)

JobNamed(j) ==
    /\ j.pc \in {"copy", "undo", "removeOld", "update"} => Fresh(j.card.images)
    /\ j.pc = "removeImages" => OwnOrFresh(j.id, j.card.images)

\* A name begins with the id of its record, or was given before the record had one: in the
\* record these are left only where an accident kept them from being upgraded, or where the
\* text of the set is the id.
NamesInv ==
    /\ \A i \in Ids : RecordNamed(i)
    /\ DialogNamed(dialog, spoiled)
    /\ JobNamed(job)

\* What the upgrade does to a name: it leaves it alone if it begins with the id, and gives
\* the image one that carries it, with the index that is parsed, if not.
LEMMA UpgradedNames ==
    ASSUME NEW i \in Ids, NEW c \in GoodCards, NEW k \in DOMAIN c.images
    PROVE  /\ Head(NormalizedName(i, c, k)) = i
           /\ NormalizedName(i, c, k) = c.images[k].file <=> Head(c.images[k].file) = i
           /\ NormalizedName(i, c, k) # c.images[k].file =>
                 /\ CarriesAnId(NormalizedName(i, c, k))
                 /\ Index(NormalizedName(i, c, k)) = ParseIndex(c.images[k].file)
<1> DEFINE f == c.images[k].file
           n == ParseIndex(f)
<1>1. c.title \in Titles /\ i \in Nat
  BY CollectionAssumption DEF GoodCards, Cards, Ids
<1>2. /\ n \in Nat
      /\ Head(f) # i => NormalizedName(i, c, k) = PersistedName(i, c.title, n)
      /\ Head(f) = i => NormalizedName(i, c, k) = f
  BY NormalizedNames, IndicesWrap
<1> HIDE DEF n
<1>3. /\ Head(PersistedName(i, c.title, n)) = i /\ Index(PersistedName(i, c.title, n)) = n
      /\ CarriesAnId(PersistedName(i, c.title, n))
  BY <1>1, <1>2, Names
<1> QED BY <1>2, <1>3 DEF n

\* A record that is left as it is keeps its names.
LEMMA NamedWhenLeft == ASSUME NEW i, RecordNamed(i), Left(i) PROVE RecordNamed(i)'
BY DEF RecordNamed, Left

\* The target of a copy carries no id in an Add dialog, and begins with the id of the record
\* in an Edit dialog.
LEMMA TargetNames ==
    ASSUME TypeInv, dialog # Closed
    PROVE  /\ dialog.mode = "create" => ~ CarriesAnId(Target)
           /\ dialog.mode = "edit" => Head(Target) = dialog.id
           /\ Index(Target) = NextImageIndex(dialog.card.images)
<1> DEFINE n == NextImageIndex(dialog.card.images)
           t == dialog.card.title
<1>1. t \in Titles /\ dialog.id \in Ids /\ dialog.id \in Nat /\ dialog.mode \in {"create", "edit"}
  BY OpenDialog, CollectionAssumption DEF Ids
<1>2. n \in Nat
  BY TargetIsAName, CollectionAssumption DEF Indices
<1>3. Target = IF dialog.mode = "create" THEN CreateName(t, n) ELSE PersistedName(dialog.id, t, n)
  BY DEF Target, BuildTargetName
<1> HIDE DEF n, t
<1>4. /\ Head(CreateName(t, n)) = t[1] /\ Index(CreateName(t, n)) = n
      /\ Head(PersistedName(dialog.id, t, n)) = dialog.id /\ Index(PersistedName(dialog.id, t, n)) = n
      /\ ~ CarriesAnId(CreateName(t, n))
  BY <1>1, <1>2, Names
<1> QED BY <1>1, <1>3, <1>4 DEF n

\* The names, for the steps of the dialog.
LEMMA DialogStepsKeepNames ==
    ASSUME TypeInv, UpgradeWorksOnItsRecord, NamesInv, DialogStep
    PROVE  NamesInv'
<1>1. Idle /\ UNCHANGED <<collection, job>>
  BY DialogStepsLeaveTheStore
<1>2. \A i \in Ids : RecordNamed(i)'
  BY DialogLeavesRecords, NamedWhenLeft DEF NamesInv
<1>3. SUFFICES DialogNamed(dialog', spoiled')
  BY <1>1, <1>2 DEF NamesInv, JobNamed
<1>4. ASSUME NEW t \in Titles, OpenCreate(t) PROVE DialogNamed(dialog', spoiled')
  <2>1. dialog'.mode = "create" /\ dialog'.card.images = <<>>
    BY <1>4 DEF OpenCreate, Closed
  <2> QED BY <2>1 DEF DialogNamed, Fresh
<1>5. ASSUME NEW t \in Titles, Retitle(t) PROVE DialogNamed(dialog', spoiled')
  BY <1>5, RetitleIsTyped DEF Retitle, NamesInv, DialogNamed
<1>6. ASSUME NEW i \in Ids, OpenEdit(i) PROVE DialogNamed(dialog', spoiled')
  <2>1. /\ i \in Stored /\ dialog = Closed /\ spoiled' = spoiled
        /\ dialog' = [mode |-> "edit", id |-> i, card |-> collection[i], pruned |-> FALSE]
    BY <1>6, WhoIsStored DEF OpenEdit
  <2>2. i \notin spoiled => i \in Settled
    BY <1>1, <2>1, WhoIsSettled DEF Closed
  <2>3. RecordNamed(i)
    BY DEF NamesInv
  <2> QED BY <2>1, <2>2, <2>3 DEF RecordNamed, DialogNamed
<1>7. CASE AddImage
  <2>1. CASE UNCHANGED dialog
    BY <1>7, <2>1, AddImageSteps DEF NamesInv, DialogNamed
  <2>2. CASE ~ UNCHANGED dialog
    <3> DEFINE ims == dialog.card.images
               p == pictures'
    <3>1. /\ dialog # Closed /\ spoiled' = spoiled
          /\ dialog'.mode = dialog.mode /\ dialog'.id = dialog.id
          /\ dialog'.card.images = Append(ims, [file |-> Target, picture |-> p])
      BY <1>7, <2>2, AddImageSteps
    <3>2. ims \in Seq(Images) /\ Len(ims) \in Nat
      BY <3>1, OpenDialog
    <3> HIDE DEF p
    <3>3. \A k \in DOMAIN dialog'.card.images :
              \/ k \in DOMAIN ims /\ dialog'.card.images[k].file = ims[k].file
              \/ dialog'.card.images[k].file = Target
      BY <3>1, <3>2
    <3>4. /\ dialog.mode = "create" => ~ CarriesAnId(Target)
          /\ dialog.mode = "edit" => Head(Target) = dialog.id
      BY <3>1, TargetNames
    <3> QED BY <3>1, <3>3, <3>4 DEF NamesInv, DialogNamed, Fresh, OwnNames, OwnOrFresh
  <2> QED BY <2>1, <2>2
<1>8. ASSUME NEW k \in 1 .. MaxImages, RemoveImage(k) PROVE DialogNamed(dialog', spoiled')
  <2> DEFINE ims == dialog.card.images
  <2>1. /\ dialog # Closed /\ spoiled' = spoiled /\ k \in DOMAIN ims
        /\ dialog'.mode = dialog.mode /\ dialog'.id = dialog.id
        /\ dialog'.card.images = Without(ims, k)
    BY <1>8, RemoveImageIsTyped DEF RemoveImage
  <2>2. ims \in Seq(Images) /\ Len(ims) \in Nat
    BY <2>1, OpenDialog
  <2>3. \A j \in DOMAIN Without(ims, k) : \E m \in DOMAIN ims : Without(ims, k)[j] = ims[m]
    BY <2>1, <2>2, WithoutIsPart
  <2> QED BY <2>1, <2>3 DEF NamesInv, DialogNamed, Fresh, OwnNames, OwnOrFresh
<1>9. CASE Cancel
  BY <1>9 DEF Cancel, Closed, DialogNamed
<1> QED BY <1>4, <1>5, <1>6, <1>7, <1>8, <1>9 DEF DialogStep

\* The record that is added: it is at rest only if all of its names begin with its id.
LEMMA AddedRecord ==
    ASSUME TypeInv, UpgradeWorksOnItsRecord, NamesInv, AcceptCreate, NEW i \in Ids, i = NextId(Stored),
           Saved([collection EXCEPT ![i] = IF @ = NoCard THEN dialog.card ELSE @])
    PROVE  collection'[i] = dialog.card /\ (i \in Settled' => OwnNames(i, dialog.card.images))
<1>1. dialog # Closed /\ dialog.mode = "create"
  BY DEF AcceptCreate, Closed
<1>2. dialog.card \in GoodCards
  BY <1>1, OpenDialog
<1>3. collection[i] = NoCard /\ DOMAIN collection = Ids
  BY NextIdIsFree DEF Stored, TypeInv, StoreTyped
<1>4. collection'[i] = dialog.card
  BY <1>3 DEF Saved
<1>5. job' = IF RenamesOf(i, dialog.card) = <<>> THEN Rest
             ELSE [pc |-> "copy", id |-> i, card |-> dialog.card, n |-> 1]
  <2>1. readable /\ accidents' = accidents /\ accidents \in Nat
    BY CollectionAssumption DEF Saved, TypeInv, CountersTyped
  <2>2. ~ SaveFails
    BY <2>1 DEF SaveFails, Accident
  <2> QED BY <2>2 DEF AcceptCreate
<1>6. ASSUME i \in Settled' PROVE OwnNames(i, dialog.card.images)
  <2>1. RenamesOf(i, dialog.card) = <<>>
    BY <1>5, <1>6, WhoIsSettledNext
  <2>2. \A k \in DOMAIN dialog.card.images :
            NormalizedName(i, dialog.card, k) = dialog.card.images[k].file
    BY <1>2, <2>1, RenamesAreNames
  <2> QED BY <1>2, <2>2, UpgradedNames DEF OwnNames
<1> QED BY <1>4, <1>6

\* The names, for a new record.
LEMMA AcceptCreateKeepsNames ==
    ASSUME TypeInv, UpgradeWorksOnItsRecord, NamesInv, AcceptCreate
    PROVE  NamesInv'
<1>1. dialog.mode = "create" /\ dialog'.mode = "closed" /\ Idle
  BY DEF AcceptCreate, Closed, UpgradeWorksOnItsRecord
<1>2. Fresh(dialog.card.images)
  BY <1>1 DEF NamesInv, DialogNamed
<1>3. DialogNamed(dialog', spoiled')
  BY <1>1 DEF DialogNamed
<1>4. JobNamed(job')
  <2>1. \/ job' \in {job, Rest}
        \/ job' = [pc |-> "copy", id |-> NextId(Stored), card |-> dialog.card, n |-> 1]
    BY DEF AcceptCreate
  <2> QED BY <1>1, <1>2, <2>1 DEF JobNamed, Rest, Idle
<1>5. ASSUME NEW i \in Ids PROVE RecordNamed(i)'
  <2>1. CASE Left(i)
    BY <2>1, NamedWhenLeft DEF NamesInv
  <2>2. CASE /\ i = NextId(Stored)
             /\ Saved([collection EXCEPT ![i] = IF @ = NoCard THEN dialog.card ELSE @])
    <3>1. collection'[i] = dialog.card /\ (i \in Settled' => OwnNames(i, dialog.card.images))
      BY <2>2, AddedRecord
    <3>2. OwnOrFresh(i, dialog.card.images)
      BY <1>2 DEF Fresh, OwnOrFresh
    <3> QED BY <3>1, <3>2 DEF RecordNamed
  <2>3. ~ AcceptEdit
    BY <1>1 DEF AcceptEdit
  <2> QED BY <2>1, <2>2, <2>3, AcceptLeavesRecords
<1> QED BY <1>3, <1>4, <1>5 DEF NamesInv

\* The names, for an edited record.
LEMMA AcceptEditKeepsNames ==
    ASSUME TypeInv, UpgradeWorksOnItsRecord, NamesInv, AcceptEdit
    PROVE  NamesInv'
<1>1. /\ dialog # Closed /\ dialog.mode = "edit" /\ dialog'.mode = "closed"
      /\ spoiled \subseteq spoiled' /\ job' = job
  BY DEF AcceptEdit, Closed
<1>2. ASSUME NEW i \in Ids PROVE RecordNamed(i)'
  <2>1. CASE Left(i)
    BY <2>1, NamedWhenLeft DEF NamesInv
  <2>2. CASE i = dialog.id /\ Saved([collection EXCEPT ![i] = dialog.card])
    <3>1. collection'[i] = dialog.card
      BY <2>2 DEF Saved, TypeInv, StoreTyped
    <3>2. i \in Settled' => i \notin spoiled
      BY <1>1, WhoIsSettledNext
    <3>3. /\ OwnOrFresh(i, dialog.card.images)
          /\ i \notin spoiled => OwnNames(i, dialog.card.images)
      BY <1>1, <2>2 DEF NamesInv, DialogNamed
    <3> QED BY <3>1, <3>2, <3>3 DEF RecordNamed
  <2>3. ~ AcceptCreate
    BY <1>1 DEF AcceptCreate
  <2> QED BY <2>1, <2>2, <2>3, AcceptLeavesRecords
<1>3. DialogNamed(dialog', spoiled') /\ JobNamed(job')
  BY <1>1 DEF DialogNamed, NamesInv
<1> QED BY <1>2, <1>3 DEF NamesInv

\* A job goes on, or gives its record up, until a save ends it.
LEMMA JobStepKinds ==
    ASSUME TypeInv
    PROVE  /\ CopyName \/ DeleteImage => JobGoes
           /\ UndoCopy \/ RemoveOldName =>
                 JobGoes \/ (UNCHANGED <<collection, dialog>> /\ job.pc # "rest" /\ Spoil)
<1>1. ASSUME NEW pc, NEW n, Proceed(pc, n), job.pc # "rest"
      PROVE  job'.pc = pc /\ job'.id = job.id /\ job'.card = job.card
  <2>1. job \in [pc : {"copy", "undo", "removeOld", "update", "removeImages", "erase"},
                 id : Ids, card : GoodCards, n : 0 .. MaxImages + 1]
    BY <1>1 DEF TypeInv, JobTyped, Rest
  <2> QED BY <1>1, <2>1 DEF Proceed
<1>2. ASSUME CopyName PROVE JobGoes
  <2>1. job.pc = "copy" /\ UNCHANGED <<collection, dialog, spoiled>>
    BY <1>2 DEF CopyName, store
  <2>2. job'.pc \in {"copy", "undo", "removeOld"} /\ job'.id = job.id /\ job'.card = job.card
    BY <1>1, <1>2, <2>1 DEF CopyName
  <2> QED BY <2>1, <2>2 DEF JobGoes, Upgrading
<1>3. ASSUME UndoCopy
      PROVE JobGoes \/ (UNCHANGED <<collection, dialog>> /\ job.pc # "rest" /\ Spoil)
  <2>1. job.pc = "undo" /\ UNCHANGED <<collection, dialog>>
    BY <1>3 DEF UndoCopy, store
  <2>2. Proceed("undo", job.n - 1) /\ spoiled' = spoiled => JobGoes
    BY <1>1, <2>1 DEF JobGoes, Upgrading
  <2>3. Spoil \/ (Proceed("undo", job.n - 1) /\ spoiled' = spoiled)
    BY <1>3 DEF UndoCopy
  <2> QED BY <2>1, <2>2, <2>3
<1>4. ASSUME RemoveOldName
      PROVE JobGoes \/ (UNCHANGED <<collection, dialog>> /\ job.pc # "rest" /\ Spoil)
  <2>1. job.pc = "removeOld" /\ UNCHANGED <<collection, dialog>>
    BY <1>4 DEF RemoveOldName, store
  <2>2. (Proceed("update", 0) \/ Proceed("removeOld", job.n + 1)) /\ spoiled' = spoiled => JobGoes
    BY <1>1, <2>1 DEF JobGoes, Upgrading
  <2>3. Spoil \/ ((Proceed("update", 0) \/ Proceed("removeOld", job.n + 1)) /\ spoiled' = spoiled)
    BY <1>4 DEF RemoveOldName
  <2> QED BY <2>1, <2>2, <2>3
<1>5. ASSUME DeleteImage PROVE JobGoes
  <2>1. job.pc = "removeImages" /\ UNCHANGED <<collection, dialog, spoiled>>
    BY <1>5 DEF DeleteImage, store
  <2>2. Proceed("erase", 0) \/ Proceed("removeImages", job.n + 1)
    BY <1>5 DEF DeleteImage
  <2> QED BY <1>1, <2>1, <2>2 DEF JobGoes, Upgrading
<1> QED BY <1>2, <1>3, <1>4, <1>5

\* The names, for the steps of a job.
LEMMA JobStepsKeepNames ==
    ASSUME TypeInv, UpgradeWorksOnItsRecord, NamesInv, JobStep
    PROVE  NamesInv'
<1>1. CASE JobGoes
  <2>1. \A i \in Ids : RecordNamed(i)'
    BY <1>1, JobLeavesRecords, NamedWhenLeft DEF NamesInv
  <2> QED BY <1>1, <2>1 DEF NamesInv, JobGoes, JobNamed, Upgrading
<1>2. CASE UNCHANGED <<collection, dialog>> /\ job.pc # "rest" /\ Spoil
  <2>1. \A i \in Ids : RecordNamed(i)'
    BY <1>2, JobLeavesRecords, NamedWhenLeft DEF NamesInv
  <2>2. dialog' = dialog /\ spoiled \subseteq spoiled' /\ job'.pc = "rest"
    BY <1>2 DEF Spoil, Rest
  <2> QED BY <2>1, <2>2 DEF NamesInv, JobNamed, DialogNamed
<1>3. CASE SaveNames \/ EraseRecord
  <2>1. /\ job.pc \in {"update", "erase"} /\ job.pc # "rest"
        /\ dialog' = dialog /\ dialog = Closed /\ job'.pc = "rest"
    BY <1>3 DEF SaveNames, EraseRecord, Spoil, Rest, UpgradeWorksOnItsRecord, Idle
  <2>2. job.id \in Ids /\ job.card \in GoodCards
    BY <2>1, RunningJob
  <2>3. ASSUME NEW i \in Ids PROVE RecordNamed(i)'
    <3>1. CASE Left(i)
      BY <3>1, NamedWhenLeft DEF NamesInv
    <3>2. CASE /\ SaveNames /\ i = job.id
               /\ Saved([collection EXCEPT ![job.id] = Normalized(job.id, job.card)])
      <4>1. collection'[i] = Normalized(i, job.card)
        BY <2>2, <3>2 DEF Saved, TypeInv, StoreTyped
      <4>2. OwnNames(i, Normalized(i, job.card).images)
        BY <2>2, <3>2, UpgradedNames, NormalizedCard DEF OwnNames
      <4> QED BY <4>1, <4>2 DEF RecordNamed, OwnNames, OwnOrFresh
    <3> QED BY <1>3, <3>1, <3>2, LastSaveLeavesRecords
  <2> QED BY <2>1, <2>3 DEF NamesInv, JobNamed, DialogNamed, Closed
<1> QED BY <1>1, <1>2, <1>3, JobStepKinds DEF JobStep

\* The names, for the steps that change none.
LEMMA OtherStepsKeepNames ==
    ASSUME TypeInv, UpgradeWorksOnItsRecord, NamesInv,
           \/ \E j \in Ids : Delete(j)
           \/ \E old, new \in Titles : SyncSets(old, new)
           \/ Crash
    PROVE  NamesInv'
<1>1. \A i \in Ids : RecordNamed(i)'
  BY OtherStepsLeaveRecords, NamedWhenLeft DEF NamesInv
<1>2. ASSUME NEW j \in Ids, Delete(j) PROVE NamesInv'
  <2>1. /\ j \in Stored /\ dialog' = dialog /\ spoiled' = spoiled
        /\ job' = [pc |-> "removeImages", id |-> j, card |-> collection[j], n |-> 1]
    BY <1>2, WhoIsStored DEF Delete
  <2>2. OwnOrFresh(j, collection[j].images)
    BY <2>1 DEF NamesInv, RecordNamed
  <2> QED BY <1>1, <2>1, <2>2 DEF NamesInv, JobNamed
<1>3. ASSUME NEW old \in Titles, NEW new \in Titles, SyncSets(old, new) PROVE NamesInv'
  BY <1>1, <1>3 DEF SyncSets, NamesInv
<1>4. CASE Crash
  BY <1>1, <1>4 DEF Crash, NamesInv, JobNamed, DialogNamed, Closed, Rest
<1> QED BY <1>2, <1>3, <1>4

\* The names, for every step.
LEMMA StepsKeepNames ==
    ASSUME TypeInv, UpgradeWorksOnItsRecord, NamesInv, [Next]_vars
    PROVE  NamesInv'
<1>1. CASE UNCHANGED vars
  BY <1>1 DEF vars, NamesInv, RecordNamed, Stored, Settled, Unsettled, Abandoned, Idle
<1>2. CASE DialogStep
  BY <1>2, DialogStepsKeepNames
<1>3. CASE AcceptCreate \/ AcceptEdit
  BY <1>3, AcceptCreateKeepsNames, AcceptEditKeepsNames
<1>4. CASE JobStep
  BY <1>4, JobStepsKeepNames
<1>5. CASE \/ \E j \in Ids : Delete(j)
           \/ \E old, new \in Titles : SyncSets(old, new)
           \/ Crash
  BY <1>5, OtherStepsKeepNames
<1> QED BY <1>1, <1>2, <1>3, <1>4, <1>5 DEF Next, DialogStep, JobStep

\* There is no name at first.
LEMMA InitIsNamed == Init => NamesInv
BY DEF Init, NamesInv, RecordNamed, Stored, DialogNamed, JobNamed, Closed, Rest

\* NamesInv is stronger than NamesCarryTheId.
LEMMA NamesFollow ==
    ASSUME TypeInv, NamesInv
    PROVE  NamesCarryTheId
<1> SUFFICES ASSUME NEW i \in Settled, NEW k \in DOMAIN collection[i].images
             PROVE  \E t \in Titles, n \in Indices :
                        \/ collection[i].images[k].file = PersistedName(i, t, n)
                        \/ collection[i].images[k].file = CreateName(t, n) /\ t[1] = i
  BY DEF NamesCarryTheId
<1> DEFINE f == collection[i].images[k].file
<1>1. i \in Stored /\ i \in Ids /\ i \in Nat
  BY CollectionAssumption DEF Settled, Stored, Ids
<1>2. f \in FileNames
  <2>1. collection[i] \in GoodCards
    BY <1>1, WhoIsStored DEF TypeInv, StoreTyped
  <2> QED BY <1>1, <2>1, NormalizedNames
<1>3. Head(f) = i
  BY <1>1 DEF NamesInv, RecordNamed, OwnNames
<1> HIDE DEF f
<1>4. CASE \E t \in Titles, n \in Indices : f = CreateName(t, n)
  <2>1. PICK t \in Titles, n \in Indices : f = CreateName(t, n)
    BY <1>4
  <2>2. n \in Nat
    BY CollectionAssumption DEF Indices
  <2>3. Head(f) = t[1]
    BY <1>1, <2>1, <2>2, Names
  <2> QED BY <1>3, <2>1, <2>3 DEF f
<1>5. CASE \E j \in Ids, t \in Titles, n \in Indices : f = PersistedName(j, t, n)
  <2>1. PICK j \in Ids, t \in Titles, n \in Indices : f = PersistedName(j, t, n)
    BY <1>5
  <2>2. n \in Nat /\ j \in Nat
    BY CollectionAssumption DEF Indices, Ids
  <2>3. Head(f) = j
    BY <2>1, <2>2, Names
  <2> QED BY <1>3, <2>1, <2>3 DEF f
<1> QED BY <1>2, <1>4, <1>5 DEF FileNames

\* Whatever fails, and wherever the process dies: once nothing is being done to a record
\* the names of its images begin with its id, unless an accident befell the record itself.
\* No set's text is ruled out: a name the upgrade spares begins with the id as well.
THEOREM NamesAreUpgraded == Spec => []NamesCarryTheId
<1>1. Spec => []TypeInv
  BY InitIsTyped, StepsAreTyped, PTL DEF Spec
<1>2. TypeInv /\ UpgradeWorksOnItsRecord /\ NamesInv /\ [Next]_vars => NamesInv'
  BY StepsKeepNames
<1>3. TypeInv /\ NamesInv => NamesCarryTheId
  BY NamesFollow
<1> QED BY <1>1, <1>2, <1>3, UpgradeIsUndisturbed, InitIsNamed, PTL DEF Spec

-----------------------------------------------------------------------------
(***************************************************************************)
(* Which pictures the files show.                                          *)
(***************************************************************************)
\* No image name has an index that parseIndexFromFilename, which reads two digits, cuts off.
IndicesFit ==
    /\ \A i \in Stored : \A k \in DOMAIN collection[i].images :
          Index(collection[i].images[k].file) < IndexBase
    /\ dialog # Closed => \A k \in DOMAIN dialog.card.images :
          Index(dialog.card.images[k].file) < IndexBase

Increasing(images) ==
    \A k, l \in DOMAIN images : k < l => Index(images[k].file) < Index(images[l].file)
\* Of the images, those with their names in ns show their pictures.
ShownIn(fs, ns, images) ==
    \A k \in DOMAIN images : images[k].file \in ns => fs[images[k].file] = images[k].picture
Extends(new, old)   == \A k \in DOMAIN old : k \in DOMAIN new /\ new[k] = old[k]

\* The names that are one record's alone.
OwnFiles == {f \in FileNames : CarriesAnId(f)}

\* While a record is added its names are its own, whatever they begin with.
FilesOf(d) == IF d.mode = "create" THEN FileNames ELSE OwnFiles

RecordShown(i) ==
    i \in Settled => Increasing(collection[i].images) /\ ShownIn(files, OwnFiles, collection[i].images)

DialogShown(d, s, fs) ==
    d.mode = "create" \/ (d.mode = "edit" /\ d.id \notin s) =>
        Increasing(d.card.images) /\ ShownIn(fs, FilesOf(d), d.card.images)

\* Until an image is removed, the images of the record come first in the dialog.
DialogExtends(d, c) ==
    d.mode = "edit" /\ ~ d.pruned => Extends(d.card.images, c[d.id].images)

\* The k-th image shows its picture under its new name.
Upgraded(j, fs, k) == fs[NormalizedName(j.id, j.card, k)] = j.card.images[k].picture

\* The m-th renaming has its copy.
Copied(j, fs, m) ==
    LET r == RenamesOf(j.id, j.card)[m] IN fs[r.new] = fs[r.old]

JobShown(j, fs) ==
    /\ j.pc \in {"copy", "undo", "removeOld", "update"} => Increasing(j.card.images)
    /\ j.pc \in {"copy", "undo"} => ShownIn(fs, FileNames, j.card.images)
    /\ j.pc = "copy" => \A m \in 1 .. j.n - 1 : Copied(j, fs, m)
    /\ j.pc \in {"removeOld", "update"} => \A k \in DOMAIN j.card.images : Upgraded(j, fs, k)

\* What keeps an image name from being given twice is that the indices of a record grow;
\* what keeps it from being another record's is NamesInv, for the names that carry an id.
PicturesInv ==
    /\ \A i \in Ids : RecordShown(i)
    /\ DialogShown(dialog, spoiled, files)
    /\ DialogExtends(dialog, collection)
    /\ JobShown(job, files)

\* A record that is left as it is shows its pictures after any change of a file whose name
\* carries no id or another record's.
LEMMA ShownWhenLeft ==
    ASSUME TypeInv, NEW i \in Ids, RecordNamed(i), RecordShown(i), Left(i),
           \/ files' = files
           \/ \E f : Touched(f) /\ (i \in Settled' => Head(f) # i \/ ~ CarriesAnId(f))
    PROVE  RecordShown(i)'
<1> SUFFICES ASSUME i \in Settled'
             PROVE  Increasing(collection'[i].images) /\ ShownIn(files', OwnFiles, collection'[i].images)
  BY DEF RecordShown
<1> DEFINE ims == collection[i].images
<1>1. i \in Settled /\ i \in Stored /\ collection'[i].images = ims
  BY WhoIsSettledNext, WhoIsSettled DEF Left
<1>2. Increasing(ims) /\ ShownIn(files, OwnFiles, ims) /\ OwnNames(i, ims)
  BY <1>1 DEF RecordShown, RecordNamed
<1>3. CASE files' = files
  BY <1>1, <1>2, <1>3
<1>4. ASSUME NEW f, Touched(f), Head(f) # i \/ ~ CarriesAnId(f)
      PROVE  ShownIn(files', OwnFiles, ims)
  <2>1. \A k \in DOMAIN ims : ims[k].file \in OwnFiles => ims[k].file # f /\ ims[k].file \in FileNames
    BY <1>2, <1>4 DEF OwnNames, OwnFiles
  <2> QED BY <1>2, <1>4, <2>1 DEF ShownIn, Touched
<1> QED BY <1>1, <1>2, <1>3, <1>4

\* The index of the next image is greater than any in the list.
LEMMA NextIndexIsNew ==
    ASSUME TypeInv, IndicesFit, dialog # Closed, Increasing(dialog.card.images),
           NEW k \in DOMAIN dialog.card.images
    PROVE  /\ Index(dialog.card.images[k].file) < Index(Target)
           /\ dialog.card.images[k].file # Target
<1> DEFINE ims == dialog.card.images
           n == Len(ims)
<1>1. ims \in Seq(Images) /\ n \in Nat /\ \A j \in DOMAIN ims : ims[j].file \in FileNames
  BY OpenDialog
<1>2. DOMAIN ims = 1 .. n /\ n \in 1 .. n /\ k \in 1 .. n /\ ims # <<>>
  BY <1>1
<1>3. \A j \in 1 .. n : Index(ims[j].file) \in Nat
  BY <1>1, <1>2, IndicesWrap DEF Index
<1>4. Index(ims[n].file) < IndexBase
  BY <1>2 DEF IndicesFit
<1>5. ParseIndex(ims[n].file) = Index(ims[n].file)
  BY <1>1, <1>2, <1>4, IndicesWrap DEF Index
<1>6. NextImageIndex(ims) = Index(ims[n].file) + 1
  BY <1>2, <1>5 DEF NextImageIndex
<1>7. Index(Target) = NextImageIndex(ims)
  BY TargetNames
<1>8. k = n \/ k < n
  BY <1>2
<1>9. Index(ims[k].file) <= Index(ims[n].file)
  <2>1. k < n => Index(ims[k].file) < Index(ims[n].file)
    BY <1>2 DEF Increasing
  <2> HIDE DEF ims, n
  <2> QED BY <1>2, <1>3, <1>8, <2>1
<1> HIDE DEF ims, n
<1>10. Index(ims[k].file) < Index(Target)
  BY <1>2, <1>3, <1>6, <1>7, <1>9
<1> QED BY <1>10, <1>2, <1>3 DEF ims

\* A list without one of its images is still in order, and names no file of that image.
LEMMA PrunedIsShown ==
    ASSUME NEW ns, NEW ims \in Seq(Images), NEW k \in DOMAIN ims, Increasing(ims),
           ShownIn(files, ns, ims), Touched(ims[k].file)
    PROVE  Increasing(Without(ims, k)) /\ ShownIn(files', ns, Without(ims, k))
<1> DEFINE w == Without(ims, k)
           at(j) == IF j < k THEN j ELSE j + 1
<1>1. /\ Len(ims) \in Nat /\ DOMAIN w = 1 .. Len(ims) - 1 /\ DOMAIN ims = 1 .. Len(ims)
      /\ \A j \in DOMAIN w : at(j) \in DOMAIN ims /\ w[j] = ims[at(j)]
  BY WithoutIsPart
<1>2. k \in Nat /\ \A j \in DOMAIN w : j \in Nat
  BY <1>1
<1>3. \A j \in DOMAIN w : at(j) # k
  BY <1>2
<1>4. \A j, l \in DOMAIN w : j < l => at(j) < at(l)
  BY <1>2
<1>5. \A j \in DOMAIN ims : ims[j].file \in FileNames /\ Index(ims[j].file) \in Nat
  <2>1. \A j \in DOMAIN ims : ims[j] \in Images
    OBVIOUS
  <2> QED BY <2>1, IndicesWrap DEF Images, Index
<1> HIDE DEF w, at
<1>6. Increasing(w)
  BY <1>1, <1>4 DEF Increasing
<1>7. ASSUME NEW j \in DOMAIN w PROVE w[j].file # ims[k].file
  <2>1. at(j) \in DOMAIN ims /\ at(j) \in Nat /\ (at(j) < k \/ k < at(j))
    BY <1>1, <1>2, <1>3
  <2>2. Index(ims[at(j)].file) # Index(ims[k].file)
    BY <1>5, <2>1 DEF Increasing
  <2> QED BY <1>1, <2>2
<1>8. ShownIn(files', ns, w)
  BY <1>1, <1>5, <1>7 DEF ShownIn, Touched
<1> QED BY <1>6, <1>8 DEF w

\* A list with one image more, under a name of its own.
LEMMA GrownIsShown ==
    ASSUME NEW ns, NEW ims \in Seq(Images), NEW f \in FileNames, NEW p, Increasing(ims),
           ShownIn(files, ns, ims),
           \A k \in DOMAIN ims : Index(ims[k].file) < Index(f) /\ ims[k].file # f,
           Touched(f), files'[f] = p
    PROVE  /\ Increasing(Append(ims, [file |-> f, picture |-> p]))
           /\ ShownIn(files', ns, Append(ims, [file |-> f, picture |-> p]))
           /\ Extends(Append(ims, [file |-> f, picture |-> p]), ims)
<1> DEFINE new == [file |-> f, picture |-> p]
           g == Append(ims, new)
           n == Len(ims)
<1>1. /\ n \in Nat /\ DOMAIN ims = 1 .. n /\ DOMAIN g = 1 .. n + 1
      /\ \A k \in 1 .. n : k \in DOMAIN g /\ g[k] = ims[k] /\ k # n + 1
      /\ g[n + 1] = new /\ new.file = f /\ new.picture = p
  OBVIOUS
<1>2. \A k \in 1 .. n + 1 : k \in 1 .. n \/ k = n + 1
  BY <1>1
<1>3. \A k \in DOMAIN ims : ims[k].file \in FileNames
  <2>1. \A k \in DOMAIN ims : ims[k] \in Images
    OBVIOUS
  <2> QED BY <2>1 DEF Images
<1> HIDE DEF g, n, new
<1>4. Increasing(g)
  <2> SUFFICES ASSUME NEW k \in DOMAIN g, NEW l \in DOMAIN g, k < l
               PROVE  Index(g[k].file) < Index(g[l].file)
    BY DEF Increasing
  <2>1. k \in 1 .. n
    BY <1>1
  <2>2. CASE l \in 1 .. n
    BY <1>1, <2>1, <2>2 DEF Increasing
  <2>3. CASE l = n + 1
    BY <1>1, <2>1, <2>3
  <2> QED BY <1>1, <1>2, <2>2, <2>3
<1>5. ShownIn(files', ns, g)
  <2> SUFFICES ASSUME NEW k \in DOMAIN g, g[k].file \in ns PROVE files'[g[k].file] = g[k].picture
    BY DEF ShownIn
  <2>1. CASE k \in 1 .. n
    BY <1>1, <1>3, <2>1 DEF ShownIn, Touched
  <2>2. CASE k = n + 1
    BY <1>1, <2>2
  <2> QED BY <1>1, <1>2, <2>1, <2>2
<1>6. Extends(g, ims)
  BY <1>1 DEF Extends
<1> QED BY <1>4, <1>5, <1>6 DEF g, new

\* The pictures, when an image is added.
LEMMA AddImageKeepsPictures ==
    ASSUME TypeInv, UpgradeWorksOnItsRecord, IndicesFit, NamesInv, PicturesInv, AddImage
    PROVE  PicturesInv'
<1> DEFINE ims == dialog.card.images
           p == pictures'
           ns == FilesOf(dialog)
           Cared == dialog.mode = "create" \/ (dialog.mode = "edit" /\ dialog.id \notin spoiled)
<1>1. dialog # Closed /\ UNCHANGED <<collection, readable, job, spoiled>>
  BY AddImageSteps
<1>2. /\ dialog.mode \in {"create", "edit"} /\ dialog.id \in Ids /\ ims \in Seq(Images)
      /\ \A k \in DOMAIN ims : ims[k].file \in FileNames
  BY <1>1, OpenDialog
<1>3. Target \in FileNames /\ Touched(Target) /\ Idle
  BY <1>1, TargetIsAName, AddImageIsTyped DEF UpgradeWorksOnItsRecord
<1>4. Cared => Increasing(ims) /\ ShownIn(files, ns, ims)
  BY DEF PicturesInv, DialogShown
<1>5. Cared => \A k \in DOMAIN ims : Index(ims[k].file) < Index(Target) /\ ims[k].file # Target
  BY <1>1, <1>4, NextIndexIsNew
<1>6. ASSUME NEW i \in Ids PROVE RecordShown(i)'
  <2>1. RecordNamed(i) /\ RecordShown(i)
    BY DEF NamesInv, PicturesInv
  <2>2. Left(i)
    BY DialogLeavesRecords DEF DialogStep
  <2>3. CASE Head(Target) # i \/ ~ CarriesAnId(Target)
    BY <1>3, <2>1, <2>2, <2>3, ShownWhenLeft
  <2>4. CASE i \notin Settled
    BY <2>2, <2>4, WhoIsSettledNext DEF Left, RecordShown
  <2>5. CASE Head(Target) = i /\ CarriesAnId(Target) /\ i \in Settled
    <3>1. dialog.mode = "edit" /\ dialog.id = i
      BY <1>1, <1>2, <2>5, TargetNames
    <3>2. i \notin spoiled /\ ~ dialog.pruned /\ i \in Stored
      BY <2>5, <3>1, WhoIsSettled
    <3>3. Extends(ims, collection[i].images)
      BY <3>1, <3>2 DEF PicturesInv, DialogExtends
    <3>4. \A k \in DOMAIN collection[i].images :
              /\ collection[i].images[k].file \in FileNames
              /\ collection[i].images[k].file # Target
      BY <1>2, <1>5, <3>1, <3>2, <3>3 DEF Extends
    <3>5. ShownIn(files', OwnFiles, collection[i].images)
      BY <1>3, <2>1, <2>5, <3>4 DEF RecordShown, ShownIn, Touched
    <3> QED BY <1>1, <2>1, <2>5, <3>5 DEF RecordShown
  <2> QED BY <2>3, <2>4, <2>5
<1>7. JobShown(job', files')
  BY <1>1, <1>3 DEF JobShown, Idle
<1>8. CASE UNCHANGED dialog
  <2>1. Cared => ShownIn(files', ns, ims)
    BY <1>2, <1>3, <1>4, <1>5 DEF ShownIn, Touched
  <2>2. DialogShown(dialog', spoiled', files') /\ DialogExtends(dialog', collection')
    BY <1>1, <1>4, <1>8, <2>1 DEF DialogShown, DialogExtends, PicturesInv
  <2> QED BY <1>6, <1>7, <2>2 DEF PicturesInv
<1>9. CASE ~ UNCHANGED dialog
  <2>1. /\ CopyTo(Target, p)
        /\ dialog'.mode = dialog.mode /\ dialog'.id = dialog.id /\ dialog'.pruned = dialog.pruned
        /\ dialog'.card.images = Append(ims, [file |-> Target, picture |-> p])
    BY <1>9, AddImageSteps
  <2>2. files'[Target] = p
    BY <1>3, <2>1 DEF CopyTo, TypeInv, FilesTyped
  <2> HIDE DEF p
  <2>3. Cared => Increasing(dialog'.card.images) /\ ShownIn(files', ns, dialog'.card.images)
    BY <1>2, <1>3, <1>4, <1>5, <2>1, <2>2, GrownIsShown
  <2>4. Extends(dialog'.card.images, ims)
    <3>1. \A k \in 1 .. Len(ims) : k \in DOMAIN dialog'.card.images /\ dialog'.card.images[k] = ims[k]
      BY <1>2, <2>1
    <3> QED BY <1>2, <3>1 DEF Extends
  <2>5. DialogShown(dialog', spoiled', files')
    BY <1>1, <2>1, <2>3 DEF DialogShown, FilesOf
  <2>6. DialogExtends(dialog', collection')
    BY <1>1, <2>1, <2>4 DEF DialogExtends, PicturesInv, Extends
  <2> QED BY <1>6, <1>7, <2>5, <2>6 DEF PicturesInv
<1> QED BY <1>8, <1>9

\* The pictures, when an image is removed.
LEMMA RemoveImageKeepsPictures ==
    ASSUME TypeInv, UpgradeWorksOnItsRecord, NamesInv, PicturesInv,
           NEW k \in 1 .. MaxImages, RemoveImage(k)
    PROVE  PicturesInv'
<1> DEFINE ims == dialog.card.images
           f == ims[k].file
<1>1. /\ dialog # Closed /\ k \in DOMAIN ims /\ Touched(f)
      /\ dialog'.mode = dialog.mode /\ dialog'.id = dialog.id /\ dialog'.pruned = TRUE
      /\ dialog'.card.images = Without(ims, k)
      /\ UNCHANGED <<collection, job, spoiled>>
  BY RemoveImageIsTyped DEF RemoveImage, store
<1>2. ims \in Seq(Images) /\ Idle /\ dialog.mode \in {"create", "edit"}
  BY <1>1, OpenDialog DEF UpgradeWorksOnItsRecord
<1>3. ASSUME NEW i \in Ids PROVE RecordShown(i)'
  <2>1. RecordNamed(i) /\ RecordShown(i)
    BY DEF NamesInv, PicturesInv
  <2>2. Left(i)
    BY DialogLeavesRecords DEF DialogStep
  <2>3. Head(f) = i /\ CarriesAnId(f) => dialog.mode = "edit" /\ dialog.id = i
    BY <1>1, <1>2 DEF NamesInv, DialogNamed, Fresh, OwnOrFresh
  <2>4. Head(f) = i /\ CarriesAnId(f) => i \notin Settled'
    BY <1>1, <2>3, WhoIsSettledNext
  <2> HIDE DEF f
  <2> QED BY <1>1, <2>1, <2>2, <2>4, ShownWhenLeft
<1>4. JobShown(job', files')
  BY <1>1, <1>2 DEF JobShown, Idle
<1>5. Increasing(ims) /\ ShownIn(files, FilesOf(dialog), ims) =>
        Increasing(dialog'.card.images) /\ ShownIn(files', FilesOf(dialog), dialog'.card.images)
  BY <1>1, <1>2, PrunedIsShown
<1>6. DialogShown(dialog', spoiled', files') /\ DialogExtends(dialog', collection')
  BY <1>1, <1>5 DEF DialogShown, DialogExtends, FilesOf, PicturesInv
<1> QED BY <1>3, <1>4, <1>6 DEF PicturesInv

\* The pictures, for the steps of the dialog.
LEMMA DialogStepsKeepPictures ==
    ASSUME TypeInv, UpgradeWorksOnItsRecord, IndicesFit, NamesInv, PicturesInv, DialogStep
    PROVE  PicturesInv'
<1>1. Idle /\ UNCHANGED <<collection, job>>
  BY DialogStepsLeaveTheStore
<1>2. ASSUME files' = files PROVE (\A i \in Ids : RecordShown(i)') /\ JobShown(job', files')
  BY <1>1, <1>2, DialogLeavesRecords, ShownWhenLeft DEF NamesInv, PicturesInv
<1>3. ASSUME NEW t \in Titles, OpenCreate(t) PROVE PicturesInv'
  <2>1. dialog'.mode = "create" /\ dialog'.card.images = <<>> /\ files' = files
    BY <1>3 DEF OpenCreate, Closed
  <2>2. DialogShown(dialog', spoiled', files') /\ DialogExtends(dialog', collection')
    BY <2>1 DEF DialogShown, DialogExtends, Increasing, ShownIn
  <2> QED BY <1>2, <2>1, <2>2 DEF PicturesInv
<1>4. ASSUME NEW t \in Titles, Retitle(t) PROVE PicturesInv'
  <2>1. files' = files /\ spoiled' = spoiled /\ UNCHANGED collection
    BY <1>1, <1>4 DEF Retitle
  <2>2. DialogShown(dialog', spoiled', files') /\ DialogExtends(dialog', collection')
    BY <1>4, <2>1, RetitleIsTyped DEF DialogShown, DialogExtends, FilesOf, PicturesInv
  <2> QED BY <1>2, <2>1, <2>2 DEF PicturesInv
<1>5. ASSUME NEW i \in Ids, OpenEdit(i) PROVE PicturesInv'
  <2>1. /\ i \in Stored /\ dialog = Closed /\ spoiled' = spoiled /\ files' = files
        /\ dialog' = [mode |-> "edit", id |-> i, card |-> collection[i], pruned |-> FALSE]
    BY <1>5, WhoIsStored DEF OpenEdit
  <2>2. i \notin spoiled => i \in Settled
    BY <1>1, <2>1, WhoIsSettled DEF Closed
  <2>3. RecordShown(i)
    BY DEF PicturesInv
  <2>4. DialogShown(dialog', spoiled', files')
    BY <2>1, <2>2, <2>3 DEF RecordShown, DialogShown, FilesOf
  <2>5. DialogExtends(dialog', collection')
    BY <1>1, <2>1 DEF DialogExtends, Extends
  <2> QED BY <1>2, <2>1, <2>4, <2>5 DEF PicturesInv
<1>6. CASE AddImage
  BY <1>6, AddImageKeepsPictures
<1>7. ASSUME NEW k \in 1 .. MaxImages, RemoveImage(k) PROVE PicturesInv'
  BY <1>7, RemoveImageKeepsPictures
<1>8. CASE Cancel
  <2>1. dialog'.mode = "closed" /\ files' = files
    BY <1>8 DEF Cancel, Closed
  <2> QED BY <1>2, <2>1 DEF PicturesInv, DialogShown, DialogExtends
<1> QED BY <1>3, <1>4, <1>5, <1>6, <1>7, <1>8 DEF DialogStep

\* The pictures, when the dialog is accepted.
LEMMA AcceptsKeepPictures ==
    ASSUME TypeInv, UpgradeWorksOnItsRecord, NamesInv, PicturesInv, AcceptCreate \/ AcceptEdit
    PROVE  PicturesInv'
<1>1. files' = files /\ dialog'.mode = "closed" /\ Idle
        /\ (AcceptCreate => dialog.mode = "create") /\ (AcceptEdit => dialog.mode = "edit")
  BY DEF AcceptCreate, AcceptEdit, Closed, UpgradeWorksOnItsRecord
<1>2. DialogShown(dialog', spoiled', files') /\ DialogExtends(dialog', collection')
  BY <1>1 DEF DialogShown, DialogExtends
<1>3. dialog.mode = "create" \/ (dialog.mode = "edit" /\ dialog.id \notin spoiled) =>
        Increasing(dialog.card.images) /\ ShownIn(files, FilesOf(dialog), dialog.card.images)
  BY DEF PicturesInv, DialogShown
<1>4. JobShown(job', files')
  <2>1. \/ job' \in {job, Rest}
        \/ /\ AcceptCreate
           /\ job' = [pc |-> "copy", id |-> NextId(Stored), card |-> dialog.card, n |-> 1]
    BY DEF AcceptCreate, AcceptEdit
  <2>2. CASE job' \in {job, Rest}
    BY <1>1, <2>2 DEF JobShown, Idle, Rest
  <2>3. CASE /\ AcceptCreate
             /\ job' = [pc |-> "copy", id |-> NextId(Stored), card |-> dialog.card, n |-> 1]
    <3>1. /\ job'.pc = "copy" /\ job'.card = dialog.card /\ job'.n = 1
          /\ 1 .. job'.n - 1 = {}
      BY <2>3
    <3> QED BY <1>1, <1>3, <2>3, <3>1 DEF JobShown, FilesOf
  <2> QED BY <2>1, <2>2, <2>3
<1>5. ASSUME NEW i \in Ids PROVE RecordShown(i)'
  <2>1. CASE Left(i)
    BY <1>1, <2>1, ShownWhenLeft DEF NamesInv, PicturesInv
  <2>2. CASE /\ AcceptCreate /\ i = NextId(Stored)
             /\ Saved([collection EXCEPT ![i] = IF @ = NoCard THEN dialog.card ELSE @])
    <3>1. collection'[i] = dialog.card
      BY <2>2, AddedRecord
    <3> QED BY <1>1, <1>3, <2>2, <3>1 DEF RecordShown, FilesOf, ShownIn, OwnFiles
  <2>3. CASE AcceptEdit /\ i = dialog.id /\ Saved([collection EXCEPT ![i] = dialog.card])
    <3>1. collection'[i] = dialog.card
      BY <2>3 DEF Saved, TypeInv, StoreTyped
    <3>2. i \in Settled' => i \notin spoiled
      BY <2>3, WhoIsSettledNext DEF AcceptEdit
    <3> QED BY <1>1, <1>3, <2>3, <3>1, <3>2 DEF RecordShown, FilesOf
  <2> QED BY <2>1, <2>2, <2>3, AcceptLeavesRecords
<1> QED BY <1>2, <1>4, <1>5 DEF PicturesInv

\* What an upgrade has to do with: renamings of some images, each from a name that carries
\* no id and does not begin with the record's to one that carries it, with the same index.
LEMMA UpgradeAtHand ==
    ASSUME TypeInv, UpgradeWorksOnItsRecord, IndicesFit, NamesInv, PicturesInv, Upgrading
    PROVE  /\ job.id \in Ids /\ job.card \in GoodCards /\ job.pc # "rest" /\ dialog = Closed
           /\ Increasing(job.card.images) /\ Fresh(job.card.images)
           /\ Len(Renamings) \in Nat
           /\ \A k \in DOMAIN job.card.images :
                 /\ job.card.images[k].file \in FileNames
                 /\ NormalizedName(job.id, job.card, k) \in FileNames
                 /\ Head(NormalizedName(job.id, job.card, k)) = job.id
                 /\ Index(NormalizedName(job.id, job.card, k)) = Index(job.card.images[k].file)
                 /\ Index(job.card.images[k].file) \in Nat
           /\ \E from : Renamed(job.id, job.card, from)
           /\ \A m \in 1 .. Len(Renamings) :
                 /\ Renamings[m].old \in FileNames /\ Renamings[m].new \in FileNames
                 /\ ~ CarriesAnId(Renamings[m].old) /\ Head(Renamings[m].old) # job.id
                 /\ CarriesAnId(Renamings[m].new) /\ Head(Renamings[m].new) = job.id
                 /\ \E k \in DOMAIN job.card.images : Renamings[m].old = job.card.images[k].file
<1> DEFINE ims == job.card.images
           new(k) == NormalizedName(job.id, job.card, k)
<1>1. job.pc # "rest" /\ dialog = Closed
  BY DEF Upgrading, UpgradeWorksOnItsRecord, Idle
<1>2. job.id \in Ids /\ job.card \in GoodCards /\ ims \in Seq(Images) /\ Len(ims) \in Nat
  BY <1>1, RunningJob
<1>3. Fresh(ims) /\ Increasing(ims)
  BY DEF NamesInv, JobNamed, PicturesInv, JobShown, Upgrading
<1>4. job.id \in Stored /\ collection[job.id] = job.card
  BY <1>2, NoCardIsNone, WhoIsStored DEF UpgradeWorksOnItsRecord, GoodCards
<1>5. \A k \in DOMAIN ims : Index(ims[k].file) < IndexBase
  BY <1>4 DEF IndicesFit
<1>6. \A k \in DOMAIN ims : ims[k].file \in FileNames /\ new(k) \in FileNames
  BY <1>2, NormalizedNames
<1>7. \A k \in DOMAIN ims : Index(ims[k].file) \in Nat /\ ParseIndex(ims[k].file) = Index(ims[k].file)
  BY <1>5, <1>6, IndicesWrap DEF Index
<1>8. \A k \in DOMAIN ims : /\ Head(new(k)) = job.id
                            /\ new(k) # ims[k].file => Head(ims[k].file) # job.id /\ CarriesAnId(new(k))
                            /\ Index(new(k)) = Index(ims[k].file)
  BY <1>2, <1>7, UpgradedNames
<1>9. Len(Renamings) \in Nat /\ \E from : Renamed(job.id, job.card, from)
  BY <1>2, RenamesAreNames DEF Renamings
<1>10. PICK from : Renamed(job.id, job.card, from)
  BY <1>9
<1> HIDE DEF ims, new
<1>11. ASSUME NEW m \in 1 .. Len(Renamings)
       PROVE  /\ Renamings[m].old \in FileNames /\ Renamings[m].new \in FileNames
              /\ ~ CarriesAnId(Renamings[m].old) /\ Head(Renamings[m].old) # job.id
              /\ CarriesAnId(Renamings[m].new) /\ Head(Renamings[m].new) = job.id
              /\ \E k \in DOMAIN ims : Renamings[m].old = ims[k].file
  <2>1. /\ from[m] \in DOMAIN ims /\ Renamings[m].old = ims[from[m]].file
        /\ Renamings[m].new = new(from[m]) /\ Renamings[m].old # Renamings[m].new
    BY <1>10 DEF Renamed, Renamings, ims, new
  <2> QED BY <1>3, <1>6, <1>8, <2>1 DEF Fresh
<1> QED BY <1>1, <1>2, <1>3, <1>6, <1>7, <1>8, <1>9, <1>11 DEF ims, new

\* The new names are as different as the old ones.
LEMMA NewNamesDiffer ==
    ASSUME TypeInv, UpgradeWorksOnItsRecord, IndicesFit, NamesInv, PicturesInv, Upgrading,
           NEW m \in 1 .. Len(Renamings), NEW l \in 1 .. Len(Renamings), m # l
    PROVE  Renamings[m].new # Renamings[l].new
<1>1. /\ Increasing(job.card.images) /\ Len(Renamings) \in Nat
      /\ \A k \in DOMAIN job.card.images :
            /\ Index(NormalizedName(job.id, job.card, k)) = Index(job.card.images[k].file)
            /\ Index(job.card.images[k].file) \in Nat
      /\ \E from : Renamed(job.id, job.card, from)
  BY UpgradeAtHand
<1>2. PICK from : Renamed(job.id, job.card, from)
  BY <1>1
<1>3. /\ from[m] \in DOMAIN job.card.images /\ from[l] \in DOMAIN job.card.images
      /\ Renamings[m].new = NormalizedName(job.id, job.card, from[m])
      /\ Renamings[l].new = NormalizedName(job.id, job.card, from[l])
      /\ m < l => from[m] < from[l]
      /\ l < m => from[l] < from[m]
  BY <1>2 DEF Renamed, Renamings
<1>4. m < l \/ l < m
  BY <1>1
<1>5. Index(job.card.images[from[m]].file) # Index(job.card.images[from[l]].file)
  BY <1>1, <1>3, <1>4 DEF Increasing
<1> QED BY <1>1, <1>3, <1>5

\* Once every renaming has its copy, every image shows its picture under its new name.
LEMMA AllCopied ==
    ASSUME TypeInv, UpgradeWorksOnItsRecord, IndicesFit, NamesInv, PicturesInv, Upgrading,
           NEW fs, ShownIn(fs, FileNames, job.card.images),
           \A m \in 1 .. Len(Renamings) : Copied(job, fs, m)
    PROVE  \A k \in DOMAIN job.card.images : Upgraded(job, fs, k)
<1> SUFFICES ASSUME NEW k \in DOMAIN job.card.images PROVE Upgraded(job, fs, k)
  OBVIOUS
<1> DEFINE f == job.card.images[k].file
<1>1. f \in FileNames /\ \E from : Renamed(job.id, job.card, from)
  BY UpgradeAtHand
<1>2. PICK from : Renamed(job.id, job.card, from)
  BY <1>1
<1>3. fs[f] = job.card.images[k].picture
  BY <1>1 DEF ShownIn
<1>4. CASE NormalizedName(job.id, job.card, k) = f
  BY <1>3, <1>4 DEF Upgraded
<1>5. CASE NormalizedName(job.id, job.card, k) # f
  <2>1. PICK m \in 1 .. Len(Renamings) : from[m] = k
    BY <1>2, <1>5 DEF Renamed, Renamings
  <2>2. Renamings[m].old = f /\ Renamings[m].new = NormalizedName(job.id, job.card, k)
    BY <1>2, <2>1 DEF Renamed, Renamings
  <2>3. fs[Renamings[m].new] = fs[Renamings[m].old]
    BY <2>1 DEF Copied, Renamings
  <2> QED BY <1>3, <2>2, <2>3 DEF Upgraded
<1> QED BY <1>4, <1>5

\* The pictures, when a file is copied to its new name.
LEMMA CopyNameKeepsPictures ==
    ASSUME TypeInv, UpgradeWorksOnItsRecord, IndicesFit, NamesInv, PicturesInv, CopyName
    PROVE  PicturesInv'
<1> DEFINE ims == job.card.images
           n == job.n
<1>1. /\ job.pc = "copy" /\ Upgrading /\ UNCHANGED <<collection, dialog, spoiled>>
      /\ job.pc # "rest" /\ job # Rest
  BY DEF CopyName, Upgrading, store, Rest
<1>2. /\ dialog = Closed /\ Increasing(ims) /\ Fresh(ims) /\ Len(Renamings) \in Nat
      /\ \A k \in DOMAIN ims : ims[k].file \in FileNames
      /\ \A m \in 1 .. Len(Renamings) :
            /\ Renamings[m].old \in FileNames /\ Renamings[m].new \in FileNames
            /\ ~ CarriesAnId(Renamings[m].old)
            /\ CarriesAnId(Renamings[m].new) /\ Head(Renamings[m].new) = job.id
      /\ job.id \in Ids
  BY <1>1, UpgradeAtHand
<1>3. n \in 1 .. Len(Renamings) /\ n \in Nat
  BY <1>1, RenamingAtHand
<1>4. Touched(Rename.new)
  BY CopyNameIsTyped
<1>5. ShownIn(files, FileNames, ims) /\ \A m \in 1 .. n - 1 : Copied(job, files, m)
  BY <1>1 DEF PicturesInv, JobShown
<1>6. JobGoes
  BY JobStepKinds
<1>7. ASSUME NEW i \in Ids PROVE RecordShown(i)'
  <2>1. i = job.id => i \notin Settled'
    BY <1>6, WhoIsSettledNext DEF JobGoes
  <2>2. Left(i) /\ RecordNamed(i) /\ RecordShown(i)
    BY <1>6, JobLeavesRecords DEF NamesInv, PicturesInv
  <2>3. Head(Rename.new) = job.id
    BY <1>2, <1>3 DEF Rename
  <2> QED BY <1>4, <2>1, <2>2, <2>3, ShownWhenLeft
<1>8. ShownIn(files', FileNames, ims)
  <2>1. \A k \in DOMAIN ims : ims[k].file # Rename.new /\ ims[k].file \in FileNames
    BY <1>2, <1>3 DEF Rename, Fresh
  <2> QED BY <1>4, <1>5, <2>1 DEF ShownIn, Touched
<1>9. \A m \in 1 .. n - 1 : Copied(job, files', m)
  <2> SUFFICES ASSUME NEW m \in 1 .. n - 1 PROVE Copied(job, files', m)
    OBVIOUS
  <2>1. m \in 1 .. Len(Renamings) /\ m # n
    BY <1>2, <1>3
  <2>2. Renamings[m].new # Rename.new
    BY <1>1, <1>3, <2>1, NewNamesDiffer DEF Rename
  <2>3. Renamings[m].old # Rename.new
    BY <1>2, <1>3, <2>1 DEF Rename
  <2>4. files[Renamings[m].new] = files[Renamings[m].old]
    BY <1>5 DEF Copied, Renamings
  <2>5. files'[Renamings[m].new] = files'[Renamings[m].old]
    BY <1>2, <1>4, <2>1, <2>2, <2>3, <2>4 DEF Touched
  <2> QED BY <2>5 DEF Copied, Renamings
<1>10. JobShown(job', files')
  <2>1. job'.id = job.id /\ job'.card = job.card
    BY <1>6 DEF JobGoes
  <2>2. CASE CopyFails(Rename.new) /\ Proceed("undo", n)
    <3>1. job'.pc = "undo"
      BY <1>1, <2>2 DEF Proceed, TypeInv, JobTyped
    <3> QED BY <1>2, <1>8, <2>1, <3>1 DEF JobShown
  <2>3. CASE /\ CopyTo(Rename.new, files[Rename.old])
             /\ IF n = Len(Renamings) THEN Proceed("removeOld", 1) ELSE Proceed("copy", n + 1)
    <3>1. Copied(job, files', n)
      <4>1. /\ Rename.new \in FileNames /\ Rename.old \in FileNames /\ Rename.old # Rename.new
        BY <1>2, <1>3 DEF Rename
      <4>2. files'[Rename.new] = files[Rename.old] /\ files'[Rename.old] = files[Rename.old]
        BY <2>3, <4>1 DEF CopyTo, TypeInv, FilesTyped
      <4> QED BY <4>2 DEF Copied, Rename, Renamings
    <3>2. \A m \in 1 .. n : Copied(job, files', m)
      <4>1. \A m \in 1 .. n : m \in 1 .. n - 1 \/ m = n
        BY <1>3
      <4> QED BY <1>9, <3>1, <4>1
    <3>3. CASE n = Len(Renamings)
      <4>1. job'.pc = "removeOld"
        BY <1>1, <2>3, <3>3 DEF Proceed, TypeInv, JobTyped
      <4>2. \A k \in DOMAIN ims : Upgraded(job, files', k)
        BY <1>1, <1>8, <3>2, <3>3, AllCopied
      <4>3. \A k \in DOMAIN ims : Upgraded(job', files', k)
        BY <2>1, <4>2 DEF Upgraded
      <4> QED BY <1>2, <2>1, <4>1, <4>3 DEF JobShown
    <3>4. CASE n # Len(Renamings)
      <4>1. job'.pc = "copy" /\ job'.n = n + 1
        BY <1>1, <2>3, <3>4 DEF Proceed, TypeInv, JobTyped
      <4>2. job'.n - 1 = n
        BY <1>3, <4>1
      <4>3. \A m \in 1 .. n : Copied(job', files', m)
        BY <2>1, <3>2 DEF Copied
      <4> QED BY <1>2, <1>8, <2>1, <4>1, <4>2, <4>3 DEF JobShown
    <3> QED BY <3>3, <3>4
  <2> QED BY <2>2, <2>3 DEF CopyName
<1>11. DialogShown(dialog', spoiled', files') /\ DialogExtends(dialog', collection')
  BY <1>1, <1>2 DEF DialogShown, DialogExtends, Closed
<1> QED BY <1>7, <1>10, <1>11 DEF PicturesInv

\* Undoing an upgrade removes new names only, and giving it up removes nothing.
LEMMA UndoCopyKeepsPictures ==
    ASSUME TypeInv, UpgradeWorksOnItsRecord, IndicesFit, NamesInv, PicturesInv, UndoCopy
    PROVE  PicturesInv'
<1> DEFINE ims == job.card.images
<1>1. job.pc = "undo" /\ Upgrading /\ UNCHANGED <<collection, dialog>>
  BY DEF UndoCopy, Upgrading, store
<1>2. /\ dialog = Closed /\ Increasing(ims) /\ Fresh(ims)
      /\ \A k \in DOMAIN ims : ims[k].file \in FileNames
      /\ \A m \in 1 .. Len(Renamings) :
            CarriesAnId(Renamings[m].new) /\ Head(Renamings[m].new) = job.id
      /\ job.id \in Ids
  BY <1>1, UpgradeAtHand
<1>3. DialogShown(dialog', spoiled', files') /\ DialogExtends(dialog', collection')
  BY <1>1, <1>2 DEF DialogShown, DialogExtends, Closed
<1>4. CASE Spoil /\ files' = files
  <2>1. \A i \in Ids : Left(i)
    BY <1>1, <1>4, JobLeavesRecords
  <2>2. \A i \in Ids : RecordShown(i)'
    BY <1>4, <2>1, ShownWhenLeft DEF NamesInv, PicturesInv
  <2>3. JobShown(job', files')
    BY <1>4 DEF Spoil, Rest, JobShown
  <2> QED BY <1>3, <2>2, <2>3 DEF PicturesInv
<1>5. ASSUME NEW m \in 1 .. Len(Renamings), Touched(Renamings[m].new), Proceed("undo", m),
             spoiled' = spoiled
      PROVE  PicturesInv'
  <2>1. job'.pc = "undo" /\ job'.id = job.id /\ job'.card = job.card
    BY <1>1, <1>5 DEF Proceed, TypeInv, JobTyped, Rest
  <2>2. JobGoes
    BY <1>1, <1>5, <2>1 DEF JobGoes, Upgrading
  <2>3. ASSUME NEW i \in Ids PROVE RecordShown(i)'
    <3>1. i = job.id => i \notin Settled'
      BY <2>1, WhoIsSettledNext
    <3>2. Left(i) /\ RecordNamed(i) /\ RecordShown(i)
      BY <2>2, JobLeavesRecords DEF NamesInv, PicturesInv
    <3> QED BY <1>2, <1>5, <3>1, <3>2, ShownWhenLeft
  <2>4. ShownIn(files', FileNames, ims)
    <3>1. \A k \in DOMAIN ims : ims[k].file # Renamings[m].new /\ ims[k].file \in FileNames
      BY <1>2, <1>5 DEF Fresh
    <3>2. ShownIn(files, FileNames, ims)
      BY <1>1 DEF PicturesInv, JobShown
    <3> QED BY <1>5, <3>1, <3>2 DEF ShownIn, Touched
  <2>5. JobShown(job', files')
    BY <1>2, <2>1, <2>4 DEF JobShown
  <2> QED BY <1>3, <2>3, <2>5 DEF PicturesInv
<1> QED BY <1>4, <1>5, UndoCopyIsTyped

\* The pictures, when an old name is removed: the new ones show them by now.
LEMMA RemoveOldNameKeepsPictures ==
    ASSUME TypeInv, UpgradeWorksOnItsRecord, IndicesFit, NamesInv, PicturesInv, RemoveOldName
    PROVE  PicturesInv'
<1> DEFINE ims == job.card.images
<1>1. job.pc = "removeOld" /\ job.pc # "rest" /\ Upgrading /\ UNCHANGED <<collection, dialog>>
  BY DEF RemoveOldName, Upgrading, store
<1>2. /\ dialog = Closed /\ Increasing(ims)
      /\ \A k \in DOMAIN ims : /\ NormalizedName(job.id, job.card, k) \in FileNames
                               /\ Head(NormalizedName(job.id, job.card, k)) = job.id
      /\ \A m \in 1 .. Len(Renamings) :
            ~ CarriesAnId(Renamings[m].old) /\ Head(Renamings[m].old) # job.id
      /\ job.id \in Ids
  BY <1>1, UpgradeAtHand
<1>3. Touched(Rename.old) /\ ~ CarriesAnId(Rename.old) /\ Head(Rename.old) # job.id
  BY <1>1, <1>2, RemoveOldNameIsTyped, RenamingAtHand DEF Rename
<1>4. DialogShown(dialog', spoiled', files') /\ DialogExtends(dialog', collection')
  BY <1>1, <1>2 DEF DialogShown, DialogExtends, Closed
<1>5. \A i \in Ids : Left(i)
  BY <1>1, JobStepKinds, JobLeavesRecords
<1>6. \A i \in Ids : RecordShown(i)'
  BY <1>3, <1>5, ShownWhenLeft DEF NamesInv, PicturesInv
<1>7. \A k \in DOMAIN ims : Upgraded(job, files', k)
  <2>1. \A k \in DOMAIN ims : Upgraded(job, files, k)
    BY <1>1 DEF PicturesInv, JobShown
  <2>2. \A k \in DOMAIN ims : /\ NormalizedName(job.id, job.card, k) # Rename.old
                              /\ NormalizedName(job.id, job.card, k) \in FileNames
    BY <1>2, <1>3
  <2> QED BY <1>3, <2>1, <2>2 DEF Upgraded, Touched
<1>8. JobShown(job', files')
  <2>1. CASE Spoil
    BY <2>1 DEF Spoil, Rest, JobShown
  <2>2. ASSUME NEW pc \in {"removeOld", "update"}, NEW m, Proceed(pc, m) PROVE JobShown(job', files')
    <3>1. job'.pc \in {"removeOld", "update"} /\ job'.id = job.id /\ job'.card = job.card
      BY <1>1, <2>2 DEF Proceed, TypeInv, JobTyped, Rest
    <3> QED BY <1>2, <1>7, <3>1 DEF JobShown, Upgraded
  <2>3. Spoil \/ Proceed("update", 0) \/ Proceed("removeOld", job.n + 1)
    BY DEF RemoveOldName
  <2> QED BY <2>1, <2>2, <2>3
<1> QED BY <1>4, <1>6, <1>8 DEF PicturesInv

\* The save that ends an upgrade brings in the new names, which show the pictures by now.
LEMMA LastSavesKeepPictures ==
    ASSUME TypeInv, UpgradeWorksOnItsRecord, IndicesFit, NamesInv, PicturesInv, SaveNames \/ EraseRecord
    PROVE  PicturesInv'
<1>1. /\ job.pc # "rest" /\ job'.pc = "rest" /\ dialog' = dialog /\ files' = files
      /\ dialog = Closed
  BY DEF SaveNames, EraseRecord, Spoil, Rest, UpgradeWorksOnItsRecord, Idle
<1>2. /\ DialogShown(dialog', spoiled', files') /\ DialogExtends(dialog', collection')
      /\ JobShown(job', files')
  BY <1>1 DEF DialogShown, DialogExtends, JobShown, Closed
<1>3. ASSUME NEW i \in Ids PROVE RecordShown(i)'
  <2>1. CASE Left(i)
    BY <1>1, <2>1, ShownWhenLeft DEF NamesInv, PicturesInv
  <2>2. CASE /\ SaveNames /\ i = job.id
             /\ Saved([collection EXCEPT ![job.id] = Normalized(job.id, job.card)])
    <3> DEFINE ims == job.card.images
               new == Normalized(job.id, job.card).images
    <3>1. job.pc = "update" /\ Upgrading
      BY <2>2 DEF SaveNames, Upgrading
    <3>2. /\ Increasing(ims) /\ job.id \in Ids /\ job.card \in GoodCards
          /\ \A k \in DOMAIN ims :
                Index(NormalizedName(job.id, job.card, k)) = Index(ims[k].file)
      BY <3>1, UpgradeAtHand
    <3>3. \A k \in DOMAIN ims : Upgraded(job, files, k)
      BY <3>1 DEF PicturesInv, JobShown
    <3>4. /\ DOMAIN new = DOMAIN ims
          /\ \A k \in DOMAIN ims : /\ new[k].file = NormalizedName(job.id, job.card, k)
                                   /\ new[k].picture = ims[k].picture
      BY <3>2, NormalizedCard
    <3>5. collection'[i].images = new
      BY <2>2 DEF Saved, TypeInv, StoreTyped
    <3> HIDE DEF new, ims
    <3>6. Increasing(new)
      BY <3>2, <3>4 DEF Increasing
    <3>7. ShownIn(files, OwnFiles, new)
      BY <3>3, <3>4 DEF ShownIn, Upgraded, ims
    <3> QED BY <1>1, <3>5, <3>6, <3>7 DEF RecordShown
  <2> QED BY <2>1, <2>2, LastSaveLeavesRecords
<1> QED BY <1>2, <1>3 DEF PicturesInv

\* The pictures of the other records, when a record's images are deleted.
LEMMA DeletionsKeepPictures ==
    ASSUME TypeInv, UpgradeWorksOnItsRecord, NamesInv, PicturesInv, DeleteImage
    PROVE  PicturesInv'
<1>1. /\ job.pc = "removeImages" /\ JobGoes /\ dialog = Closed
      /\ job'.pc \notin {"copy", "undo", "removeOld", "update"}
  <2>1. job.pc = "removeImages" /\ JobGoes
    BY JobStepKinds DEF DeleteImage
  <2> QED BY <2>1 DEF JobGoes, Upgrading, UpgradeWorksOnItsRecord, Idle
<1>2. /\ DialogShown(dialog', spoiled', files') /\ DialogExtends(dialog', collection')
      /\ JobShown(job', files')
  BY <1>1 DEF DialogShown, DialogExtends, JobShown, JobGoes, Closed
<1>3. ASSUME NEW i \in Ids PROVE RecordShown(i)'
  <2>1. i = job.id => i \notin Settled'
    BY <1>1, WhoIsSettledNext DEF JobGoes
  <2>2. Left(i) /\ RecordNamed(i) /\ RecordShown(i)
    BY <1>1, JobLeavesRecords DEF NamesInv, PicturesInv
  <2>3. \A k \in DOMAIN job.card.images :
            Head(job.card.images[k].file) = job.id \/ ~ CarriesAnId(job.card.images[k].file)
    BY <1>1 DEF NamesInv, JobNamed, OwnOrFresh
  <2> QED BY <2>1, <2>2, <2>3, DeleteImageIsTyped, ShownWhenLeft
<1> QED BY <1>2, <1>3 DEF PicturesInv

\* The pictures, for the steps that touch no file.
LEMMA OtherStepsKeepPictures ==
    ASSUME TypeInv, UpgradeWorksOnItsRecord, NamesInv, PicturesInv,
           \/ \E j \in Ids : Delete(j)
           \/ \E old, new \in Titles : SyncSets(old, new)
           \/ Crash
    PROVE  PicturesInv'
<1>1. files' = files /\ dialog'.mode = "closed"
        /\ job'.pc \notin {"copy", "undo", "removeOld", "update"}
  <2>1. ASSUME NEW j \in Ids, Delete(j)
        PROVE  files' = files /\ dialog' = Closed /\ job'.pc = "removeImages"
    BY <2>1 DEF Delete
  <2>2. ASSUME NEW old \in Titles, NEW new \in Titles, SyncSets(old, new)
        PROVE  files' = files /\ dialog' = Closed /\ job'.pc = "rest"
    BY <2>2 DEF SyncSets, Idle
  <2>3. Crash => files' = files /\ dialog' = Closed /\ job'.pc = "rest"
    BY DEF Crash, Rest
  <2> QED BY <2>1, <2>2, <2>3 DEF Closed
<1>2. \A i \in Ids : RecordShown(i)'
  BY <1>1, OtherStepsLeaveRecords, ShownWhenLeft DEF NamesInv, PicturesInv
<1> QED BY <1>1, <1>2 DEF PicturesInv, DialogShown, DialogExtends, JobShown

\* The pictures, for every step.
LEMMA StepsKeepPictures ==
    ASSUME TypeInv, UpgradeWorksOnItsRecord, IndicesFit, NamesInv, PicturesInv, [Next]_vars
    PROVE  PicturesInv'
<1>1. CASE UNCHANGED vars
  BY <1>1 DEF vars, PicturesInv, RecordShown, Stored, Settled, Unsettled, Abandoned, Idle
<1>2. CASE DialogStep
  BY <1>2, DialogStepsKeepPictures
<1>3. CASE AcceptCreate \/ AcceptEdit
  BY <1>3, AcceptsKeepPictures
<1>4. CASE JobStep
  BY <1>4, CopyNameKeepsPictures, UndoCopyKeepsPictures, RemoveOldNameKeepsPictures,
     LastSavesKeepPictures, DeletionsKeepPictures DEF JobStep
<1>5. CASE \/ \E j \in Ids : Delete(j)
           \/ \E old, new \in Titles : SyncSets(old, new)
           \/ Crash
  BY <1>5, OtherStepsKeepPictures
<1> QED BY <1>1, <1>2, <1>3, <1>4, <1>5 DEF Next, DialogStep, JobStep

\* There is no picture at first.
LEMMA InitIsShown == Init => PicturesInv
BY DEF Init, PicturesInv, RecordShown, Stored, Settled, DialogShown, DialogExtends, JobShown, Closed, Rest

\* PicturesInv is stronger than the two properties.
LEMMA PicturesFollow ==
    ASSUME TypeInv, UpgradeWorksOnItsRecord, PicturesInv
    PROVE  ImagesShowTheirPictures /\ UpgradeKeepsThePictures
<1>1. ASSUME NEW i \in Settled PROVE ShowsOwn(collection[i].images)
  <2>1. i \in Ids /\ i \in Stored /\ ShownIn(files, OwnFiles, collection[i].images)
    BY DEF PicturesInv, RecordShown, Settled, Stored
  <2>2. collection[i] \in GoodCards
    BY <2>1, WhoIsStored DEF TypeInv, StoreTyped
  <2>3. \A k \in DOMAIN collection[i].images : collection[i].images[k].file \in FileNames
    BY <2>1, <2>2, NormalizedNames
  <2> QED BY <2>1, <2>3 DEF ShownIn, OwnFiles, ShowsOwn
<1>2. /\ dialog.mode = "create" => Shows(dialog.card.images)
      /\ dialog.mode = "edit" /\ dialog.id \notin spoiled => ShowsOwn(dialog.card.images)
  <2>1. CASE dialog = Closed
    BY <2>1 DEF Closed
  <2>2. CASE dialog # Closed
    <3>1. \A k \in DOMAIN dialog.card.images : dialog.card.images[k].file \in FileNames
      BY <2>2, OpenDialog
    <3> QED BY <3>1 DEF PicturesInv, DialogShown, FilesOf, OwnFiles, ShownIn, Shows, ShowsOwn
  <2> QED BY <2>1, <2>2
<1>3. ASSUME job.pc \in {"copy", "undo"} PROVE Shows(collection[job.id].images)
  <2>1. job.pc # "rest" /\ ShownIn(files, FileNames, job.card.images) /\ collection[job.id] = job.card
    BY <1>3 DEF PicturesInv, JobShown, UpgradeWorksOnItsRecord, Upgrading
  <2>2. job.id \in Ids /\ job.card \in GoodCards
    BY <2>1, RunningJob
  <2> QED BY <2>1, <2>2, NormalizedNames DEF ShownIn, Shows
<1>4. ASSUME job.pc \in {"removeOld", "update"} PROVE Shows(Normalized(job.id, job.card).images)
  <2>1. job.pc # "rest" /\ \A k \in DOMAIN job.card.images : Upgraded(job, files, k)
    BY <1>4 DEF PicturesInv, JobShown
  <2>2. job.id \in Ids /\ job.card \in GoodCards
    BY <2>1, RunningJob
  <2> QED BY <2>1, <2>2, NormalizedCard DEF Shows, Upgraded
<1> QED BY <1>1, <1>2, <1>3, <1>4 DEF ImagesShowTheirPictures, UpgradeKeepsThePictures

\* Whatever is done to other records, whatever fails and wherever the process dies: every
\* image of a record under a name that carries an id shows the picture the user attached,
\* unless an accident befell the record itself.
THEOREM PicturesAreKept == Spec /\ []IndicesFit => []ImagesShowTheirPictures
<1>1. Spec => []TypeInv
  BY InitIsTyped, StepsAreTyped, PTL DEF Spec
<1>2. TypeInv /\ UpgradeWorksOnItsRecord /\ NamesInv /\ [Next]_vars => NamesInv'
  BY StepsKeepNames
<1>3. TypeInv /\ UpgradeWorksOnItsRecord /\ NamesInv /\ PicturesInv /\ IndicesFit /\ [Next]_vars => PicturesInv'
  BY StepsKeepPictures
<1>4. TypeInv /\ UpgradeWorksOnItsRecord /\ PicturesInv => ImagesShowTheirPictures
  BY PicturesFollow
<1> QED BY <1>1, <1>2, <1>3, <1>4, UpgradeIsUndisturbed, InitIsNamed, InitIsShown, PTL DEF Spec

\* At whichever of its file operations an upgrade fails or the process dies, there is a
\* name for every picture of the record: the one in collection.json until all copies are
\* made, and the one about to be saved from then on.
THEOREM UpgradeLosesNothing == Spec /\ []IndicesFit => []UpgradeKeepsThePictures
<1>1. Spec => []TypeInv
  BY InitIsTyped, StepsAreTyped, PTL DEF Spec
<1>2. TypeInv /\ UpgradeWorksOnItsRecord /\ NamesInv /\ [Next]_vars => NamesInv'
  BY StepsKeepNames
<1>3. TypeInv /\ UpgradeWorksOnItsRecord /\ NamesInv /\ PicturesInv /\ IndicesFit /\ [Next]_vars => PicturesInv'
  BY StepsKeepPictures
<1>4. TypeInv /\ UpgradeWorksOnItsRecord /\ PicturesInv => UpgradeKeepsThePictures
  BY PicturesFollow
<1> QED BY <1>1, <1>2, <1>3, <1>4, UpgradeIsUndisturbed, InitIsNamed, InitIsShown, PTL DEF Spec
=============================================================================
