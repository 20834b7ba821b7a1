--------------------------- MODULE CardCollection ---------------------------
(***************************************************************************)
(* A game's collection: the records in collection.json (CollectionService  *)
(* over JsonCollectionRepository), the image files they list (ImageService *)
(* over LocalImageStore), the modal Add/Edit dialog, and what a game view  *)
(* does with them.  The dialog copies and removes image files while it is  *)
(* open; the record that lists them is only written when it is accepted.   *)
(* Everything runs on the UI thread, but every file operation may fail and *)
(* the process may die between any two of them.                            *)
(*                                                                         *)
(* A file name is the sequence of its '+'-separated parts, each a number:  *)
(* a part that is the decimal form of n is n, any other text is a number   *)
(* no id reaches.  The texts hold no '+' of their own, and the extension   *)
(* is left out.  A picture stands for what the user attached, whatever     *)
(* file it ends up in.                                                     *)
(***************************************************************************)
EXTENDS Naturals, SequencesExt, Filtering

CONSTANTS
    MaxId,       \* bound on record ids
    Titles,      \* <<set, name>>, as formatTextForFs leaves them
    IndexBase,   \* parseIndexFromFilename reads an index modulo this: 100
    MaxImages,   \* bound on the images of a record
    MaxPictures, \* bound on the pictures ever attached
    MaxAccidents,\* bound on the file operations that fail and on the crashes
    NoCard

Ids == 0 .. MaxId

ASSUME CollectionAssumption ==
    /\ MaxId \in Nat /\ MaxPictures \in Nat /\ MaxAccidents \in Nat
    /\ IndexBase \in Nat \ {0}
    /\ MaxImages \in 0 .. IndexBase
    /\ Titles \subseteq Nat \X Nat
    /\ NoCard \notin [title : Nat \X Nat, images : Seq([file : Seq(Nat), picture : Nat])]

VARIABLES
    collection, \* the records of collection.json, by id
    readable,   \* whether collection.json can still be parsed
    files,      \* what each file of the images directory shows
    dialog,     \* the Add/Edit dialog
    job,        \* what the game view is doing after the dialog, or a deletion
    pictures,   \* how many pictures were attached so far
    accidents,  \* how many file operations failed and how often the process died
    spoiled     \* history: records whose images an accident may have damaged

vars == <<collection, readable, files, dialog, job, pictures, accidents, spoiled>>

store == <<collection, readable>>

Nothing == 0
Torn    == MaxPictures + 1

CreateName(title, n)        == title \o <<n>>
PersistedName(id, title, n) == <<id>> \o title \o <<n>>

Indices   == 0 .. IndexBase
FileNames == {CreateName(t, n) : t \in Titles, n \in Indices}
                 \cup {PersistedName(i, t, n) : i \in Ids, t \in Titles, n \in Indices}
Images    == [file : FileNames, picture : 1 .. MaxPictures]
Cards     == [title : Titles, images : Seq(Images)]

Closed == [mode |-> "closed", id |-> 0, card |-> NoCard, pruned |-> FALSE]
Rest   == [pc |-> "rest", id |-> 0, card |-> NoCard, n |-> 0]

TypeOK ==
    /\ collection \in [Ids -> Cards \cup {NoCard}]
    /\ readable \in BOOLEAN
    /\ files \in [FileNames -> Nothing .. Torn]
    /\ dialog \in [mode : {"closed", "create", "edit"}, id : Ids,
                   card : Cards \cup {NoCard}, pruned : BOOLEAN]
    /\ job \in [pc : {"rest", "copy", "undo", "removeOld", "update", "removeImages", "erase"},
                id : Ids, card : Cards \cup {NoCard}, n : 0 .. MaxImages + 1]
    /\ \A c \in {collection[i] : i \in Ids} \cup {dialog.card, job.card} :
          c # NoCard => Len(c.images) <= MaxImages
    /\ pictures \in 0 .. MaxPictures
    /\ accidents \in 0 .. MaxAccidents
    /\ spoiled \subseteq Ids

Init ==
    /\ collection = [i \in Ids |-> NoCard]
    /\ readable = TRUE
    /\ files = [f \in FileNames |-> Nothing]
    /\ dialog = Closed
    /\ job = Rest
    /\ pictures = 0
    /\ accidents = 0
    /\ spoiled = {}

-----------------------------------------------------------------------------
\* File operations

Accident == accidents < MaxAccidents /\ accidents' = accidents + 1

CopyTo(f, p)  == files' = [files EXCEPT ![f] = p] /\ UNCHANGED accidents
RemoveFile(f) == files' = [files EXCEPT ![f] = Nothing] /\ UNCHANGED accidents

\* copyFile overwrites; when it fails midway it leaves a torn target.
CopyFails(f) == Accident /\ files' \in {files, [files EXCEPT ![f] = Torn]}

\* remove fails only on a file that exists.
RemoveFails(f) == Accident /\ files[f] # Nothing /\ UNCHANGED files

\* writeText truncates collection.json before it writes; and what cannot be
\* parsed is not written to, since every operation loads first.
Saved(c) == readable /\ collection' = c /\ UNCHANGED <<readable, accidents>>
SaveFails ==
    \/ ~ readable /\ UNCHANGED <<store, accidents>>
    \/ readable /\ Accident /\ UNCHANGED store
    \/ /\ readable /\ Accident
       /\ collection' = [i \in Ids |-> NoCard]
       /\ readable' = FALSE

-----------------------------------------------------------------------------
\* ImageService

ParseIndex(f) == f[Len(f)] % IndexBase

\* Mutant: the index is the number of images.
NextIndexByCount(images) == Len(images)

NextImageIndex(images) ==
    IF images = <<>> THEN 0 ELSE ParseIndex(images[Len(images)].file) + 1

BuildTargetName(mode, id, title, n) ==
    IF mode = "create" THEN CreateName(title, n) ELSE PersistedName(id, title, n)

\* Mutant: only the first image is looked at.
UpgradesFirst(id, f, k) == Head(f) # id /\ k = 1

\* oldName.starts_with(idPrefix) spares a name.
Upgrades(id, f, k) == Head(f) # id

NormalizedName(id, card, k) ==
    LET f == card.images[k].file
    IN  IF Upgrades(id, f, k) THEN PersistedName(id, card.title, ParseIndex(f)) ELSE f

Normalized(id, card) ==
    [card EXCEPT !.images = [k \in DOMAIN @ |-> [@[k] EXCEPT !.file = NormalizedName(id, card, k)]]]

Renames == {r \in [old : FileNames, new : FileNames] : r.old # r.new}

RenamesOf(id, card) ==
    KeepIn([k \in DOMAIN card.images |-> [old |-> card.images[k].file,
                                          new |-> NormalizedName(id, card, k)]], Renames)

-----------------------------------------------------------------------------
\* The dialog

Idle == job.pc = "rest"

OpenCreate(t) ==
    /\ Idle /\ dialog = Closed
    /\ dialog' = [Closed EXCEPT !.mode = "create", !.card = [title |-> t, images |-> <<>>]]
    /\ UNCHANGED <<store, files, job, pictures, accidents, spoiled>>

OpenEdit(i) ==
    /\ Idle /\ dialog = Closed
    /\ collection[i] # NoCard
    /\ dialog' = [mode |-> "edit", id |-> i, card |-> collection[i], pruned |-> FALSE]
    /\ UNCHANGED <<store, files, job, pictures, accidents, spoiled>>

Retitle(t) ==
    /\ dialog # Closed
    /\ dialog' = [dialog EXCEPT !.card.title = t]
    /\ UNCHANGED <<store, files, job, pictures, accidents, spoiled>>

\* onAddImage, for one of the chosen files
AddImage ==
    /\ dialog # Closed
    /\ Len(dialog.card.images) < MaxImages /\ pictures < MaxPictures
    /\ pictures' = pictures + 1
    /\ LET f == BuildTargetName(dialog.mode, dialog.id, dialog.card.title,
                                NextImageIndex(dialog.card.images))
       IN  \/ /\ CopyTo(f, pictures')
              /\ dialog' = [dialog EXCEPT !.card.images =
                               Append(@, [file |-> f, picture |-> pictures'])]
           \/ CopyFails(f) /\ UNCHANGED dialog
    /\ UNCHANGED <<store, job, spoiled>>

\* onRemoveImage
RemoveImage(k) ==
    /\ dialog # Closed /\ k \in DOMAIN dialog.card.images
    /\ RemoveFile(dialog.card.images[k].file)
    /\ dialog' = [dialog EXCEPT !.pruned = TRUE,
                     !.card.images = [j \in 1 .. Len(@) - 1 |-> IF j < k THEN @[j] ELSE @[j + 1]]]
    /\ UNCHANGED <<store, job, pictures, spoiled>>

\* The record a closing or dying dialog leaves behind with files it removed.
Abandoned == IF dialog.mode = "edit" /\ dialog.pruned THEN {dialog.id} ELSE {}

Cancel ==
    /\ dialog # Closed
    /\ dialog' = Closed
    /\ spoiled' = spoiled \cup Abandoned
    /\ UNCHANGED <<store, files, job, pictures, accidents>>

-----------------------------------------------------------------------------
\* What the game view does with an accepted dialog

Stored == {i \in Ids : collection[i] # NoCard}

\* Mutant: ids count the records.
NextIdByCount(ids) == Cardinality(ids)

NextId(ids) == IF ids = {} THEN 0 ELSE 1 + CHOOSE i \in ids : \A j \in ids : j <= i

\* onAddCard up to collection_.add: the record is stored under the next id, by
\* map.emplace.  Its image names are upgraded next.
AcceptCreate ==
    LET id == NextId(Stored) IN
    /\ dialog.mode = "create" /\ id \in Ids
    /\ dialog' = Closed
    /\ \/ /\ Saved([collection EXCEPT ![id] = IF @ = NoCard THEN dialog.card ELSE @])
          /\ job' = IF RenamesOf(id, dialog.card) = <<>> THEN Rest
                    ELSE [pc |-> "copy", id |-> id, card |-> dialog.card, n |-> 1]
       \/ SaveFails /\ UNCHANGED job
    /\ UNCHANGED <<files, pictures, spoiled>>

\* onEditCard after the dialog
AcceptEdit ==
    /\ dialog.mode = "edit"
    /\ dialog' = Closed
    /\ \/ /\ Saved([collection EXCEPT ![dialog.id] = dialog.card])
          /\ UNCHANGED spoiled
       \/ /\ SaveFails
          /\ spoiled' = spoiled \cup Abandoned
    /\ UNCHANGED <<files, job, pictures>>

-----------------------------------------------------------------------------
\* normalizeNamesForPersistedCard and the update that follows: every file is
\* copied to its new name, then every old one is removed, then the record is
\* saved again.

Renamings == RenamesOf(job.id, job.card)
Rename    == Renamings[job.n]

Proceed(pc, n) == job' = [job EXCEPT !.pc = pc, !.n = n]
Spoil          == job' = Rest /\ spoiled' = spoiled \cup {job.id}

\* Mutant: each file is moved to its new name, one after the other.
MoveName ==
    /\ job.pc = "copy"
    /\ \/ /\ files[Rename.old] # Nothing
          /\ files' = [files EXCEPT ![Rename.new] = files[Rename.old], ![Rename.old] = Nothing]
          /\ IF job.n = Len(Renamings) THEN Proceed("removeOld", 1) ELSE Proceed("copy", job.n + 1)
          /\ UNCHANGED accidents
       \/ /\ CopyFails(Rename.new)
          /\ Proceed("undo", job.n)
    /\ UNCHANGED <<store, dialog, pictures, spoiled>>

CopyName ==
    /\ job.pc = "copy"
    /\ \/ /\ files[Rename.old] # Nothing
          /\ CopyTo(Rename.new, files[Rename.old])
          /\ IF job.n = Len(Renamings) THEN Proceed("removeOld", 1) ELSE Proceed("copy", job.n + 1)
       \/ /\ CopyFails(Rename.new)
          /\ Proceed("undo", job.n)
    /\ UNCHANGED <<store, dialog, pictures, spoiled>>

\* The copies made so far are removed, as far as that goes.
UndoCopy ==
    /\ job.pc = "undo"
    /\ IF job.n = 1 THEN Spoil /\ UNCHANGED <<files, accidents>>
       ELSE /\ Proceed("undo", job.n - 1) /\ UNCHANGED spoiled
            /\ LET f == Renamings[job.n - 1].new IN RemoveFile(f) \/ RemoveFails(f)
    /\ UNCHANGED <<store, dialog, pictures>>

RemoveOldName ==
    /\ job.pc = "removeOld"
    /\ \/ /\ RemoveFile(Rename.old)
          /\ IF job.n = Len(Renamings) THEN Proceed("update", 0) ELSE Proceed("removeOld", job.n + 1)
          /\ UNCHANGED spoiled
       \/ RemoveFails(Rename.old) /\ Spoil
    /\ UNCHANGED <<store, dialog, pictures>>

SaveNames ==
    /\ job.pc = "update"
    /\ \/ /\ Saved([collection EXCEPT ![job.id] = Normalized(job.id, job.card)])
          /\ job' = Rest
          /\ UNCHANGED spoiled
       \/ SaveFails /\ Spoil
    /\ UNCHANGED <<files, dialog, pictures>>

-----------------------------------------------------------------------------
\* CollectionService::remove: the images first, then the record

Delete(i) ==
    /\ Idle /\ dialog = Closed
    /\ collection[i] # NoCard
    /\ job' = [pc |-> "removeImages", id |-> i, card |-> collection[i], n |-> 1]
    /\ UNCHANGED <<store, files, dialog, pictures, accidents, spoiled>>

DeleteImage ==
    /\ job.pc = "removeImages"
    /\ IF job.n > Len(job.card.images)
       THEN Proceed("erase", 0) /\ UNCHANGED <<files, accidents>>
       ELSE /\ Proceed("removeImages", job.n + 1)
            /\ LET f == job.card.images[job.n].file IN RemoveFile(f) \/ RemoveFails(f)
    /\ UNCHANGED <<store, dialog, pictures, spoiled>>

EraseRecord ==
    /\ job.pc = "erase"
    /\ \/ /\ Saved([collection EXCEPT ![job.id] = NoCard])
          /\ job' = Rest
          /\ spoiled' = spoiled \ {job.id}
       \/ SaveFails /\ Spoil
    /\ UNCHANGED <<files, dialog, pictures>>

-----------------------------------------------------------------------------
\* onUpdateSets: a set that has a new name upstream is renamed in every record,
\* by saveAll; image names stay as they are.
Affected(old) == {i \in Stored : collection[i].title = old}

SyncSets(old, new) ==
    /\ Idle /\ dialog = Closed
    /\ old # new /\ Affected(old) # {}
    /\ \/ Saved([i \in Ids |-> IF i \in Affected(old) THEN [collection[i] EXCEPT !.title = new]
                              ELSE collection[i]])
       \/ SaveFails
    /\ UNCHANGED <<files, dialog, job, pictures, spoiled>>

-----------------------------------------------------------------------------
\* The records that something is being done to
Unsettled == Abandoned \cup IF Idle THEN {} ELSE {job.id}

\* The process dies.
Crash ==
    /\ ~ Idle \/ dialog # Closed
    /\ dialog' = Closed
    /\ job' = Rest
    /\ spoiled' = spoiled \cup Unsettled
    /\ Accident
    /\ UNCHANGED <<store, files, pictures>>

Next ==
    \/ \E t \in Titles : OpenCreate(t) \/ Retitle(t)
    \/ \E i \in Ids : OpenEdit(i) \/ Delete(i)
    \/ AddImage
    \/ \E k \in 1 .. MaxImages : RemoveImage(k)
    \/ Cancel \/ AcceptCreate \/ AcceptEdit
    \/ CopyName \/ UndoCopy \/ RemoveOldName \/ SaveNames
    \/ DeleteImage \/ EraseRecord
    \/ \E old, new \in Titles : SyncSets(old, new)
    \/ Crash

Spec == Init /\ [][Next]_vars

-----------------------------------------------------------------------------
\* Properties

Settled == Stored \ (spoiled \cup Unsettled)

\* A name that an Edit dialog or the upgrade gave has four parts, the first the id of its
\* record; one that an Add dialog gave has three.
CarriesAnId(f) == Len(f) = 4

Shows(images)     == \A k \in DOMAIN images : files[images[k].file] = images[k].picture
ShowsOwn(images)  == \A k \in DOMAIN images :
                         CarriesAnId(images[k].file) => files[images[k].file] = images[k].picture

\* Every image of a record whose name carries an id shows the picture the user attached
\* to it, whatever happens to other records and whatever accidents befell them, and so do
\* all images of a record that is being added: no file is overwritten, renamed away or
\* deleted under a record that nobody is working on.  A name without an id, which the
\* upgrade spares if the text of the set is the id, is not the record's alone: the next
\* card of that set and name to be added takes the same one.
ImagesShowTheirPictures ==
    /\ \A i \in Settled : ShowsOwn(collection[i].images)
    /\ dialog.mode = "create" => Shows(dialog.card.images)
    /\ dialog.mode = "edit" /\ dialog.id \notin spoiled => ShowsOwn(dialog.card.images)

\* Upgrading the names never loses a picture, at whichever file operation it
\* fails or the process dies: until every copy is made the names in the record
\* show their pictures, and from then on the new names do.
UpgradeKeepsThePictures ==
    /\ job.pc \in {"copy", "undo"} => Shows(collection[job.id].images)
    /\ job.pc \in {"removeOld", "update"} => Shows(Normalized(job.id, job.card).images)

\* The image names of a record begin with its id, in front of set, card and index or, in
\* the names the upgrade spares, in the place of the set whose text it is.
NamesCarryTheId ==
    \A i \in Settled : \A k \in DOMAIN collection[i].images :
        \E t \in Titles, n \in Indices :
            LET f == collection[i].images[k].file
            IN  f = PersistedName(i, t, n) \/ (f = CreateName(t, n) /\ t[1] = i)

\* Apart from the name of its set, a stored record only changes when it is
\* edited, when it is deleted, or when the names of the images it was just
\* added with are upgraded: in particular adding never replaces a record.
OnlyItsOwnRecordChanges ==
    [][\A i \in Ids :
         (collection[i] # NoCard /\ collection'[i] # collection[i] /\ readable'
              /\ ~ \E t \in Titles : collection'[i] = [collection[i] EXCEPT !.title = t])
           => \/ dialog.mode = "edit" /\ dialog.id = i
              \/ job.pc = "erase" /\ job.id = i
              \/ job.pc = "update" /\ job.id = i /\ collection[i] = job.card]_vars
=============================================================================
