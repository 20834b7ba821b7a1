# A verification of Card Collection Manager 3

Card Collection Manager 3 is a desktop application (C++20, wxWidgets) in which a
user keeps collections of trading cards: Magic, Pokémon (West and Asia),
Yu-Gi-Oh!, Yu-Gi-Oh! Bandai and DigiBattle 99. This directory models the parts of
it that keep state, checks the models with TLC on small instances, and proves
some of their properties for every instance with TLAPS.

Paths below are relative to `src/`. `PROJECT.json` gives, for every definition
that models code, the lines it stands for.

- [How to run it](#how-to-run-it)
- [The system](#the-system): inventory of the components
- [The modules](#the-modules): what models what
- [The runs](#the-runs): what is checked, bounds, fairness
- [The proofs](#the-proofs)
- [Where the program departs from its documents](#where-the-program-departs-from-its-documents)
- [What is not modelled](#what-is-not-modelled)
- [The plan](#the-plan)

## How to run it

    tlc -workers 2 -config MCSelectedCardPanel.cfg MCSelectedCardPanel
    tlapm Previews_proofs.tla

Each run is a `.cfg` of an `MC*` module; each `*_proofs` module is checked by
`tlapm`. The runs named "violation" below are meant to end in a counterexample.
The longest runs, `collection`, `list`, `tabs` and `detect`, take one to three minutes.

## The system

The code has three layers. `core/` holds the domain, the services and the ports
(interfaces) with their adapters (files, HTTP); it knows nothing of the user
interface. `ui_wx/` holds the main frame, one *game view* per game, and the
panels and dialogs. `app/main.cpp` wires the two. Almost everything runs on the
UI thread; the exceptions are detached `std::thread`s that fetch images and look
prints up, and hand their answers back with `wxTheApp->CallAfter`.

| Component | State | Operations | Talks to | What is hard | What makes it correct |
|---|---|---|---|---|---|
| **Detail panel** `ui_wx/.../BaseSelectedCardPanel.hpp` | card, id last fetched, generation, bitmap, status text, alive flag shared with workers | `setCard`, worker thread, posted callback, destructor | preview service, list panel | answers overtaken by a new selection; callbacks after destruction | only the current fetch is painted; "Loading preview..." ends; a destroyed panel is left alone |
| **Preview service** `core/src/services/CardPreviewService.cpp` | LRU list and index in memory | `fetchPreviewBytes`, `fetchImageBytesByUrl`, `detect*` | preview source, HTTP, assets, byte cache | called by several workers at once, lock held per memory operation only; failures against verdicts | list and index agree; only a clean answer of the upstream is remembered; a card back is never remembered as missing |
| **Preview byte cache** `core/src/infra/LocalPreviewByteCache.cpp` | `.bin`, `.neg`, `.idx` files | `load`, `store`, `storeNegative`, eviction | file system | any file operation fails, the process dies between two, hashes collide | payload and marker exclude each other, the cap is honoured, what was stored is served |
| **Collection** `CollectionService.hpp`, `JsonCollectionRepository.hpp` | `collection.json` | `add`, `update`, `remove`, `saveAll`, `list` | image service, game views | three loads and saves for one addition; failing saves | nobody else's record changes |
| **Images** `ImageService.cpp`, `LocalImageStore.cpp`, `FsNames.cpp` | files of a collection, names that encode record, card and index | `addImage`, `removeImage`, `normalizeNamesForPersistedCard` | edit dialog, collection | names parsed back; renaming several files with failures in between | every image of a record shows what the user attached |
| **Card list panel** `BaseCardListPanel.hpp` | rows, filter, sort, selection, deferred callbacks | `setCards`, `setFilter`, header clicks, selection events | game view, detail panel | selection carried over rebuilds by id; deferred selection of the first row | list, selection, detail panel and collection agree |
| **Game views** `PokemonGameView.cpp` and four more | cached set lists, one attempt to download them, the two tabs | `onAddCard`, `onEditCard`, `onDeleteCard`, `onUpdateSets`, `refreshCollection` | all services | sequences of writes of which any may fail; caches that outlive a change of folder | tabs and dialogs show what the files say; an update moves no record |
| **Edit dialogs** `BaseCardEditDialog.hpp`, `*CardEditDialog.cpp` | controls, record, epoch, ring of prints, alive flag | edits, Auto detect, Next, silent prefetch, OK, Cancel | preview service, set lists, image service | answers for earlier fields; controls, rings and record drift apart | an overtaken answer changes nothing; Next moves on from what is shown; what is saved is what was chosen |
| **Main frame** `MainFrame.cpp` | active game, mounted views | `mountActiveView`, `switchGame`, `onSettings` | game views, configuration | the same view is mounted again; the data folder moves | the view shows the folder's collection |
| **Sets** `SetService.cpp`, `JsonSetRepository.cpp`, `*SetCatalogService.cpp` | `sets.json` (and its former places) and catalogue files | `updateSets`, `saveSets`, `getSets` | HTTP, game views | two lists, two catalogues, one collection saved one after the other | what is cached is what is stored; names stay English |
| **Set sources** `*SetSource.cpp`, `JapanesePokemonEnCatalog.cpp` | built-in tables | `fetchAll`, `fetchAllWithCatalog` | HTTP | partial answers; sets the upstream lacks, names wrongly or lists twice | every catalogue names its numbers once, with the total the checklist shows |
| **Set sync** `PokemonCollectionSetSync.cpp` | none | `syncPokemonCollectionSets` | game view | matching of ids across two regions | keeps what it does not match; no record changes its place |
| **Preview sources** `core/src/games/*/…PreviewSource.cpp` | a catalogue cached by Yu-Gi-Oh!'s | `fetchImageUrl`, `detect*` | HTTP | chains of fallbacks, "no image" against "failed"; loose matching of numbers and names; an unlocked cache used by workers | a failure is not reported as NotFound; no card borrows another's picture; a number answers itself |
| **Set completion** `*SetCompletion.cpp`, `*SetCompletionPanel.cpp` | copies of collection and catalogues, filters, open checklist | `setCollection`, `reloadFromStore`, choices, grid and checklist pages | catalogue services, game view | tiles and checklists are computed apart; rebuilt only when a handler says so | a checklist ticks what the files say; a tile counts what its checklist shows |
| **Deck check** `MagicDeckCheck.cpp`, `MagicDeckCheckPanel.cpp` | pasted text, collection, result | `parseMagicDeckList`, `analyzeMagicDeck` | game view | spellings, several lines and records of one name | missing and owned add up to the list |
| **Configuration** `ConfigService.cpp`, `SettingsDialog.cpp` | current configuration, `config.json` | `initialize`, `store` | main frame | changed in memory before it is written | what runs is what is on disk |
| **Sorting, filtering** `CardSorter.cpp`, `CardFilter.cpp`, `SetNoNatural.cpp` | none | stable sorts, matches, natural order of set numbers | list panel | sort keys, filter fields and cells are written apart, per game | a table sorts by and finds what it shows |
| **File system, HTTP** `StdFileSystem.cpp`, `CprHttpClient.cpp` | files; HTTP sessions | read, write, copy, remove; GET | everything | a failed write truncates | modelled as failures of their callers' steps |
| **Composition root** `app/main.cpp`, **widgets** `Theme.cpp`, `IconListCtrl.cpp`, …, **records and JSON** `core/src/domain/` | none to speak of | wiring, drawing, field-by-field conversion | | | not modelled |

The hard behaviours, each with the line where it bites and the properties that
watch it, are the list `hazards` of `PROJECT.json`.

## The modules

    PreviewDisplay <-- implements -- SelectedCardPanel
                                            |
                                     calls the service
                                            v
    PreviewByteCachePort <-- uses -- CardPreviewService -- asks --> PreviewSources
            ^                               ^                          |
            '-- implements --               |              one module per source, over
               LocalPreviewByteCache        |              PreviewLookup, CollectorNumber
                                            |
    EditDialogs (EditDialogDetect and three more dialogs): look up prints

    CardCollection  (dialog, image files, collection.json)              \
    CardListPanel   (table, selection, detail, game view, main frame)    > <- Filtering
    GameTabs        (game view, set lists, catalogues, second tab, data folder)
      <- SetCompletionPanels <- SetCompletion   \
                             <- SetFiles         > <- SetSources
      <- MagicDeckCheck, PokemonCollectionSetSync, CardTables

**SelectedCardPanel** models `BaseSelectedCardPanel`. `card`, `lastFetchedId`,
`bitmap` and `status` are the panel's members; `currentGen` and `alive` the shared
state that workers capture; `thread[g]` is the worker of generation *g* with its
program counter; `callbacks` the FIFO of `CallAfter`. `SetCard` has the three cases
of `setCard` (same id: only the details are repainted; no card; another id: a new
generation and a worker). A worker looks the preview up, tries up to
`CardBackTries` card backs (Yu-Gi-Oh! tries three) and posts; `RunCallback` checks
`alive` and the generation. An image is represented by the coordinates it was
fetched for, so "the wrong picture" is visible to the model.

**PreviewDisplay** is what the panel promises: a display that is aimed at a card
loads until it settles once on what was found for *that* card.
`ImplementsDisplay` refines `open`, `target` and `display` from the panel's state.

**CardPreviewService** models both fetch operations, which keys of preview
coordinates and of card-back URLs go through with different guards. Each worker has
a program counter; one action is one critical section of `cacheMutex_`, one
operation of the disk tier or one request. The upstream may change its mind; a
disk operation may fail; the application may restart. `answered`, `strained` and
`usedAfter` are history variables.

**PreviewByteCachePort** is what the service may rely on of `IPreviewByteCache`,
and **LocalPreviewByteCache** models the adapter file by file: a store is the
sequence of file operations the code performs, any of which may fail, with a crash
possible between two. The images' owner and size are kept, their bytes are not;
modification times are an order. `ImplementsPort` shows that it refines the port
as long as no removal of a file failed: a failed removal can leave a payload that
was to be replaced by a marker, which is the exception the property names. The
service's model uses the port's `AfterStore` for its disk operations, so the two
modules compose along the port. The torn payload the cache can serve (see below)
is one of the port's entries.

**CardCollection** models one game's records and image files with the modal
dialog that changes them: `AddImage` copies and `RemoveImage` deletes a file while
the dialog is open, `AcceptCreate` stores the record under the next id, and
`CopyName`, `UndoCopy`, `RemoveOldName`, `SaveNames` are the file operations of
`normalizeNamesForPersistedCard` and the update that follows, as `onAddCard` runs
them. `Delete`, `DeleteImage`, `EraseRecord` are `CollectionService::remove` with its
order (images first). A file name is the sequence of its parts, a picture is what
the user attached. `spoiled` is the history of records whose images an accident,
or a cancelled dialog that had deleted files, may have damaged: `onRemoveImage`
deletes at once and the code offers no undo, so the properties leave these out. So they do
with the record of a deletion that failed (`CollectionService.hpp:104`: its images may be gone).
A name is its parts because texts are taken to hold no `+`, which separates them. The upgrade
takes a name that begins with the record's id for one it gave, and spares it. If the
text of a set is the id ("151"), that is a name of the Add dialog, which the next card of the same
set and name is given, too, so that its image overwrites the first one's
(`ImageService.cpp:72`). Hence `ImagesShowTheirPictures` speaks, of records, of the names that
carry an id (`CarriesAnId`), and `NamesCarryTheId` says that a record has no others but the spared
ones. The collection is empty at the start, so that names of former versions (`IMG_FRONT`,
`IMG_BACK`, `ImageService.cpp:14-19`, after which counting starts anew) do not occur.

**CardListPanel** models `BaseCardListPanel` with the list-related part of the
game view (`onAddCard`, `onEditCard`, `onDeleteCard`, `onUpdateSets`,
`refreshCollection`) and of the main frame (mounting, another data folder).
`RebuildRows` and `SetCards` are translated with the calls they make; `KeepSelected`
and `KeepAfterReload` keep the distinction of the code between "no ids to keep"
and "keep none". Deferred callbacks may run at any time, which allows more orders
than the event loop does. The panel's intermediate notifications in one handler
are collapsed into its end state.

**Filtering** holds the loops over a list that several modules share (rows that pass a filter,
the first print of each number, buckets of a sort put together again, the place at which a search
stops), with the lemmas that say what they return, and lemmas about sums over finite sets, which
the cap of the byte cache and the deck check share.

**EditDialogDetect** models `PokemonCardEditDialog`'s lookups. The *controls* (`name`,
`set`, `number`) and the *record* (`card_`) are different variables, as in the code: some
handlers read the ones, some the other. A job is a deferred prefetch, a lookup on its
thread, or a posted answer; it carries the epoch it was asked in. `late` is a history
field: was the job overtaken by an edit? The program decides that by comparing epochs, and
a theorem says that the comparison is right. Posted answers may run in any order (the
code's is first in, first out), and upstream returns its listing or fails.

**YuGiOhCardEditDialog**, **YuGiOhBandaiCardEditDialog**, **DigiBattle99CardEditDialog** are the
other dialogs that look prints up. They look alike in the code and differ where it matters.
Yu-Gi-Oh!'s has two rings, of numbers and of rarities, looks up by name in the handler and by
number on a thread, and keeps a number as the digits of a full code, from which the code is
composed again on saving: a code is a set, a region and blocks of digits. `standsFor` remembers
which code the number on screen was taken from, `form.typed` that the set was typed (typing sends
no event) since the rings were made. Bandai's has one ring of whole prints, each of which fills in
every control; its two buttons are disabled one by one. What a print does not have it does not
fill in: of a promotional card without a "Bandai number"
`YuGiOhBandaiCardPreviewSource.cpp:261-278` makes a print without a number, and applying it leaves
the number that was there (`YuGiOhBandaiCardEditDialog.cpp:191`). Pokémon's and Yu-Gi-Oh!'s
dialogs are modelled with prints that have no number, too (they leave them out of their rings);
Digi-Battle's source drops them (`DigiBattle99CardPreviewSource.cpp:212`). Digi-Battle's resembles
Pokémon's, with other rules for the ring's position.
**EditDialogs** composes the four: `CardEditModalGuard` lets one of them be open.

**PreviewSources** composes the six sources, **MagicCardPreviewSource** to
**DigiBattle99CardPreviewSource**, over **PreviewLookup**: a call (`image`, `byName` or
`byNumber`), the request under way, what earlier requests left for later ones, and how
each ended. One action is one HTTP request with what the code makes of its reply: a list
of up to `MaxRows` rows in any order, an outage (`Down`), or a body the parser rejects
(`Bad`). **CollectorNumber** has the numbers as sources compare them, a prefix, a value,
padding and a total ("TG07", "004/102"), with one operator per comparison of the code
because they differ. The only state that outlives a call is Yu-Gi-Oh!'s cached catalogue
(`catalogFile`, `catalogCache`), rewritten by a set update between two calls.
**JapanesePokemonEnCatalog** is the bundled translation table; the former western set ids
are in **PokemonCollectionSetSync**.

**GameTabs** is one game's view over the files of two data folders, for all five games,
as one state machine: opening a dialog loads or downloads the set lists; records are
added, edited, deleted; *Sets > Update* saves lists, catalogues and (Pokémon) the synced
records one after the other; the second tab is the set completion or the deck check; the
folder moves in the settings, with `config.json` written or not; the application restarts.
An edit keeps the record's set or takes any other that is offered, in its region or the other.
Each handler is one action, because it runs on the UI thread from beginning to end, with
each of its writes succeeding, failing, or cutting the file short. It is put together from
**SetSources** (upstream replies to lists and catalogues), **SetFiles** (where lists and
catalogues are stored, with the promotion of lists of former versions),
**PokemonCollectionSetSync**, **SetCompletion** (tiles and checklists, as pure functions),
**SetCompletionPanels** (what the panel keeps of them and when it rebuilds),
**MagicDeckCheck**, and **CardTables** (cells, sort keys and filter fields, which the code
writes down apart for each game).

## The runs

Mutants of the mapped definitions (in the modules, marked "Mutant") show that
each property can fail: `PROJECT.json` pairs each with the run and the property.

| Run | Checks | What it shows |
|---|---|---|
| `panel` | `TypeOK`, `PaintsOnlyTheCurrentFetch`, `LoadingMeansPending`, `NothingAfterDestroy`, `LoadingEnds`, `ImplementsDisplay` | generations and the alive flag do what they are for |
| `service` | `TypeOK`, `ListAndIndexAgree`, `VerdictsComeFromUpstream`, `UrlsAreNeverNegative`, `WriteThrough`, `EvictsLeastRecentlyUsed` | the two tiers under concurrent calls |
| `disk` | `NeverCoResident`, `CapHonoured`, `StoredIsServed`, `EvictsOldestFirst`, `ImplementsPort` | the disk tier under failures and crashes |
| `collection` | `ImagesShowTheirPictures`, `UpgradeKeepsThePictures`, `NamesCarryTheId`, `OnlyItsOwnRecordChanges` | no file is lost, overwritten or renamed away under a record |
| `list` | `DetailFollowsTheList`, `TableShowsTheCollection`, `SelectionSurvivesRebuilds`, `DeletionSelectsTheRowAbove` | table, selection, detail and disk agree |
| `sources` | `MissesAreConfirmed`, `NoBorrowedArt`, `NumbersAreTheAskedOnes`, `PrintsAreDistinct` | whatever six upstreams answer, a stored "no image" was confirmed, pictures and numbers are those asked for |
| `tabs` | `ChecklistShowsTheCollection`, `CountsAreHonest`, `RecordsKeepTheirPlace`, `PickerIsWhatIsStored`, `SetPickerIsEnglish`, `DeckIsAccountedFor`, `TableDoesWhatItShows` | views, caches and files agree through failing updates, moves and restarts |
| `detect` | `OneDetectAtATime`, `NextMovesOnFromWhatIsShown`, `OvertakenAnswersChangeNothing`, `SilentPrefetchIsSilent` | lookups cannot disturb fields that moved on, in four dialogs |
| `panel_edit`, `disk_torn`, `sources_outage`, `ygo_number` | one property each, violated | see [the divergences](#where-the-program-departs-from-its-documents) |

**Bounds, and why they are enough.**

- `panel`: two ids, two coordinates (so cards can differ in the one and agree in
  the other), two card-back tries, three generations: an overtaken, an overtaking
  and a later one.
- `service`: two workers (every overlap in the code is between two calls), one key
  of each kind (card, bundled asset, card-back URL) over a capacity of two, so that
  the three evict each other; one trouble. `Unsourced` keys fail before they touch
  any state and are left out of the instance. Workers are symmetric.
- `disk`: three keys with hashes of their own; sizes 1 and 3 under a cap of 2: a
  payload that fits, two that fill the cap, and one above it. Keys are symmetric.
- `collection`: two records, two titles, up to two images each, three pictures,
  one accident: one more operation than is needed to reuse an id or an index, and an
  accident at every place. The set of one title is spelled like the second record's id, as
  Pokémon's "151" will be. `IndexBase` is 2 in place of 100.
- `list`: three ids (a deleted row can have one above and one below), two prints
  that agree in one column and differ in the other, one trouble.
- `sources`: lists of up to three rows, drawn from up to six per source that are chosen to
  collide: numbers that differ only in padding, prefix or as a part of each other ("1" and
  "11"), one number in two rarities, namesakes, cards without a number or image; a
  Japanese catalogue in which two titles contain another one's. Three rows put a wrong
  candidate before and after the right one. Every request may fail or be garbage.
- `tabs`: per game one or two records, drafts and records of a former version that are
  different spellings of one number, edits that keep the set or choose any other the dialog
  offers, in either region, upstream replies with duplicates, with a set the upstream lacks and with a
  part missing; one write that goes wrong; one move of the folder, for Magic and
  Digi-Battle (the handler is the same for all games, and each has another of the two
  second tabs). A set list and records of a former version are in Pokémon's folder.
- `detect`: a card with two numbers in one set (one of them in two rarities), not in a second, and
  in the other order in the other region; for Yu-Gi-Oh! a set with a European code and a set whose
  id ends in a digit; for Bandai a print of a set that is not in the list, without a rarity or
  without a number, at the start of an answer and in the middle of one; for Pokémon one without a
  number at the start. Pokémon's context is edited twice, so that what was asked before the first
  edit, between, and after them can all be under way; that of the others once.

**Deadlock** is checked in `service`, `disk`, `collection`, `list`, `sources` and `tabs`,
where some operation is always possible. A panel or a dialog that was closed and whose
workers are done has stopped, so it is off in `panel`, `detect` and their violation runs.

**Fairness.** Only `panel` checks liveness. Its fairness is weak fairness of every
worker step, because threads are scheduled and each call of a worker returns (the
HTTP client has a timeout), and of `RunCallback` while the panel lives, because the
event loop of a live window runs what was posted to it. Nothing is assumed of the
user, who may select something else for ever; `LoadingEnds` allows for that.

## The proofs

The theorems hold for all values of the constants, under the named assumptions of
each module (finite bounds are arbitrary naturals; distinct markers are distinct).

**Previews_proofs.** Two components that share no state, the panel and the sources. For the panel
`IInv` strengthens the run's invariants by what makes them inductive: generations to come have no
worker (`FutureIsUnborn`); the selected card is the one the current generation was started for
(`SelectionIsFetched`); the queue holds each posted worker once and nothing else
(`QueueIsPosted`), without which a callback could paint twice; before its callback a generation
shows the loading text and afterwards only its own image (`ScreenIsCurrent`). From it follow
`TypeCorrect`, `OnlyTheCurrentFetchIsPainted`, `LoadingIsPending`, `DestroyedIsUntouched`, and
`Refinement`: every step of the panel is a step of `PreviewDisplay` or a stutter (the safety
part). The second half is about what the six sources answer. A verdict may be given at the end of
several requests, so `SourcesInv` says of each request what is known when it is made (`Pending`):
which operation it serves; what it keeps for later, such as the number of the print whose picture
is asked for last, or the catalogue's prints that wait for the card sets; whether anything has
been heard, and whether all of it was an answer where the code keeps a flag of that. Of the end of
a call it says what an answer owes (`Honest`): the four properties, stated of one answer. Each
source has a lemma with one step per request (`JapaneseKeepsInv` is the longest: several ways lead
to a picture); what they share is that hearing more forgets nothing (`HeardGrows`). That prints
are distinct is about loops that keep the first of each key (the lemma `FirstsDiffer` of
Filtering) over keys coarser or finer than what the user sees, and, for the Japanese source, about
moving the prints with a picture to the front of a list and appending another list
(`DistinctOnesMoved`). Theorems: `SourcesAreHonest` (the invariant), `MissesAreConfirmedAlways`,
`NoBorrowedArtEver`, `NumbersAreTheAskedOnesAlways`, `PrintsAreDistinctAlways`, for any listings,
in any order, and any replies. `SourcesAssumption` types the listings and says that the bundled
catalogue has no two entries of one set and number. The code would let the second of such a pair
replace the first and list it twice (`JapanesePokemonEnCatalog::parse`); the file that is shipped
(`pokemon_jp_en_catalog.json`, 8526 entries) has none.

**CardPreviewService_proofs.** Lemmas on `MoveToFront` (it permutes) and on storing in
a full or a partly filled tier give `ListAndIndexAgree` for any capacity. The verdict
properties need what a call in flight carries: between two critical sections it holds
a verdict that the upstream gave for its own key, and never a negative one for a
card-back URL (`CallsAreSound`, `CallsComeFromUpstream`). Theorems: `TypeCorrect`,
`MemoryTierIsConsistent`, `OnlyUpstreamVerdictsAreCached`, `CardBacksAreNeverMissing`.
`WriteThrough` speaks of the moments when no call works on a key. `KeysAreKept` fills the
time between them: of an unstrained key at most one call is at work; until it stores, memory
knows nothing of the key; what it promotes is what the disk has; and before it stores on disk
memory has its verdict or was evicted again (`Kept`). Theorem: `MemorySurvivesRestarts`.
`EvictsLeastRecentlyUsed` follows from the list being ordered by use (`ListIsByUse`), which
moving an entry to the front and pushing one in front both keep (`KeepsOrder`). Theorem:
`LeastRecentlyUsedIsEvicted`.

**EditDialogs_proofs.** For the Pokémon dialog by itself (EditDialogDetect) `IInv` says that a
job is late exactly if its epoch is over (`JobsAreStamped`), that an enabled button means that
no click is being answered (`EnabledMeansIdle`), and that at most one is. Theorems:
`DetectsNeverRace`, `LateAnswersAreDropped` and `PrefetchIsSilent`. The first two together say
that epoch and button suffice, whatever the listing, the regions and the number of edits.
The second half carries the second of these over to the four dialogs together. Their
jobs are records with different fields, so what edits and answers do to a job is proved once
for any record that has the four fields the epochs are about (`IsJob`, `Aged`). An edit that
opens an epoch marks what is under way as late, and what was late before stays as it is; a
job disappears only by being answered, and its answer compares epochs. Theorems:
`JobsKnowTheirAge` (the invariant) and `OvertakenAnswersAreDropped`.
`NextMovesOnFromWhatIsShown` relates the controls to a ring that an answer filled, possibly many
edits ago. `NextInv` says of each dialog that its ring holds what its listings hold and stands at
what the controls show: at the number on screen (`ShownInv`, `DigiShown`), at the print
(`BandaiShown`; where it has no number the one on screen is that of the nearest print before it
that has one), at the set code and the rarity (`YgoShown`, in which a code taken from the ring
and one composed again from set, region and digits have to be the same slot). Each handler either
leaves the controls the ring is about, or empties it, or seeks it anew; that seeking finds what
is in the ring is `PlaceIsThere` of Filtering. Theorem: `NextStartsFromWhatIsShown`.

**LocalPreviewByteCache_proofs.** For any keys, hashes (colliding ones included), sizes and
cap, with any set of file operations that may fail. `NeverCoResident` is not inductive: it
is the write of the entry that could break it, and what prevents that is the removal of the
other kind several steps earlier. `StoreKnowsItsFiles` carries this through the eviction in
between: until the write the other kind of the store's own hash is gone, after it the entry
is the new one, and at the end the sidecar names the key. Theorems: `PayloadAndMarkerExclude`
and `StoresAreServed`, from `FilesAgreeWithTheStore`, the invariant itself. Nothing is
assumed of the hash function but its type.
`EvictsOldestFirst` is about a copy: the eviction lists and sorts once and then removes one
file after another. `OrderInv` says that the list of ages holds each payload on disk once
(`AgesOK`) and that, while removals succeed, what is left of the copy is that list
(`VictimsAreOldest`). Theorems: `EvictionKnowsTheAges` (the invariant) and `OldestGoesFirst`.
`CapHonoured` needs what an eviction knows of the disk: while it runs, the total it counts down
is the sum of the sizes that are there, and when the write begins the new payload fits beside
what was left, or nothing was (`CapInv`). The sum is the library's fold over a finite set;
`SumUnfolds` and `BytesChange` show, by induction over subsets, that replacing one payload
changes it by the difference. Theorem: `TheCapHolds`. A torn payload counts nothing, and a
single payload above the cap is the exception that the property states.
For keys whose hashes differ (`HashesDiffer`) `CacheImplementsThePort` follows: a store
touches the answer of its own key only, and since an evicted payload has no marker beside
it, an eviction forgets images and no negative verdict.

**CardCollection_proofs.** `OnlyItsOwnRecordChanges` depends on the record that the last save
of an upgrade writes being the one the upgrade began with. `UpgradeWorksOnItsRecord` says so;
it holds because the record went in under an id that was free and because no dialog is open
during an upgrade. That the id is free needs the maximum of a bounded set, which exists by the
well-foundedness of the natural numbers (`BoundedSetsHaveAMaximum`, `NextIdIsFree`). Theorems:
`UpgradeIsUndisturbed` (the invariant) and `RecordsKeepToThemselves`.
What the images show is proved in three layers, each an invariant over the former. `TypeInv`:
the open dialog and the running job have a record, a job's step stays within its list of
renamings, and every name is a file's name. `NamesInv`: a name begins with the id of its record,
or with no id while the record is new, an accident kept it from being upgraded, or the text of its set
passes for the id; so what
one record's files are called never begins with another's id, and no file operation for one
record reaches the other's. `PicturesInv`: the images of a record have increasing indices and
show what was attached, the names in `collection.json` until the copies are made, and those about
to be saved from then on. Theorems: `TypeCorrect`, `NamesAreUpgraded`, `PicturesAreKept`,
`UpgradeLosesNothing`. They hold for any titles, those that are spelled like an id included. The
last two have a hypothesis, `IndicesFit`: no image has an index of 100 or more, of which the code
reads the last two digits only and would name two images alike. The `collection` run does not
need it: it has too few images to wrap.

**Filtering** has no theorem about the program, only lemmas the others cite. Three loops of the
code return a list: one keeps what passes a test, one the first of each key, one puts buckets
together. The first two take the elements at some positions, in their order (`TakenInOrder`);
those the second takes differ in their keys (`FirstsDiffer`). `KeptInOrder` says that the first
returns exactly the elements that pass, each once and in the order in which they stood (a function
from the places of the result to those of the list, `Picked`); `FlattenedOnce` that the second has
a place for each element of each list, and no other (`Placed`). The first is defined without
recursion, by the *k*-th of the places that pass, so that its lemmas are about the number of
places before a place; the second is the library's fold, of which the lemma `FlattenUnfolds` shows
that it has values at all. Where a proof needs an induction, it is carried out over an explicit
set of natural numbers (`SetInduction`), because the library's rules cannot be instantiated here.

**CardListPanel_proofs.** From the lemmas of Filtering: a filter, a sort, a reload, a deletion
keep a table without repetitions without repetitions. `IInv` is `TypeOK`, distinct ids, that what
is selected is on screen, and the two invariants of the run. The third part is the one the others
need: `DetailFollowsTheList` speaks of the first selected row, and a selected card that a filter
hides would have to be looked for in vain. Every handler ends in one of two rebuilds (`Rebuilt`),
for which the invariant is proved once. Theorems: `TypeCorrect`, `DetailFollows`,
`TableIsTheCollection`, and for the steps `SelectionSurvives` and `DeletionSelectsAbove`: the row
above the first deleted one is found by its number, and the deletion does not change the number
of a row above it (`PrefixIsKept`).

**GameTabs_proofs.** `TabsAssumption` says what the tables and files in the constants are: a
folder has one file per part of its game, a list that an upstream sends can be saved, and the
products TCGdex lacks are dated and named in the bundled catalogue as it names them itself (which
is so in `classic_missing_sets.json`). The first invariant (`Inv`) carries
`ChecklistShowsTheCollection`. The tab has copies of the records and of the catalogues, a language
and a region that were chosen, and a list that was computed from them at some time; the invariant
says that the list is what those four give (`ListOK`), that the language is one of those offered
(`LangOK`), that the copies are the last readable catalogues of the folder the tab was loaded from
(`Follows`), and that the records are those on disk unless a reload failed. `UpdateRegion` and
the dialogs' loading are functions of the files and the cache, about which a lemma says what
they leave alone (`LeavesAlone`, `Updates`); each handler then composes them.
The second invariant (`ListsInv`) is about the lists: of every part, what is cached is what
loading the stored file gives, unless the folder was moved (`IsStored`). The hard case is an
update that failed half-way: the list it fetched is cached, and what is read from disk is named
in English and dated once more, so that applying the translation twice must change nothing
(`NamesAreFinal`, `AsiaIsFinal`). Theorems: `ChecklistIsTheCollection`, `PickerIsTheFile`,
`PickerIsEnglish`. The last two have hypotheses. `IdsAreLatin`: no id of a Japanese set is itself
a Japanese name, for a set without a translation is shown under its id. `ListIsPresent`: no other
list of Bandai sets is saved than the one the program comes with. The proof attempt without
it failed for a good reason: `YuGiOhBandaiGameView::downloadSetsAndCatalog` saves the list,
then the catalogue, and returns at the catalogue's failure before it replaces `setsCache_`
(`YuGiOhBandaiGameView.cpp:80-122`), so a list of a former version stays in the dialogs while the
new one is on disk, until the next start. The other games replace the cache in this case.
The third invariant (`RecInv`) is about the records, on disk and in the tab: each belongs to a
part of the game. Every step leaves the records of a folder, or cannot write them, or gives at
most one of them a place that is offered (`Moves`). Two things carry this. A western record's set
is saved under the id the list has and read under its present one, so a place is compared as it is
read back (`PlaceAt`), and reading a record once more must change nothing (`RecordIsRead`): no id
is former and present at once, which `AliasesAssumption` says of the table in
`PokemonWestSetId.cpp` and a look at its 53 rows confirms. And following the lists changes a
record's set name and date only (`CardIsSynced`), since what is synced was read before. The first
attempt compared the ids as offered and failed: an upstream list with a former id would have a new
record move when it is read. Theorem: `RecordsStayInPlace`.
The fourth invariant (`CountInv`) is about counting. A tile's counters and its checklist are
computed apart, from two maps of keys, and agree only if the catalogue is one: each set once in it,
and in a set no two cards that count as the same (`IsCatalogue`). Then a tile's total is the number
of the checklist's lines, owned keys and ticked lines are in bijection, and a record, which has at
most one key, ticks at most one line (`TileIsItsChecklist`, `CountsOfATab`). That whatever is
fetched is such a catalogue is a lemma about each parser (`FetchedAreCatalogues`): western,
Bandai's and Digi-Battle's keep the first of each number after it is normalised, the Japanese one
fills in only numbers that are not there, and Yu-Gi-Oh!'s merges the printings of a slot one after
the other, for which the recursion is unfolded into a table (`RowsUnfold`, `MergedSlotsDiffer`).
`CountInv` then carries it from the reply to the disk and from there to the tab, through failing
writes, moves and restarts. Two assumptions are about data. `SourcesAssumption`: the bundled tables
list each print once (true of the 8526 prints of `pokemon_jp_en_catalog.json`) and each product and
set once; Digi-Battle pack names have slugs of their own, since two packs of one slug would be two
tiles of one id. `RepliesAssumption`: the lists TCGdex answers with name each set once, which no
code checks, and rows have collector numbers. Theorem: `CountsAreTheLists`.
The fifth invariant (`DeckInv`) is about the deck check. The records of every folder, and those the
panel was given, are finitely many with amounts that are numbers (`DeckHolds`); what the panel shows
as a result was computed from the list as it was analysed and from the records it has (`DeckOK`).
The reading of a list adds lines of one name to the entry of the first spelling; by induction over
the lines (`DecksUnfold`, `AddingKeepsAddingUp`, `DecksAddUp`) no two entries are of one name, and
each asks for the sum of the lines of its name. What is missing and what is owned then follow entry
by entry (`ResultAccounts`). That the sum over a name does not depend on the order in which it is
taken, and what one more line adds to it, are the lemmas of Filtering about sums. `DeckAssumption`
says that quantities and amounts are numbers. Theorem: `DeckAddsUp`.
The last part is about tables. Inserting a row below all those it does not precede keeps a table
sorted, and rows of one key as they were, provided that the rows already there are: then those it
does not precede are the first few (`FirstFew`, `InsertingKeepsSorted`). So one click sorts
(`SortingSorts`), loses no row (`SortingKeepsRows`), and leaves a table that the next click can
sort. It remains that each game's sort key of a column is what its row shows there
(`KeysAreShown`), and that what a row shows is among the fields that are searched (`RowsAreFound`):
for any records, where the run has a few. `SamplesAssumption` says what a text is, `TablesAssumption`
that there are records of each game. Theorem: `TablesAgree`.

**Only model-checked.** Liveness under fairness (`LoadingEnds`, the fair part of
`ImplementsDisplay`), which stays with TLC. Every invariant and every action property
of the passing runs is the subject of a theorem. Of keys whose hashes collide `ImplementsPort` is
not claimed at all: two keys of one hash forget each other, which the port does not allow.

## Where the program departs from its documents

Each of these has a run that ends in a counterexample; the quotations are in
`PROJECT.json`.

1. `panel_edit`: editing a lookup-relevant field of the *selected* card leaves the
   old image until another row is selected, because `setCard` compares ids only.
   `docs/caching.md` has the edit re-fetch the preview.
2. `disk_torn`: a store that fails midway is documented as a no-op, but leaves a
   truncated payload that the previous sidecar still vouches for.
3. `sources_outage`: the Japanese source answers "no image" for catalogued cards though
   every request it made failed; the verdict is then stored for good.
4. `ygo_number`: a Yu-Gi-Oh! card of a set whose id has digits (RA04) is saved under
   another number than the print's, and again another one each time it is edited.

Seen while modelling, without a run of their own. File names are unique in the tree.

*Previews and sources*

- `LocalPreviewByteCache.cpp:138`: between the payload and the sidecar, a key with the
  same hash owns the sidecar; a crash there would serve it another key's bytes,
  where the comment at 95-97 has collisions be misses.
- `CardPreviewService.cpp:148`: a bundled asset that cannot be read counts as "no image";
  at 196 a torn payload of no bytes is promoted and served.
- `YuGiOhCardPreviewSource.cpp:682`: the catalogue is cached once and not dropped by a set
  update, so a lookup offline answers from the old one (`docs/assets-and-info-apis.md:103`).
  Workers read and fill that cache without a lock; the model has one call at a time.
- `YuGiOhBandaiCardPreviewSource.cpp:422`: a first request that failed followed by one that
  found nothing answers NotFound (hence the weaker clause of `MissesAreConfirmed`).

*Collection, list and images*

- `ImageService.cpp:72`: a card in a set whose name is the new card's id keeps its
  create-mode image names, and the next card of that set and name overwrites its images.
- `BaseCardListPanel.hpp:127`: a filter that hides every selected card leaves the table
  without a selection, where the comment at 118-120 has the first row selected; at 109 a
  reload sorts by the last clicked column only, so an order composed of several clicks is
  lost.
- `BaseCardEditDialog.hpp:465`: removing an image deletes its file at once; after a
  cancelled dialog the record names a file that is gone.
- `CollectionService.hpp:51`: ids wrap around at 2^32.

*Sets, tabs and settings*

- `PokemonSetCompletionPanel.cpp:77`: the grid is not rebuilt on Back, so tiles show the
  filters and counts of before the checklist was opened (`docs/assets-and-info-apis.md:237`).
- `YuGiOhSetCompletion.cpp:16` and `YuGiOhSetSource.cpp:47`: digits of a slot are compared
  with their leading zeros (`docs/assets-and-info-apis.md:114`).
- `MainFrame.cpp:389`: a moved data folder refreshes the records only; set lists and
  catalogues stay those of the former folder (`docs/assets-and-info-apis.md:55`, 116, 178,
  239), and the next update of Pokémon's sets syncs the new folder's records with them.
- `ConfigService.cpp:41`, `SettingsDialog.cpp:114`, `MainFrame.cpp:400`: when `config.json`
  cannot be written, the folder in memory has moved though the dialog is cancelled; records
  on screen are the old folder's, and an edit finds another record under the id.
- `YuGiOhBandaiGameView.cpp:110`: see `ListIsPresent` above: after an update whose catalogue
  could not be saved the dialogs offer the former list.
- `JsonSetRepository.cpp:60`: a promotion that is cut short hides the former list behind
  the torn one.

*Edit dialogs*

- `PokemonCardEditDialog.cpp:288` and its likes, e.g. `YuGiOhCardEditDialog.cpp:189`: after
  the set is changed the prefetch still asks for the set in the record, so "Next" offers
  prints of the set that was left.
- `PokemonCardEditDialog.cpp:351` and its likes: editing a field while Auto detect is under
  way leaves its button disabled for as long as the dialog is open.
- `PokemonCardEditDialog.cpp:221`: choosing another set puts back the number that was read
  last, over one that was typed since.
- `PokemonCardEditDialog.cpp:280` and its likes: the deferred prefetch captures the dialog
  without its alive flag. What it does after the dialog was closed is undefined and left out.
- `YuGiOhBandaiCardEditDialog.cpp:314`: Bandai's silent prefetch applies the first print of
  the name over number, rarity, language and set; at 252 a lookup by name disables the other
  button only, so lookups race, and each answer enables both.
- `YuGiOhBandaiCardEditDialog.cpp:191`: where Auto detect or Next comes to a print without a
  number, the number of another print stays on screen beside it, and OK saves it.
- `YuGiOhCardEditDialog.cpp:436`: the first print is filled in before European codes are
  dropped for English cards (391), and a change of the language has no handler.
- `YuGiOhCardEditDialog.cpp`: a set that is typed rather than chosen sends no event, the rings
  stay those of the former set and Next may lose its place (`form.typed` excepts it).

## What is not modelled

Drawing, layout, themes, the text of details and messages, exporting to the clipboard, and the
composition root: they have no state a property is about. The contents of JSON and HTTP: a request
answers or fails, a file is written, torn or left alone; URLs are not built. The order of tiles
and of checklist lines, and `SetNoNatural`, the natural order of set numbers (a comparison of
strings character by character, with nothing but its own definition to compare it with). The
destruction order at shutdown of the services under detached workers, whose outcome is undefined,
and the data race on Yu-Gi-Oh!'s cached catalogue. The wrap-around of ids at 2^32 and of image
indices at 100, which the bounds stay below (the latter is pinned by
`tests/image_service_tests.cpp`). Write errors that `writeText` does not notice before it returns,
except as the crash of the byte cache. In EditDialogDetect the unnumbered-promo set with its
preview window, and empty set lists; in YuGiOhBandaiCardEditDialog the holo box. Validation of the
dialogs' other fields. In CardCollection the image names of former versions. The column widths,
scrolling, focus and clipboard of the list. Themes and the default game of the configuration.
Magic has an edit dialog without lookups; its records are CardCollection's.

## The plan

What is left, the most important first.

1. **Composition**: SelectedCardPanel over CardPreviewService over LocalPreviewByteCache, at
   one key, so that a selection's image is traced from the disk to the screen; today the
   modules meet along PreviewByteCachePort and the verdicts of PreviewSources only.
2. **The unnumbered-promo set** of the Asia region with `VariantImagePreviewDialog`, which has
   an epoch and workers of its own, as an extension of EditDialogDetect.
