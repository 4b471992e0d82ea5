# TLA+ models of yinkote

yinkote is a local-first reference manager: a Rust server (`src/crates`, one
process, one SQLite database in WAL mode and a directory of files for each data
directory) and a React application that talks to it over HTTP and a WebSocket.
This directory holds TLA+ modules of the parts whose correctness depends on an
order of events or on rules that are easy to get wrong, the configurations with
which TLC checks them on small instances, and proofs that TLAPS checks for every
value of the constants.

    tlc -workers 2 -config SearchIndex.cfg SearchIndex      # a run
    tlapm Background_proofs.tla                             # the proofs of a module

`PROJECT.json` lists the runs with their properties, for each property mutants
of the code that the run refutes, the lines of code each definition stands for,
the hazards the properties are aimed at, the findings, and the theorems.

## 1. Inventory

Paths are below `src/crates` unless they begin with `web`. "M" is modelled, "p"
partly, "-" not.

| component | | state | operations | how others reach it |
|---|---|---|---|---|
| item store (`yk-store/items.rs`, `index.rs`) | p | `items` with parents, versions, trash flag; `libraries.version`; `deletions`; `items_fts`, `items_trgm` | create, update, trash, restore, merge, file, delete, empty trash, listing, numbered notes, duplicates | every route, import, the agent, plugins; each write is one `BEGIN IMMEDIATE` transaction that takes the next library version |
| optimistic editing (`routes/items.rs`) | M | none of its own | read, save with `If-Unmodified-Since-Version` | editors |
| delta synchronisation (`since=`) | M | none of its own | list what changed | API clients |
| count cache (`counts.rs`) | M | totals by predicate and version, in memory; deferred refreshes | get, put, look up, claim, release | every listing |
| search index (`yk-search/lib.rs`, `rebuild_index`) | p | embedding queue, vectors, their mirror in memory, the `embedding_pass` mutex | reindex in item transactions, embed a batch, rebuild, reload at start | item writes, the embedding worker, a maintenance task |
| queries and ranking (`parse.rs`, `filter.rs`, `lexical.rs`, `fusion.rs`) | M | permits for blocking work | parse, plan, retrieve, fuse, page | the search box, listings |
| download queue (`downloads.rs`, `download_worker`, `attach_url`) | M | rows waiting, running, done, failed | enqueue, claim, succeed, fail, retry, remove, clear, recover at start | the UI, filing, one worker; direct fetches use `attach_url` too |
| files (`storage.rs`, `deletion.rs`, `recovery.rs`, `files_browser.rs`, `thumbnails.rs`) | M | a directory for each key; `file_cleanup`; cached pictures | put, rename, remove, draw, queue by trigger, a pass of the cleanup | uploads, downloads, imports; the cleanup worker and every deleting request |
| collections, tags (`collections.rs`, `cache.rs`, `smart.rs`) | p | trees of collections, tags, memberships, their remembered lists | create, rename, move, delete, recolour, list | the UI; some change items behind the item store |
| relations (`relations.rs`, `graph.rs`) | M | citation edges, the votes kept beside them | set, list, what is missing, neighbours, picture | the citation task, the graph view |
| conversations, runs, agent (`conversations.rs`, `runs.rs`, `yk-agent`) | p | messages; one run in memory for each conversation; a cancel flag | ask, step, call tools, cancel, finish, append, remove | the chat pane, plugins |
| tasks (`tasks.rs`) | M | jobs in memory and their records | start, progress, cancel, finish, prune, recover at start | imports, rebuilds, backups; workers ask whether a bulk write runs |
| maintenance (`restore.rs`, `export.rs`, `backups.rs`) | p | archives and backups on disk | export, merge an archive, make and prune backups | tasks, a timer |
| plugins (`yk-plugin`, `badges.rs`) | p | child processes, waiters by request id, plugin states, badges | start, call, stop, enable, reload | routes, the agent |
| events (`event.rs`, `web/.../events.ts`, `client.ts`) | M | a broadcast channel; sockets | publish, lag, reconnect | everything |
| web lists (`web/.../store.ts`), note drafts | p | pages, what is loading; a draft | refresh, load more, navigate; autosave | the user |
| database (`db.rs`) | p | the file, the write-ahead log, names of migrations | open, migrate, checkpoint | everything |
| lock (`lock.rs`), browser's port (`connector_listener.rs`) | M | an advisory lock and what is written in it; a listener | acquire, ask the holder; turn on, off | start-up, the MCP bridge; settings |
| import and scraping (`yk-import`, `yk-scrape`) | M | what is held of a batch | bring Zotero across, detect, resolve, fold, add, search outside | the UI |
| citations (`yk-cite`), PDF (`yk-pdf`) | p | none | export, import, print a reference | the UI, the word processor |
| word processor, connector, MCP, host API | p | sessions, the pane's document | render, cite, save from the browser | other programs |
| AI providers (`yk-ai`), data model and text (`yk-core`), views (`web`) | - | none | | |

Components interact in four ways: by the database, where a write is one
transaction and everything between two transactions may interleave; by a few
structures in memory with locks of their own (the caches, the vector mirror, the
runs, the tasks, the registry of plugins); by workers that poll (embedding,
downloads, cleanup, checkpoints) and stand aside while a bulk write runs; and by
events, which carry keys and no data.

What is hard in this code is the same thing in many places: something is read in
one transaction and used after it. The header of a listing and its rows, the
total that is counted and then cached, the rows a rebuild reads and then writes,
the text that is embedded while its item is edited, the attachment that is
looked for and then created, the key that is queued for cleanup and comes back,
the tags that are read and then written, the run that is looked at and then
started, the instance of a plugin that two requests find down. Each is a place
where no test controls the order. `hazards` in `PROJECT.json` has them, at their
lines, with the properties that would catch them going wrong.

## 2. Modules

Every module says at its head which files it models. `map` gives the lines of
each definition.

**The library.** `LibraryStore` is the item store and the two-call empty-trash
request. `OptimisticEdit` and `DeltaSync` extend it with editors and with a
client that copies; `MCClients` composes the two over one store, beside a page and a document. `NoteTitles` has
the titles and numbers of notes, `Duplicates` the groups of duplicate papers,
`Shelves` the collections with their list and saved searches, `TagEdits` the tags with
theirs, `CitedWorks` the references and their votes, `Related` what is near a paper.

**Finding.** `CountCache` has exact totals, `SearchIndex` the search tables, the
vectors, the worker and the rebuild, `Queries` what is asked of the
database, `Searching` how candidates are found, ranked, fused and shown.

**Files.** `DownloadQueue` is the queue and its worker, `FileStore` whole
directories and their cleanup, `Attaching` what is inside one: fetches, uploads,
saves from the browser, renames and thumbnails that overlap.

**Conversations.** `Turns` has the routes, the runs, the loop and the messages.
`Conversation` is the abstract specification: a thread, and at most one question
being answered. `Turns!ConversationKept` is `Conversation` with the thread and
`Answering` (the question each run stands for) put for its variables.

**The process.** `Tasks`, `LogFile`, `Migrations`, `ServerLock`, `ConnectorPort`,
`Archive`, `Backups`, `PluginProcess` (the pipe and its waiters), `PluginHost`
(the registry over instances), and `EventFeed` (the bus, the socket and the list
of a page).

**References.** `Importing` (Zotero), `Resolving` (identifiers to papers),
`OutsideSearch`, `RoundTrips` (BibTeX, RIS, CSL-JSON), `Citing` (styles),
`Documents` (the word processor).

**Composition.** The editors and the copy of `MCClients` interact, over one store.
`MCClients`, `MCCatalogue`, `MCBackground`, `MCMaintenance`, `MCPlugins` and
`MCAnswers` put parts that share no state side by side in one run each: a
behaviour chooses one part and the others stay where they began. Their `.cfg`s give
the parts their instances, so that proofs about these modules are about any instance;
the parts that do share state (the store and its clients,
the runs and the messages, the registry and its instances) are in one module.

How state corresponds to code. A table is a function on its keys or row ids, so
a missing row is a point outside the domain. A text is a model value, or a short
sequence of words and marks where the code cuts texts; a version is a number. A
transaction is one action; a request or a worker that makes several is a record
that says where it is (`at`, `worker`, `rebuild`, `job`, `task`, `held`) with what
it has read so far. A stop of the server resets every such record and every
structure in memory and keeps the tables and the files. Where an error is
swallowed by the caller, the action has an alternative in which nothing is
written (`GiveUp`, `PassFails`, `Fail`). A definition marked as a mutant in a
comment is used by `PROJECT.json` only, each a plausible bug of the next one.

Histories (`true`, `asks`, `claims`, `owed`, `late`, `crossed`, `intact`, `touched`, `unstamped`, `unindexed`,
`raced`, `quiet`, `stray`, `drift`, `off`) are not state of the program. No guard
reads them, but for those that count what a bound cuts off.

Points where a reader might expect more detail:

* `LibraryStore.DeleteKeys` leaves open which listed descendants get a tombstone: that
  depends on the order of the keys, which callers choose.
* `LibraryStore.Merge` gives the master any text: it takes tags, collections and what it
  left blank from the others, which may make a text that none of them had. The others
  keep their index rows although they are in the trash, as the code does.
* In `LibraryStore` a text is all an item says, its tags and collections included, and
  `Words` the part of it that is searched. `Refile` files items and stamps them. `Relabel`
  is what renaming or deleting a tag, or deleting a collection, makes of items: all
  that carry it change, the library takes a version, and none is stamped or reindexed. The
  histories `unstamped` and `unindexed` hold the items a name changed since they were last
  stamped or indexed; a write of the item takes it out. Two rows of an item `Matches` when they
  are the same, or, for an unstamped item, differ in what they say and in nothing else.
  Everything said of versions, `since=`, saves and the index is said in these terms
  (section 4). Relations and citations are outside.
* `SearchIndex` has the writes of the item repository only, so no tag renamed behind an item.
* In `PluginHost` another plugin is one operation, `other`: turning it on or off forgets all
  badges and writes the whole setting from what is then listed as disabled.
* `Queries` has tags whose names do not begin with a dash.
* `DeltaSync` takes what changed to fit one page of a listing.
* `SearchIndex` has regular items only: notes and files are indexed but never
  embedded. Row ids are reused as SQLite reuses them, because the code knows rows by
  them. `ClearChunk` takes the ids it clears as read with their transaction.
* `FileStore.Delete` also takes the empty set: a request that deletes nothing
  cleans up all the same. A request dropped with its client leaves its pass anywhere.
* `DownloadQueue` deletes no attachment; `FileStore` and `Attaching` have that.
* `Attaching.Rename` takes any of the files that are to have another name, in any
  order. A name that ends in `.part` is the name of what is written beside it; `Beside`
  leaves such files out of what is promised (section 4).
* `Searching` keeps scores in the order they put things in, so a number of the
  code that only breaks no tie is left out; `Related` and `Resolving` take the answers
  of other services as given worlds.

## 3. Runs

Nine runs pass; three expect a violation (section 4). Each takes from some
seconds to three and a half minutes with two workers.

| run | instance | distinct states | properties |
|---|---|---|---|
| `library_store` | 3 keys, 2 texts, 5 versions, pages of 2 | 165 k | `TypeOK`; `IndexCurrent`: what is not in the trash is indexed under its words, unless they were renamed since; `NoOrphans`; `TombstonesPrecedeRebirth`: a reborn key is newer than its tombstone; `ChangesAreVersioned`: every change of an item is stamped, but that of a name |
| `clients` | 2 keys, 2 texts, 3 versions, 1 editor, 1 copy; a page with a channel for 1 event; a document of 2 fields, 2 works, 2 styles, 3 edits, 2 restarts | 0.9 M | `CopyHoldsUnchanged`: no missed change but that of a name; `QuietPageIsCurrent`: once nothing is under way a page shows the library; `DocumentsRight`: a rendered document shows what it cites, in its author's style, under the numbers of its bibliography; `NothingLost`: no save replaces what was not seen, names apart, and no citation is blanked |
| `search_index` | 2 row ids, 2 texts, 2 providers, 3 writes, 2 rebuilds, 1 restart, batch 2, chunks of 1 | 114 k | `IndexCurrent`, `EmbeddedOrQueued`, `MemoryIsTheTable`: memory covers the table, and one count tells whether it holds more; `SaveFollowsEdits`, `EventuallyEmbedded` |
| `file_store` | 2 keys, 1 writer, 1 deleting request and the worker, page of 1, 2 deletions, 1 stop | 203 k | `DeletedFilesAreQueued`, `LiveFilesStay`, `CleanupEnds` |
| `plugins` | 2 requests, 3 operations, 3 starts, 1 stop; 2 callers and a stopper | 3.0 M | `AnswerIsMine`: no caller gets what was said to another; `NoneHangs`: nobody waits on a closed pipe but by the named race; `OffStaysOff`: what is off stays off, until it is turned on, or restarts after its setting was lost |
| `catalogue` | 2 requests, 2 questions, room for 1 total; 2 collections; 2 tags, 2 editors, or 2 readers and an editor that adds; 2 papers, 2 works; 2 notes of 2 papers; 3 papers of 4 records, 1 request, limits 1 and 3, 1 write | 0.8 M | `TotalsAreRight`; `EveryShelfHangs`: no cycle; `ListedInTime`: a list was right while asked for, or says it may not be; `AddedTagsStay`; `CitationsAgree`; `TitledAndGrouped`: notes have titles, groups of duplicates are apart and exact; `NeverGoesBack`: the list of tags, the numbers of notes |
| `background` | 2 conversations, 2 questions, 2 steps, 1 stop; 2 targets and 1 direct fetch; 1 task; 2 readers of the log | 139 k | `OneTurnAtATime`, `AnswerIsThere`, `ConversationKept` (the refinement); `NeverUnasked`; `BackgroundEnds`: turns, rows waited for, tasks and a grown log come to their ends |
| `maintenance` | 2 tasks; 2 keys, pages of 1; 4 days in 2 months; 3 openings of 4 programs; 3 processes; 2 ports | 796 k | `TasksToldApart`; `ArchiveComesBack`; `NothingIsDropped`: each month keeps a backup, an opened database has its tables; `AddressIsTrue`: one server, and the shown port is the bound one |
| `answers` | 2 requests for a file, a page and a file it names, a paper and one brought by the extension, 4 keys, 2 downloads or uploads, 3 requests or deletions, 1 stop; and eight small worlds, one for each other part (`MCAnswers`) | 588 k | `AttachedRight`: what an attachment serves, one attachment for an address, what was told to be saved, whole pictures that belong; `FoundIsWhatIsAsked` (queries, searches, pictures, identifiers, services); `RecordsToldApart` (formats, styles, imports); `NothingTakenBack` (filters, imports) |

A property of several parts is a conjunction of named properties, one for each, in
the modules of the parts; each conjunct has a mutant of its own. Some of them
name exactly the race in which the code breaks what one would like to promise, and
promise it otherwise: `late` in `NoneHangs`, `off` in `OffStaysOff`, `unstamped` and `unindexed` in the store
and its clients, `crossed` and
`late` in `LiveFilesStay`, `intact` in the search index, `drift` in `CitationsAgree`,
`raced` in `Attaching`, `touched` in `Related` and `Archive`. The mutants show that
what is left is not empty.

### Bounds

Every bound is a constant of its module, to which the `.cfg` gives its value (for
the small worlds of `MCAnswers`, and for the tasks and the log of `MCBackground`, an `INSTANCE` does);
counters are cut off in a guard. They are chosen so that each
hazard can happen:

* Three keys give the store a tree of three levels, where a cascade of one level
  differs from a whole one; pages of two leave one item of the trash out.
* Three versions are enough for a client to read, miss and reread an item that is
  deleted and created again, and for an editor to hold one while it is written or a
  collection it is in is renamed; two texts are one such name, before and after.
* Two requests and room for one total let a late total meet a newer entry and an
  emptied cache.
* Chunks of one make a rebuild and a batch take several transactions, so that
  everything can come between two rows; two row ids let an id be given again while a
  worker or a rebuild holds it; two providers let a restart change them.
* A page of one leaves a second key waiting behind the first; a deleting request
  beside the worker makes passes overlap; two deletions let a key come back and go
  again; one stop falls at any step.
* Two conversations show that a place is held for each; two questions are the one
  that is being answered and the one that is refused or waits; two steps are one
  that calls tools and one that answers.
* Two requests for a plugin and three operations are the fewest with which one
  restarts while another disables, and for a plugin to be turned off, not found by a reload
  and left out of the setting by another's toggle. Two callers are the one that is answered and the
  one that is not.
* Four days in two months let a month end, pruning keep one of two, and a backup of
  today replace itself. The four lists of migrations are one that grew, one from which
  an entry is missing, and one with an entry in between.
* Two requests over one attachment are the fewest that share the file beside it; four
  keys hold the paper that was there and one that is saved with its note and its file,
  or two attachments of one paper.
* A capacity of one makes the second event that is not yet received a lag.
* Two fields and four lists of works (none, one, and both in either order) let a number
  depend on what stands before; two starts let the server forget while the pane is closed.
* Two notes of two papers let a number be given, its note be moved or deleted, and another
  be asked for. Three papers make a chain of two groups that share a paper; a limit of one
  cuts a scan and one of three does not; one write falls between two scans.
* In `MCAnswers` each world holds the cases that the code tells apart (an identifier
  that two services know and one that only one does, a list that names a work twice,
  a title quoted as a whole) and no more.

`CHECK_DEADLOCK FALSE` is set where a behaviour stops because its bound is used up,
or because everything asked for has been done. `search_index` and `file_store`
check for deadlock. Symmetry is used for values that no definition orders or names,
and in no run with liveness.

### Fairness

* `SearchIndex`: the embedding worker is an endless loop with a pause, so its
  steps are weakly fair where they cannot fail and strongly fair where they can: the
  database and the provider may fail any number of times, but not always. A rebuild is
  a task of its own, weakly fair. Users, restarts and errors are not fair.
* `FileStore`: the worker's passes; for no key does removal fail for ever, nor the
  end of every pass that removed it. Nothing is assumed of requests.
* `MCBackground` (`BackFair`): a turn is a spawned task whose calls have timeouts,
  so each of its steps is weakly fair; the download worker loops for ever,
  a download has a timeout, a bulk write ends; a job goes on to its end or its error;
  the worker of the log ticks, and transactions and reads end. Nothing is assumed of users,
  of retries, or of a server that is stopped.

## 4. Findings

Three runs each check one sentence of the code, and TLC finds behaviour of the code
that breaks it:

* `rebuild_stale`: a rebuild writes rows that it read before its transaction, so an
  edit in between is not found by search, against "safe to run at any time".
* `more_stuck`: a refresh while the next page is loading leaves `loadingMore` set,
  and no later page is ever asked for.
* `restore_rebins`: a restore puts back into the trash what the user had
  restored, against "anything already present is left exactly as it is".

The others were met while modelling. `PROJECT.json` quotes each sentence and says
which definition has what the code does, and which property leaves the case out.
Among them: emptying the trash takes children that are not in it; `since=` tells
of no deletion; vectors of another provider are not regenerated; two fetches of one
address make two attachments; an item that comes back during a cleanup loses its
file; votes of a deleted paper stay; a call to a plugin can miss the drain; a
plugin turned off during its start comes up all the same, and one that was not found while
another was turned on or off comes up after a restart; a tag that is renamed or deleted, or a
collection that is deleted, changes items without stamping them, so that `since=` lists none of them, an editor that
read one before saves its old tag with a version that still matches, and search
finds it by the old name; two requests for the
browser's port can leave a listener nobody knows; a file whose name ends in `.part` is
written in place; asking who serves refuses a server
that starts; a search of the trash by keyword finds nothing; a value that is one
quotation mark panics an import; thumbnails outlive the pages they show.

## 5. Proofs

TLAPS checks these for all values of the constants. They rest on the `ASSUME`s of
the modules, which TLC evaluates in the runs: bounds are naturals; batches, chunks,
pages of an archive and what a cache or a channel can hold are positive, and so are
the number of days and the highest number of a note; some text has no title; names of nothing (`NoKey`, `NoWork`, `Nobody`, `Off`, the top of
the collections, the workers) are names of nothing else; keys, callers, papers, and the fields and works of a document are
finitely many; there is a conversation. Parts that
share a run are proved about in its module: a step of the whole is a step of one part
and leaves the others alone.

* `Clients_proofs`: of the store, `TypeCorrect`, `VersionsCorrect`, `TombstonesCorrect`,
  `IndexCorrect`, `ForestCorrect`. `TypeOK` is inductive and bounds every stamp by the
  version of the library; with it each of the others is inductive, since a write
  stamps one more than anything there is, or is a renaming, and then the histories hold what
  it changed (`RowsStamped`, `Renamed`). Lemmas say what a cascade takes (`Subtree` is
  closed under children) and what a reindex leaves. `SavesAreSafe`: what an editor holds
  matches the row, or the row has a later version, hence equal versions mean the same row,
  even when the key was deleted and created again, and differ at most in what a name
  changed behind the version (`MatchesStill`). `CopyCorrect`: the copy with the
  answer on its way laid over it holds everything not stamped since the header, as `Matches` says.
  `ImplementsEditing` and `ImplementsSyncing`: every step of the composition is a step
  of the one and a step or stutter of the other, so both promises hold together
  (`ClientsAreSafe`, and beside the page `LibraryIsSafe`). `QuietPages`: while the socket
  is open and nothing was missed, either something is due that will have the page read
  again (`Due`: a write to be published, an event to be passed on, a lag, a timer), or
  the last read has seen the library as it is (`LastSees`) and what was asked before
  it will be dropped by its number. `DocumentsAreRight`: a set is
  numbered by what comes up to each of its elements, and where these sets are a chain each is
  one larger than the one before, so counting gives every number once (`OrderedIsRight`); the
  order of first appearances and the order of references are such chains (`UpToIsChain`,
  `BibliographyRight`). While nothing is edited, what the pane has read, was answered and has
  written is of the document as it is (`SheetInv`), and the document knows the style before the
  server may know another (`StyleInv`).
* `Catalogue_proofs`. `CacheExact`, `AnswersCorrect`, `CacheStaysBounded`: the invariant
  is about pairs of requests: one that read version v while it was current knows the
  total any other counted at v, so an entry stored late may be given to it.
  `ShelvesHang`: that every collection hangs from the top is not inductive as a statement
  of chains; `Rooted` says that of any set of collections one hangs outside the set.
  A move keeps it because what moves is not in `Above` of its new parent, a set that is
  closed under parents. `ListsInTime`, for both lists: the rows under the present version
  are the present ones (`StampsAreExact`, `CountsAreExact`), and what a request can be
  given under the version it read was seen while it was under way (`SeenInTime`).
  `ListOnlyAdvances` and `TagsStay` follow the same invariant of the tags; for the numbers of
  notes `ListOnlyAdvances` needs that the counter of a paper is at least every number given in
  it (`NumbersCounted`). `CitationsAddUp`:
  no two papers share a rowid and a rowid without a paper has no list (`RowsAreOwn`); then
  storing and deleting move the votes, the citers and `drift` by the same number,
  which `OneMore` and `OneLess` count. `TotalsStayRight` says of the run what `CacheExact` and
  `AnswersCorrect` say of the module. `TitlesAndGroups`: folding one more list keeps that groups
  are apart, that each holds a list with everything that touches it, and that no part of a group
  is closed (`FoldedRight`, `FoldStep`); so after the last list the groups are the connected
  components (`FoundAreComponents`). What a scan that was not cut found is every group by its
  key (`ScanFinds`: two papers to a group, so fewer than twice the limit fill no more groups
  than that), and it stays so while the version stands (`Complete`), which is what is then
  remembered. Those that were cut, or were overtaken, still give groups that are apart.
* `FileStore`: `FileTypeCorrect`, `NoFileForgotten`, `NoFileTaken`. Passes
  overlap, so a pass cannot rely on what it listed being still queued. A live key in the
  hands of a pass came back after the pass had dropped such keys (`crossed`), and a
  removed directory that is there again was written late or for such a key.
* `Attaching`: `AttachingIsTyped`, `ServesTheLastAlways`, `PicturesBelongAlways`,
  `OnePerAddressAlways`, `SavedIsToldAlways`, and all of them as `AttachingIsRight`. `Apart`: no file has two paths, and what a
  request fills lies under the name beside its target, where it was put or swapped to.
  `Kept` is about a key that no two requests had in hand: one that writes it holds the
  file that is beside (`Alone`, `Written`); one that renames it has moved the bytes to
  the new name, or not yet (`Moving`); and who renames it no longer, or writes it no
  longer, leaves it serving what was put last (`Serves`, `Waits`). A stop inside a write
  changes nothing that is served, one inside a rename crosses what it planned. `Races`: of
  two requests that find an address missing under a paper one is first to create it, and
  the other is in `raced`. `Saves`: what was told and what is in hand are what was made, and
  the notes of each are as many as were counted until something is deleted.
* `SearchIndex`: `SearchTypesHold`, `IndexStaysCurrent`, `NoneUnembedded`,
  `MirrorCovers`, `CountIsEnough`, `MemoryStaysTheTable`, `SavesFollow`. Three invariants. `TypeOK` has the foreign
  keys, and that a pass and a rebuild exclude each other. `MirrorInv`: a vector of the
  table is in memory as it is there, or in the hand of the pass that is about to
  publish it; and while a pass compares counts, the one it holds is still that of the
  memory, so that equal counts and one inclusion make the two sets equal. `IndexInv`:
  until something comes between the steps of a rebuild, every row the rebuild has
  passed says what its item says (`Passed`, `Says`), what it has read is as it is, and
  outside a rebuild that is every row. A chunk is a prefix of what is left
  (`FirstIsPrefix`), so no row falls between two chunks.
* `Plugins_proofs`: `AnswersAreMine`, `NobodyHangs`. Numbers are given once, so the
  waiter under a number is the caller that has it; whoever is inserted before the
  drain is woken by it. `StaysOff`: once turned off while nothing else was under way, either
  the one request that turns it off is somewhere on its way and every other is idle
  (`TurningOff`), or nothing that could start the plugin finds it on: neither the
  entry, nor the set of ids, nor what a reload has read before it replaces the entries,
  nor the setting and what is about to be saved there (`Rest`, `Harmless`). The setting
  alone may have lost it, when it was listed while the plugin was absent (`off` is then
  `"unlisted"`), so only then does a restart end the promise.
* `Background_proofs`: `OneTurn`, `AnswersAreThere`, `TurnsKeepConversation`. The run of
  a conversation is the question that is at work in it (`TurnInv`); an ended question
  left its answer first (`AnswerInv`); a question that was not answered is in no
  answer of its thread (`ThreadInv`). With these every step maps to one of
  `Conversation` or to a stutter: storing the answer is `Answer`, and what follows
  it in the code, finishing and forgetting the run, is not seen. `DownloadsAreAsked`: a
  target has one row at most (`OneRowEach`), so a claim takes the only row that waited for
  it, and where one waits a request is left that was not claimed (`ClaimsAsked`).
* `Maintenance_proofs`. `AddressesAreTrue`: who acts as a server, or tests the lock, owns
  it (`OwnersAct`), and what is listened on is known, let go of, or in the hand of one
  request (`HeldPorts`). `EndsAreTold`: where the job of a task is tells what memory and
  its record say (`JobsAre`), also when saving failed; pruning leaves no more than are
  kept (`FewAreLeft`). `NothingDropped`: what a run is about to delete is superseded by a
  later copy of the month (`DroppedAreSuperseded`), which may itself be deleted
  meanwhile, but only for one that stands for both (`StillSuperseded`, over the latest
  of them); and an opened database has what its program lists because everything before
  `next` is there or was taken to be (`SchemaInv`). `ExportedComesBack`: a file that was
  there all along is still to be met by the export or in the archive (`SteadyTravel`), and
  what the restore has been through has arrived unless users touched it (`SoFar`). A page
  is empty only when nothing is left: what was added first of all that is left is on it.

Only model-checked:

* all liveness (`EventuallyEmbedded`, `CleanupEnds`, `BackgroundEnds`), which
  with `ENABLED` is beyond the prover's backends;
* what `answers` checks beside attachments (`FoundIsWhatIsAsked`, `RecordsToldApart`,
  `NothingTakenBack`): these are mostly about what functions compute of lists and texts, by
  recursion over data and in part with recursive operators (`Importing`, `RoundTrips`);
* the worker of the log (`LogFile`), of which a run checks its liveness only.

Some definitions were stated in another way so that they can be reasoned about, and
mean the same: what is above a collection (`Shelves.Above`) and what a page creates
(`Archive.Created`) are least sets instead of iterations; the ranking of missing works
(`CitedWorks.Rankings`) and the order of equal groups (`Duplicates.Scans`) are any the
database may give, not one; the order in which works appear and are sorted in a document
(`Documents.Ordered`) is given by what comes before each; and groups are folded by a
function of how many lists were taken (`Duplicates.Coalesce`).

## 6. Not modelled

* AI providers (`yk-ai`): calls of outside services, with no state between them. That
  they fail, answer late or answer nonsense is an outcome in `SearchIndex`, `Searching`
  and `Turns`; the number of retries changes none of it.
* Data model and text (`yk-core`): types and functions of their input. Those that decide
  something are in the modules that use them (fingerprints in `Duplicates` and `Resolving`,
  titles in `NoteTitles`, filters in `Queries`).
* Views of the web application, selection and tabs. The draft of a note
  (`useNoteDraft.ts`) is an editor of `OptimisticEdit` with timers; its autosave is not
  modelled.
* In the item store: the columns that only repeat others, and the merging of single
  fields. In the index: the encoding of vectors, and how a text is cut into words.
* In the archive: its format, its collections, and the integrity report. In the
  database: statistics, compaction, the size of the pool.
* In plugins: manifests, permissions and what they contribute. In conversations:
  texts, mentions and skills.
* Reading text out of PDF files: a call of a library.
* The routes of the reader, of summaries and of close reading, the MCP and host
  surfaces, updates and the service scripts: they call operations that are modelled
  elsewhere, or other programs.
* Counters of progress, logging and wording.

What could follow: the draft of a note as an editor of `OptimisticEdit`; the
cycle that `merge` can make of a tree, which no text of the code forbids and no
property covers; abstract specifications, as `Conversation` is one, of the download
queue and of the registry of plugins.
