----------------------------- MODULE SearchIndex -----------------------------
(***************************************************************************)
(* The derived search structures and who keeps them in step with the       *)
(* items: the full-text rows and the embedding queue written inside every  *)
(* item transaction (yk-store/src/index.rs), the vectors and their mirror  *)
(* in memory kept by the embedding worker (yk-search/src/lib.rs), and the  *)
(* background rebuild (rebuild_index in yk-store/src/items.rs).            *)
(*                                                                         *)
(* Rows are known by rowid, and items.id has no AUTOINCREMENT: the rowid   *)
(* of the last row is handed out again once that row is deleted.  A text   *)
(* stands for what is searchable in an item, and for its content hash.     *)
(* Only regular items are modelled (notes and files are never embedded).   *)
(* Writes are those of the item repository: a tag that is renamed behind   *)
(* its items (LibraryStore.Relabel) indexes and queues nothing.            *)
(*                                                                         *)
(* The embedding worker and a rebuild hold the embedding_pass mutex for    *)
(* all of their steps; writers do not take it.                             *)
(***************************************************************************)
EXTENDS Integers, FiniteSets, FiniteSetTheorems, WellFoundedInduction, TLAPS

CONSTANTS
  Texts,         \* what an item can say
  Providers,     \* embedding providers that a configuration can name
  MaxId,         \* bound on rowids
  MaxWrites,     \* bound on writes by users
  MaxRebuilds,   \* bound on rebuilds started
  MaxRestarts,   \* bound on restarts of the server
  Batch,         \* embeddings.batch: queue rows read in one pass
  WriteChunk,    \* WRITE_CHUNK: rows saved in one transaction
  RebuildChunk   \* CHUNK: rows rebuilt in one transaction

ASSUME SearchAssumption ==
  /\ MaxId \in Nat /\ MaxWrites \in Nat /\ MaxRebuilds \in Nat
  /\ MaxRestarts \in Nat
  /\ Batch \in Nat \ {0} /\ WriteChunk \in Nat \ {0}
  /\ RebuildChunk \in Nat \ {0}

VARIABLES
  items,      \* the items table, by rowid
  fts,        \* items_fts and items_trgm
  queue,      \* embed_queue
  vectors,    \* item_vectors
  cache,      \* the vectors held in memory, of the current provider
  provider,   \* the provider the server was started with
  worker,     \* the embedding pass
  rebuild,    \* the rebuild
  intact,     \* history: nothing came between the steps of the last rebuild
  writes, rebuilds, restarts   \* how many there have been

store  == <<items, fts, queue, vectors>>
counts == <<writes, rebuilds, restarts>>
vars   == <<store, cache, provider, worker, rebuild, intact, counts>>

Ids   == 1 .. MaxId
Empty == [i \in {} |-> i]
Row   == [text : Texts, deleted : BOOLEAN]

\* The part of a table outside S, and a table with rows of another over it.
Without(table, S) == [i \in DOMAIN table \ S |-> table[i]]
Over(table, rows) ==
  [i \in DOMAIN table \cup DOMAIN rows |->
     IF i \in DOMAIN rows THEN rows[i] ELSE table[i]]

\* The n smallest members of S, or all of them.
First(S, n) == {i \in S : Cardinality({j \in S : j <= i}) <= n}

IdleWorker  == [at |-> "idle", held |-> 0, rows |-> Empty, saved |-> Empty]
IdleRebuild == [at |-> "idle", cursor |-> 0, rows |-> Empty]

Rebuilding == rebuild.at \notin {"idle", "failed"}

\* Mutant of the next: a pass and a rebuild each wait for their own kind only.
OwnKind  == worker.at = "idle" \/ ~Rebuilding

\* embedding_pass can be taken.
PassFree == worker.at = "idle" /\ ~Rebuilding

-----------------------------------------------------------------------------
(***************************************************************************)
(* index::reindex, over rows given by the caller.                          *)
(***************************************************************************)

Searchable(rows) == {i \in DOMAIN rows : ~rows[i].deleted}

\* Mutant of the next: a row that was embedded once stays as it is.
NeedFirstVector(rows) == Searchable(rows) \ DOMAIN vectors

\* Rows whose vector does not have this text; the provider is not compared.
NeedVector(rows) ==
  {i \in Searchable(rows) : i \notin DOMAIN vectors \/ vectors[i].text # rows[i].text}

\* Mutant of the next: a queued row is not taken back when the text becomes
\* again what was embedded.
QueueKept(rows) ==
  Over(queue, [i \in NeedVector(rows) |-> rows[i].text])

QueueAfter(rows) ==
  Over(Without(queue, DOMAIN rows), [i \in NeedVector(rows) |-> rows[i].text])

\* Mutant of the next: a row that is there is kept.
FtsMissing(rows) ==
  Over([i \in Searchable(rows) |-> rows[i].text], fts)

FtsAfter(rows) ==
  Over(Without(fts, DOMAIN rows), [i \in Searchable(rows) |-> rows[i].text])

Reindex(rows) == fts' = FtsAfter(rows) /\ queue' = QueueAfter(rows)

-----------------------------------------------------------------------------
(***************************************************************************)
(* What users do to the items.                                             *)
(***************************************************************************)

UserWrite ==
  /\ writes < MaxWrites
  /\ writes' = writes + 1
  /\ intact' = (intact /\ ~Rebuilding)
  /\ UNCHANGED <<cache, provider, worker, rebuild, rebuilds, restarts>>

\* The rowid SQLite gives a new row: one more than the largest in use.
NextId == IF DOMAIN items = {} THEN 1
          ELSE 1 + CHOOSE i \in DOMAIN items : \A j \in DOMAIN items : j <= i

Put(rows) ==
  /\ items' = Over(items, rows)
  /\ Reindex(rows)
  /\ UNCHANGED vectors

\* create.
Create(text) ==
  /\ NextId \in Ids
  /\ UserWrite
  /\ Put([i \in {NextId} |-> [text |-> text, deleted |-> FALSE]])

\* update.
Edit(i, text) ==
  /\ i \in DOMAIN items
  /\ UserWrite
  /\ Put([j \in {i} |-> [items[i] EXCEPT !.text = text]])

\* set_trashed.
SetTrashed(i, deleted) ==
  /\ i \in DOMAIN items
  /\ UserWrite
  /\ Put([j \in {i} |-> [items[i] EXCEPT !.deleted = deleted]])

\* merge: the duplicate is trashed as it stands in the search tables, and the
\* master alone is reindexed.
Merge(master, other, text) ==
  /\ {master, other} \subseteq DOMAIN items /\ master # other
  /\ text \in {items[master].text, items[other].text}
  /\ UserWrite
  /\ LET kept == [i \in {master} |-> [items[master] EXCEPT !.text = text]] IN
     /\ items' = Over([items EXCEPT ![other].deleted = TRUE], kept)
     /\ Reindex(kept)
  /\ UNCHANGED vectors

\* delete: index::remove, and the vector by its foreign key.
Delete(i) ==
  /\ i \in DOMAIN items
  /\ UserWrite
  /\ items' = Without(items, {i})
  /\ fts' = Without(fts, {i})
  /\ queue' = Without(queue, {i})
  /\ vectors' = Without(vectors, {i})

-----------------------------------------------------------------------------
(***************************************************************************)
(* embed_pending.                                                          *)
(***************************************************************************)

Step(next) ==
  /\ worker' = next
  /\ UNCHANGED <<provider, rebuild, intact, counts>>

\* The vectors a start or a reload puts in memory (read_vectors).
Mine(p) == {i \in DOMAIN vectors : vectors[i].provider = p}
Mirror(p) == [i \in Mine(p) |-> vectors[i].text]

\* The pass takes the mutex and notes how many vectors are in memory.
TakePass ==
  /\ PassFree
  /\ Step([IdleWorker EXCEPT !.at = "counting", !.held = Cardinality(DOMAIN cache)])
  /\ UNCHANGED <<store, cache>>

\* Mutant of the next: memory is never found to hold more than the table.
NothingGone == FALSE

\* discard_vectors_of_deleted_items: one count against the table.
SomeGone == Cardinality(Mine(provider)) < worker.held

CountStored ==
  /\ worker.at = "counting"
  /\ Step([worker EXCEPT !.at = IF SomeGone THEN "reloading" ELSE "reading"])
  /\ UNCHANGED <<store, cache>>

ReloadMirror ==
  /\ worker.at = "reloading"
  /\ cache' = Mirror(provider)
  /\ Step([worker EXCEPT !.at = "reading"])
  /\ UNCHANGED store

\* The oldest queue rows; their order is not modelled, so any will do.
ReadQueue ==
  /\ worker.at = "reading"
  /\ \E S \in SUBSET DOMAIN queue :
       /\ Cardinality(S) =
            IF Cardinality(DOMAIN queue) < Batch THEN Cardinality(DOMAIN queue) ELSE Batch
       /\ Step(IF S = {} THEN IdleWorker
               ELSE [worker EXCEPT !.at = "embedding",
                                   !.rows = [i \in S |-> queue[i]]])
  /\ UNCHANGED <<store, cache>>

\* The provider answers with a vector for every text.
Embedded ==
  /\ worker.at = "embedding"
  /\ Step([worker EXCEPT !.at = "saving"])
  /\ UNCHANGED <<store, cache>>

\* A query fails, the provider fails or answers nonsense, or the caller is
\* cancelled at an await: nothing more of this pass is saved.
GiveUp ==
  /\ worker.at \in {"counting", "reading", "embedding", "saving"}
  /\ Step(IdleWorker)
  /\ UNCHANGED <<store, cache>>

\* Mutant of the next: whatever was asked for is saved.
SavedAnyway(S) == S \cap DOMAIN items

\* A vector is saved for a row that is still queued with the text it was read
\* with: an edit replaces that text, a deletion removes the row.
StillWanted(S) ==
  {i \in S \cap DOMAIN queue : queue[i] = worker.rows[i]}

\* One chunk, in one transaction.
SaveChunk ==
  /\ worker.at = "saving"
  /\ LET chunk == First(DOMAIN worker.rows, WriteChunk)
         saved == [i \in StillWanted(chunk) |-> worker.rows[i]]
     IN
     /\ vectors' = Over(vectors, [i \in DOMAIN saved |->
                                    [text |-> saved[i], provider |-> provider]])
     /\ queue' = Without(queue, DOMAIN saved)
     /\ Step([worker EXCEPT !.at = "publishing", !.saved = saved,
                            !.rows = Without(worker.rows, chunk)])
  /\ UNCHANGED <<items, fts, cache>>

\* Mutant of the next: only vectors that memory has not seen.
PublishedNew == Without(worker.saved, DOMAIN cache)

Published == worker.saved

\* After the commit, in the same blocking call: the mirror.
Publish ==
  /\ worker.at = "publishing"
  /\ cache' = Over(cache, Published)
  /\ Step(IF worker.rows = Empty THEN IdleWorker
          ELSE [worker EXCEPT !.at = "saving", !.saved = Empty])
  /\ UNCHANGED store

-----------------------------------------------------------------------------
(***************************************************************************)
(* reindex: rebuild_index, then the mirror again.  Each chunk is read      *)
(* before its transaction begins.                                          *)
(***************************************************************************)

Continue(next) ==
  /\ rebuild' = next
  /\ UNCHANGED <<items, provider, worker, writes, restarts>>

StartRebuild ==
  /\ PassFree /\ rebuilds < MaxRebuilds
  /\ rebuilds' = rebuilds + 1
  /\ intact' = TRUE
  /\ Continue([IdleRebuild EXCEPT !.at = "clearing"])
  /\ UNCHANGED <<fts, queue, vectors, cache>>

After(cursor) == First({i \in DOMAIN items : i > cursor}, RebuildChunk)
Last(S) == CHOOSE i \in S : \A j \in S : j <= i

ClearChunk ==
  /\ rebuild.at = "clearing"
  /\ LET chunk == After(rebuild.cursor) IN
     /\ fts' = Without(fts, chunk)
     /\ queue' = Without(queue, chunk)
     /\ vectors' = Without(vectors, chunk)
     /\ Continue(IF chunk = {} THEN [rebuild EXCEPT !.at = "reading", !.cursor = 0]
                 ELSE [rebuild EXCEPT !.cursor = Last(chunk)])
  /\ UNCHANGED <<cache, intact, rebuilds>>

ReadChunk ==
  /\ rebuild.at = "reading"
  /\ LET chunk == After(rebuild.cursor) IN
     Continue(IF chunk = {} THEN [rebuild EXCEPT !.at = "reloading"]
              ELSE [rebuild EXCEPT !.at = "writing", !.cursor = Last(chunk),
                                   !.rows = [i \in chunk |-> items[i]]])
  /\ UNCHANGED <<fts, queue, vectors, cache, intact, rebuilds>>

EndInError == Continue([IdleRebuild EXCEPT !.at = "failed"]) /\ intact' = FALSE

\* The transaction writes the rows as they were read.  Queueing a row whose
\* item has been deleted breaks the foreign key: the transaction rolls back
\* and the rebuild ends there, with an error.
WriteRows ==
  /\ rebuild.at = "writing"
  /\ IF NeedVector(rebuild.rows) \subseteq DOMAIN items
     THEN /\ Reindex(rebuild.rows)
          /\ Continue([rebuild EXCEPT !.at = "reading", !.rows = Empty])
          /\ UNCHANGED intact
     ELSE /\ UNCHANGED <<fts, queue>>
          /\ EndInError
  /\ UNCHANGED <<vectors, cache, rebuilds>>

\* The database stays locked through the last attempt of retry_busy.
RebuildError ==
  /\ rebuild.at \in {"clearing", "reading", "writing"}
  /\ EndInError
  /\ UNCHANGED <<fts, queue, vectors, cache, rebuilds>>

FinishRebuild ==
  /\ rebuild.at = "reloading"
  /\ cache' = Mirror(provider)
  /\ Continue(IdleRebuild)
  /\ UNCHANGED <<fts, queue, vectors, intact, rebuilds>>

-----------------------------------------------------------------------------
\* The server stops at any point and starts again, with the provider that the
\* configuration then names; SearchEngine::new loads that provider's vectors.
Restart(p) ==
  /\ restarts < MaxRestarts
  /\ restarts' = restarts + 1
  /\ provider' = p
  /\ cache' = Mirror(p)
  /\ worker' = IdleWorker
  /\ rebuild' = IdleRebuild
  /\ intact' = (intact /\ ~Rebuilding)
  /\ UNCHANGED <<store, writes, rebuilds>>

-----------------------------------------------------------------------------
Init ==
  /\ items = Empty /\ fts = Empty /\ queue = Empty /\ vectors = Empty
  /\ cache = Empty
  /\ provider \in Providers
  /\ worker = IdleWorker
  /\ rebuild = IdleRebuild
  /\ intact = TRUE
  /\ writes = 0 /\ rebuilds = 0 /\ restarts = 0

Users ==
  \/ \E t \in Texts : Create(t)
  \/ \E i \in Ids, t \in Texts : Edit(i, t)
  \/ \E i \in Ids, d \in BOOLEAN : SetTrashed(i, d)
  \/ \E i, j \in Ids, t \in Texts : Merge(i, j, t)
  \/ \E i \in Ids : Delete(i)

\* A pass runs to its end unless it gives up.
Pass ==
  \/ CountStored \/ ReloadMirror \/ ReadQueue \/ Embedded \/ SaveChunk \/ Publish

Rebuild == ClearChunk \/ ReadChunk \/ WriteRows \/ FinishRebuild

Next ==
  \/ Users
  \/ TakePass \/ Pass \/ GiveUp
  \/ StartRebuild \/ Rebuild \/ RebuildError
  \/ \E p \in Providers : Restart(p)

Spec == Init /\ [][Next]_vars

\* The embedding worker ticks for ever and each call it makes returns; neither
\* the database nor the provider fails every time it is asked, nor is the
\* caller cancelled every time.  A rebuild runs to its end, or to its error.
FairSpec ==
  /\ Spec
  /\ WF_vars(TakePass) /\ WF_vars(ReloadMirror) /\ WF_vars(Publish)
  /\ SF_vars(CountStored) /\ SF_vars(ReadQueue)
  /\ SF_vars(Embedded) /\ SF_vars(SaveChunk)
  /\ WF_vars(Rebuild)

-----------------------------------------------------------------------------
TextTable(t) == DOMAIN t \subseteq Ids /\ t \in [DOMAIN t -> Texts]
RowTable(t)  == DOMAIN t \subseteq Ids /\ t \in [DOMAIN t -> Row]
VectorRow    == [text : Texts, provider : Providers]

StoreShape ==
  /\ RowTable(items) /\ TextTable(fts) /\ DOMAIN fts \subseteq DOMAIN items
  /\ TextTable(queue) /\ DOMAIN queue \subseteq DOMAIN items
  /\ DOMAIN vectors \subseteq DOMAIN items
  /\ vectors \in [DOMAIN vectors -> VectorRow]
  /\ TextTable(cache) /\ provider \in Providers

WorkerShape ==
  /\ worker = [at |-> worker.at, held |-> worker.held,
               rows |-> worker.rows, saved |-> worker.saved]
  /\ worker.at \in {"idle", "counting", "reloading", "reading", "embedding",
                    "saving", "publishing"}
  /\ TextTable(worker.rows) /\ TextTable(worker.saved)

RebuildShape ==
  /\ rebuild = [at |-> rebuild.at, cursor |-> rebuild.cursor, rows |-> rebuild.rows]
  /\ rebuild.at \in {"idle", "clearing", "reading", "writing", "reloading", "failed"}
  /\ rebuild.cursor \in Nat
  /\ RowTable(rebuild.rows)

Apart == worker.at = "idle" \/ ~Rebuilding

\* Every variable has its type; no row of a search table, no queued row and no
\* vector is left of a row that is gone (their foreign keys, the deletion's
\* index::remove); and the embedding_pass mutex keeps a pass and a rebuild apart.
TypeOK == StoreShape /\ WorkerShape /\ RebuildShape /\ Apart

Live == {i \in DOMAIN items : ~items[i].deleted}

Found ==
  /\ DOMAIN fts \subseteq DOMAIN items
  /\ \A i \in Live : i \in DOMAIN fts /\ fts[i] = items[i].text

\* Every item outside the trash is found under what it says now, and no row is
\* left of an item that is gone, though a new item may have its rowid
\* (index::reindex, index::remove).  A rebuild that ends and that no write, no
\* stop and no error came across keeps it so, or makes it so again.
IndexCurrent == intact /\ rebuild.at = "idle" => Found

\* Whatever the order of edits, embeddings, failures and cancellations, an
\* item outside the trash has the vector of what it says now, or is queued to
\* get it (index::reindex, embed_pending, rebuild_index).
EmbeddedOrQueued ==
  intact /\ rebuild.at = "idle" =>
    \A i \in Live :
      \/ i \in DOMAIN queue /\ queue[i] = items[i].text
      \/ i \in DOMAIN vectors /\ vectors[i].text = items[i].text

\* "Only ever *shrinks* behind the table, so one comparison is enough to
\* notice" (discard_vectors_of_deleted_items): outside the moment between a
\* commit and its publication the memory holds every vector of the table, as
\* it is there, even when a rowid has been used twice.
MirrorCoversTable ==
  worker.at # "publishing" /\ ~Rebuilding =>
    \A i \in Mine(provider) : i \in DOMAIN cache /\ cache[i] = vectors[i].text

\* When the count of the table is not below what memory holds, memory holds
\* the vectors of the table and no other: no vector of a deleted item is left
\* to answer for the item that has its rowid now (the same comment).
CountIsExact == CountStored /\ worker'.at = "reading" => DOMAIN cache = Mine(provider)
OneCountIsEnough == [][CountIsExact]_vars

\* What answers questions is the table, as far as anybody can tell, after every
\* step.
MemoryIsTheTable == [][MirrorCoversTable' /\ CountIsExact]_vars

\* A late answer of the provider never replaces what a later edit made of the
\* vector's text: saving only ever brings a vector to what is queued
\* (embed_pending).
SaveFollowsEdits ==
  [][\A i \in DOMAIN vectors' :
       (i \notin DOMAIN vectors \/ vectors'[i] # vectors[i])
         => i \in DOMAIN queue /\ vectors'[i].text = queue[i]]_vars

\* When users stop, every item outside the trash ends up with the vector of
\* what it says, and so it does after a rebuild that nothing came across (the
\* embedding worker drains the queue).
EventuallyEmbedded ==
  <>[](intact => \A i \in Live : i \in DOMAIN vectors /\ vectors[i].text = items[i].text)

\* "Safe to run at any time" (rebuild_index): when a rebuild has run to its
\* end, search finds the items as they are.
RebuildEndsCurrent == rebuild.at = "idle" /\ rebuilds > 0 /\ restarts = 0 => Found

\* "anything else is stale and will be regenerated by the embedding worker"
\* (SearchEngine::load_vectors): an item outside the trash has a vector of the
\* provider in use, or is queued to get one.
ProviderEmbedsAll ==
  rebuild.at = "idle" =>
    \A i \in Live : i \in DOMAIN queue \/ i \in Mine(provider)

-----------------------------------------------------------------------------
\* A set of numbers that is not empty has a smallest member.
LEMMA Smallest ==
  ASSUME NEW S, S \subseteq Nat, S # {}
  PROVE  \E m \in S : \A k \in S : m <= k
<1>1. IsWellFoundedOn(OpToRel(<, Nat), Nat)
  BY NatLessThanWellFounded
<1>2. \E x \in S : \A y \in S : ~ (<<y, x>> \in OpToRel(<, Nat))
  BY <1>1, WFMin
<1>3. ASSUME NEW x \in S, NEW y \in S, y < x PROVE <<y, x>> \in OpToRel(<, Nat)
  <2>1. <<y, x>> \in Nat \X Nat /\ <<y, x>>[1] = y /\ <<y, x>>[2] = x
    OBVIOUS
  <2>2. <<y, x>>[1] < <<y, x>>[2]
    BY <1>3
  <2> QED BY <2>1, <2>2 DEF OpToRel
<1>4. PICK x \in S : \A y \in S : ~ (<<y, x>> \in OpToRel(<, Nat))
  BY <1>2
<1>5. \A y \in S : ~ (y < x)
  BY <1>3, <1>4
<1>6. \A y \in S : x <= y
  BY <1>5
<1> QED BY <1>6

\* And among the numbers up to a bound there is a largest.
LEMMA Largest ==
  ASSUME NEW n \in Nat, NEW S, S \subseteq 1 .. n, S # {}
  PROVE  \E m \in S : \A k \in S : k <= m
<1> DEFINE T == {j \in Nat : n - j \in S}
<1>1. T # {}
  <2>1. PICK k \in S : TRUE
    OBVIOUS
  <2>2. n - k \in Nat /\ n - (n - k) = k
    BY <2>1
  <2> QED BY <2>1, <2>2
<1>2. PICK m \in T : \A k \in T : m <= k
  BY <1>1, Smallest
<1>3. n - m \in S
  OBVIOUS
<1>4. ASSUME NEW k \in S PROVE k <= n - m
  <2>1. k \in 1 .. n /\ n - k \in T
    OBVIOUS
  <2>2. m <= n - k
    BY <1>2, <2>1
  <2> QED BY <2>1, <2>2
<1> QED BY <1>3, <1>4

\* What a chunk is: not empty when there is something to take, and without a
\* gap up to its last row.
LEMMA FirstIsPrefix ==
  ASSUME NEW S, S \subseteq Ids, NEW n \in Nat \ {0}, S # {}
  PROVE  LET chunk == First(S, n) IN
         /\ chunk \subseteq S /\ chunk # {}
         /\ Last(chunk) \in chunk
         /\ \A i \in S : i <= Last(chunk) <=> i \in chunk
<1> DEFINE Upto(i) == {j \in S : j <= i}
           chunk == First(S, n)
<1>0. S \subseteq Nat /\ IsFiniteSet(S)
  <2>1. IsFiniteSet(Ids)
    BY SearchAssumption, FS_Interval DEF Ids
  <2>2. IsFiniteSet(S)
    BY <2>1, FS_Subset
  <2> QED BY <2>2 DEF Ids
<1>1. PICK m \in S : \A k \in S : m <= k
  BY <1>0, Smallest
<1>2. m \in chunk
  <2>1. Upto(m) = {m}
    <3>1. \A j \in S : j <= m => j = m
      BY <1>0, <1>1
    <3>2. m <= m
      BY <1>0
    <3> QED BY <3>1, <3>2
  <2> QED BY <2>1, FS_Singleton DEF First
<1>3. chunk \subseteq S
  BY DEF First
<1>4. chunk # {} /\ chunk \subseteq 1 .. MaxId
  BY <1>2, <1>3 DEF Ids
<1>5. PICK l \in chunk : \A k \in chunk : k <= l
  BY <1>4, Largest, SearchAssumption
<1>6. Last(chunk) \in chunk /\ \A k \in chunk : k <= Last(chunk)
  BY <1>5 DEF Last
<1>7. ASSUME NEW i \in S, i <= Last(chunk) PROVE i \in chunk
  <2>1. Last(chunk) \in S /\ Cardinality(Upto(Last(chunk))) <= n
    BY <1>6 DEF First
  <2>2. Upto(i) \subseteq Upto(Last(chunk)) /\ Upto(Last(chunk)) \subseteq S
    <3>1. i \in Nat /\ Last(chunk) \in Nat /\ i <= Last(chunk)
      BY <1>0, <1>7, <2>1
    <3> HIDE DEF chunk
    <3>2. \A j \in S : j <= i => j <= Last(chunk)
      BY <1>0, <3>1
    <3> QED BY <3>2
  <2>3. IsFiniteSet(Upto(Last(chunk)))
    BY <1>0, <2>2, FS_Subset
  <2>4. /\ IsFiniteSet(Upto(i))
        /\ Cardinality(Upto(i)) <= Cardinality(Upto(Last(chunk)))
    BY <2>2, <2>3, FS_Subset
  <2>5. Cardinality(Upto(i)) \in Nat /\ Cardinality(Upto(Last(chunk))) \in Nat
    BY <2>3, <2>4, FS_CardinalityType
  <2> HIDE DEF Upto
  <2>6. Cardinality(Upto(i)) <= n
    BY <2>1, <2>4, <2>5
  <2> QED BY <2>6 DEF First, Upto
<1> QED BY <1>3, <1>4, <1>6, <1>7

LEMMA OverTyped ==
  ASSUME NEW t, NEW r, NEW R, t \in [DOMAIN t -> R], r \in [DOMAIN r -> R]
  PROVE  Over(t, r) \in [DOMAIN Over(t, r) -> R]
<1>1. \A i \in DOMAIN t \cup DOMAIN r : (IF i \in DOMAIN r THEN r[i] ELSE t[i]) \in R
  OBVIOUS
<1> QED BY <1>1 DEF Over

LEMMA WithoutTyped ==
  ASSUME NEW t, NEW S, NEW R, t \in [DOMAIN t -> R]
  PROVE  Without(t, S) \in [DOMAIN Without(t, S) -> R]
<1>1. \A i \in DOMAIN t \ S : t[i] \in R
  OBVIOUS
<1> QED BY <1>1 DEF Without

\* What reindexing makes of the queue and of the full-text rows: nothing but
\* the rows given changes, and these become what they say.
LEMMA Reindexed ==
  ASSUME NEW rows, RowTable(rows), TextTable(queue), TextTable(fts), Reindex(rows)
  PROVE  /\ TextTable(queue') /\ TextTable(fts')
         /\ DOMAIN queue' = (DOMAIN queue \ DOMAIN rows) \cup NeedVector(rows)
         /\ \A i \in NeedVector(rows) : queue'[i] = rows[i].text
         /\ \A i \in DOMAIN queue \ DOMAIN rows : queue'[i] = queue[i]
         /\ DOMAIN fts' = (DOMAIN fts \ DOMAIN rows) \cup Searchable(rows)
         /\ \A i \in Searchable(rows) : fts'[i] = rows[i].text
         /\ \A i \in DOMAIN fts \ DOMAIN rows : fts'[i] = fts[i]
<1> DEFINE more == [i \in NeedVector(rows) |-> rows[i].text]
           kept == Without(queue, DOMAIN rows)
           found == [i \in Searchable(rows) |-> rows[i].text]
           left == Without(fts, DOMAIN rows)
<1>1. NeedVector(rows) \subseteq Searchable(rows) /\ Searchable(rows) \subseteq DOMAIN rows
  BY DEF NeedVector, Searchable
<1>2. queue' = Over(kept, more) /\ fts' = Over(left, found)
  BY DEF Reindex, QueueAfter, FtsAfter
<1>3. /\ DOMAIN kept = DOMAIN queue \ DOMAIN rows /\ DOMAIN left = DOMAIN fts \ DOMAIN rows
      /\ \A i \in DOMAIN kept : kept[i] = queue[i]
      /\ \A i \in DOMAIN left : left[i] = fts[i]
  BY DEF Without
<1>4. kept \in [DOMAIN kept -> Texts] /\ left \in [DOMAIN left -> Texts]
  BY WithoutTyped DEF TextTable
<1>5. \A i \in Searchable(rows) : rows[i].text \in Texts
  BY <1>1 DEF RowTable, Row
<1>6. DOMAIN more = NeedVector(rows) /\ more \in [DOMAIN more -> Texts]
  BY <1>1, <1>5
<1>7. DOMAIN found = Searchable(rows) /\ found \in [DOMAIN found -> Texts]
  BY <1>5
<1> HIDE DEF kept, left
<1>8. queue' \in [DOMAIN queue' -> Texts] /\ fts' \in [DOMAIN fts' -> Texts]
  <2>1. queue' \in [DOMAIN queue' -> Texts]
    BY <1>2, <1>4, <1>6, OverTyped
  <2>2. fts' \in [DOMAIN fts' -> Texts]
    BY <1>2, <1>4, <1>7, OverTyped
  <2> QED BY <2>1, <2>2
<1>9. /\ DOMAIN queue' = DOMAIN kept \cup NeedVector(rows)
      /\ \A i \in NeedVector(rows) : queue'[i] = more[i]
      /\ \A i \in DOMAIN kept \ NeedVector(rows) : queue'[i] = kept[i]
  BY <1>2, <1>6 DEF Over
<1>10. /\ DOMAIN fts' = DOMAIN left \cup Searchable(rows)
       /\ \A i \in Searchable(rows) : fts'[i] = found[i]
       /\ \A i \in DOMAIN left \ Searchable(rows) : fts'[i] = left[i]
  BY <1>2, <1>7 DEF Over
<1>11. TextTable(queue') /\ TextTable(fts')
  BY <1>1, <1>3, <1>8, <1>9, <1>10 DEF TextTable, RowTable
<1>12. /\ \A i \in DOMAIN queue \ DOMAIN rows : queue'[i] = queue[i]
       /\ \A i \in DOMAIN fts \ DOMAIN rows : fts'[i] = fts[i]
  BY <1>1, <1>3, <1>9, <1>10
<1> QED BY <1>3, <1>9, <1>10, <1>11, <1>12

\* What users do is to write some rows, and perhaps to trash others, or to
\* delete one.
Writes(rows) ==
  /\ RowTable(rows) /\ RowTable(items')
  /\ DOMAIN items' = DOMAIN items \cup DOMAIN rows
  /\ \A i \in DOMAIN rows : items'[i] = rows[i]
  /\ \A i \in DOMAIN items \ DOMAIN rows : items'[i] = items[i] \/ items'[i].deleted
  /\ Reindex(rows) /\ UNCHANGED vectors

LEMMA PutWrites ==
  ASSUME RowTable(items), NEW rows, RowTable(rows), Put(rows)
  PROVE  Writes(rows)
<1>1. items' = Over(items, rows) /\ Reindex(rows) /\ UNCHANGED vectors
  BY DEF Put
<1>2. /\ DOMAIN items' = DOMAIN items \cup DOMAIN rows
      /\ \A i \in DOMAIN rows : items'[i] = rows[i]
      /\ \A i \in DOMAIN items \ DOMAIN rows : items'[i] = items[i]
  BY <1>1 DEF Over
<1>3. items' \in [DOMAIN items' -> Row]
  BY <1>1, OverTyped DEF RowTable
<1>4. RowTable(items')
  BY <1>2, <1>3 DEF RowTable
<1> QED BY <1>1, <1>2, <1>4 DEF Writes

LEMMA UsersWrite ==
  ASSUME StoreShape, Users
  PROVE  UserWrite /\ ((\E rows : Writes(rows)) \/ (\E i \in Ids : Delete(i)))
<1>0. RowTable(items)
  BY DEF StoreShape
<1>1. ASSUME NEW t \in Texts, Create(t) PROVE UserWrite /\ \E rows : Writes(rows)
  <2> DEFINE rows == [i \in {NextId} |-> [text |-> t, deleted |-> FALSE]]
  <2>1. NextId \in Ids /\ UserWrite /\ Put(rows)
    BY <1>1 DEF Create
  <2>2. RowTable(rows)
    BY <2>1 DEF RowTable, Row
  <2> QED BY <1>0, <2>1, <2>2, PutWrites
<1>2. ASSUME NEW i \in Ids, NEW t \in Texts, Edit(i, t) PROVE UserWrite /\ \E rows : Writes(rows)
  <2> DEFINE rows == [j \in {i} |-> [items[i] EXCEPT !.text = t]]
  <2>1. i \in DOMAIN items /\ UserWrite /\ Put(rows)
    BY <1>2 DEF Edit
  <2>2. RowTable(rows)
    BY <1>0, <2>1 DEF RowTable, Row
  <2> QED BY <1>0, <2>1, <2>2, PutWrites
<1>3. ASSUME NEW i \in Ids, NEW d \in BOOLEAN, SetTrashed(i, d)
      PROVE  UserWrite /\ \E rows : Writes(rows)
  <2> DEFINE rows == [j \in {i} |-> [items[i] EXCEPT !.deleted = d]]
  <2>1. i \in DOMAIN items /\ UserWrite /\ Put(rows)
    BY <1>3 DEF SetTrashed
  <2>2. RowTable(rows)
    BY <1>0, <2>1 DEF RowTable, Row
  <2> QED BY <1>0, <2>1, <2>2, PutWrites
<1>4. ASSUME NEW i \in Ids, NEW j \in Ids, NEW t \in Texts, Merge(i, j, t)
      PROVE  UserWrite /\ \E rows : Writes(rows)
  <2> DEFINE rows == [k \in {i} |-> [items[i] EXCEPT !.text = t]]
             trashed == [items EXCEPT ![j].deleted = TRUE]
  <2>1. /\ i \in DOMAIN items /\ j \in DOMAIN items /\ i # j
        /\ UserWrite /\ items' = Over(trashed, rows) /\ Reindex(rows) /\ UNCHANGED vectors
    BY <1>4 DEF Merge
  <2>2. RowTable(rows)
    BY <1>0, <2>1 DEF RowTable, Row
  <2>3. /\ DOMAIN trashed = DOMAIN items
        /\ \A k \in DOMAIN items : trashed[k] \in Row
        /\ \A k \in DOMAIN items : trashed[k] = items[k] \/ trashed[k].deleted
        /\ trashed \in [DOMAIN trashed -> Row]
    BY <1>0, <2>1 DEF RowTable, Row
  <2>4. /\ DOMAIN items' = DOMAIN items \cup DOMAIN rows
        /\ \A k \in DOMAIN rows : items'[k] = rows[k]
        /\ \A k \in DOMAIN items \ DOMAIN rows : items'[k] = trashed[k]
    <3> HIDE DEF trashed, rows
    <3> QED BY <2>1, <2>3 DEF Over
  <2>5. RowTable(items')
    <3> HIDE DEF trashed, rows
    <3>1. items' \in [DOMAIN items' -> Row]
      BY <2>1, <2>2, <2>3, OverTyped DEF RowTable
    <3> QED BY <3>1, <1>0, <2>2, <2>4 DEF RowTable
  <2>6. Writes(rows)
    <3> HIDE DEF trashed, rows
    <3> QED BY <2>1, <2>2, <2>3, <2>4, <2>5 DEF Writes
  <2> QED BY <2>1, <2>6
<1>5. ASSUME NEW i \in Ids, Delete(i) PROVE UserWrite
  BY <1>5 DEF Delete
<1> QED BY <1>1, <1>2, <1>3, <1>4, <1>5 DEF Users

\* The next chunk of a rebuild: none only when no item is left, and without a
\* gap.
LEMMA AfterIs ==
  ASSUME StoreShape, RebuildShape
  PROVE  LET chunk == After(rebuild.cursor) IN
         /\ chunk \subseteq DOMAIN items
         /\ chunk = {} => \A i \in DOMAIN items : i <= rebuild.cursor
         /\ chunk # {} =>
              /\ Last(chunk) \in Nat
              /\ \A i \in DOMAIN items :
                   i <= Last(chunk) => i <= rebuild.cursor \/ i \in chunk
<1> DEFINE S == {i \in DOMAIN items : i > rebuild.cursor}
<1>1. S \subseteq Ids /\ S \subseteq DOMAIN items /\ After(rebuild.cursor) = First(S, RebuildChunk)
  BY DEF After, StoreShape, RowTable
<1>2. DOMAIN items \subseteq Nat /\ rebuild.cursor \in Nat
  BY DEF StoreShape, RowTable, RebuildShape, Ids
<1>3. \A i \in DOMAIN items : i <= rebuild.cursor \/ i \in S
  BY <1>2
<1> HIDE DEF S
<1>4. CASE S = {}
  <2>1. After(rebuild.cursor) = {}
    BY <1>1, <1>4 DEF First
  <2> QED BY <1>3, <1>4, <2>1
<1>5. CASE S # {}
  <2>1. PICK chunk : chunk = First(S, RebuildChunk)
    OBVIOUS
  <2>2. /\ chunk \subseteq S /\ chunk # {} /\ Last(chunk) \in chunk
        /\ \A i \in S : i <= Last(chunk) <=> i \in chunk
    BY <1>1, <1>5, <2>1, FirstIsPrefix, SearchAssumption
  <2>3. chunk = After(rebuild.cursor) /\ Last(chunk) \in Nat
    BY <1>1, <1>2, <2>1, <2>2
  <2>4. \A i \in DOMAIN items : i <= Last(chunk) => i <= rebuild.cursor \/ i \in chunk
    BY <1>3, <2>2
  <2> QED BY <1>1, <2>2, <2>3, <2>4
<1> QED BY <1>4, <1>5

\* Every step keeps the types.
LEMMA StoreShapeStep == ASSUME TypeOK, [Next]_vars PROVE StoreShape'
<1> USE DEF TypeOK
<1>1. ASSUME NEW rows, Writes(rows), UserWrite PROVE StoreShape'
  <2>1. /\ UNCHANGED <<vectors, cache, provider>> /\ RowTable(rows)
        /\ TextTable(queue) /\ TextTable(fts)
    BY <1>1 DEF Writes, UserWrite, StoreShape
  <2>2. /\ TextTable(queue') /\ TextTable(fts')
        /\ DOMAIN queue' = (DOMAIN queue \ DOMAIN rows) \cup NeedVector(rows)
        /\ DOMAIN fts' = (DOMAIN fts \ DOMAIN rows) \cup Searchable(rows)
    BY <1>1, <2>1, Reindexed DEF Writes
  <2>3. DOMAIN items' = DOMAIN items \cup DOMAIN rows /\ RowTable(items')
    BY <1>1 DEF Writes
  <2>4. NeedVector(rows) \subseteq DOMAIN rows /\ Searchable(rows) \subseteq DOMAIN rows
    BY DEF NeedVector, Searchable
  <2> QED BY <2>1, <2>2, <2>3, <2>4 DEF StoreShape
<1>2. ASSUME NEW i \in Ids, Delete(i) PROVE StoreShape'
  <2>1. /\ items' = Without(items, {i}) /\ queue' = Without(queue, {i})
        /\ fts' = Without(fts, {i}) /\ vectors' = Without(vectors, {i})
        /\ UNCHANGED <<cache, provider>>
    BY <1>2 DEF Delete, UserWrite
  <2>2. /\ DOMAIN items' = DOMAIN items \ {i} /\ DOMAIN queue' = DOMAIN queue \ {i}
        /\ DOMAIN fts' = DOMAIN fts \ {i} /\ DOMAIN vectors' = DOMAIN vectors \ {i}
    BY <2>1 DEF Without
  <2>3. /\ items' \in [DOMAIN items' -> Row] /\ queue' \in [DOMAIN queue' -> Texts]
        /\ vectors' \in [DOMAIN vectors' -> VectorRow] /\ fts' \in [DOMAIN fts' -> Texts]
    BY <2>1, WithoutTyped DEF StoreShape, RowTable, TextTable
  <2> QED BY <2>1, <2>2, <2>3 DEF StoreShape, RowTable, TextTable
<1>3. ASSUME NEW p \in Providers, cache' = Mirror(p), provider' = p, UNCHANGED store PROVE StoreShape'
  <2>1. TextTable(Mirror(p))
    BY DEF Mirror, Mine, TextTable, StoreShape, RowTable, VectorRow
  <2> QED BY <1>3, <2>1 DEF StoreShape, store, RowTable, TextTable
<1>4. CASE UNCHANGED <<store, cache, provider>>
  BY <1>4 DEF StoreShape, store, RowTable, TextTable
<1>5. CASE SaveChunk
  <2> DEFINE chunk == First(DOMAIN worker.rows, WriteChunk)
             saved == [i \in StillWanted(chunk) |-> worker.rows[i]]
             more == [i \in DOMAIN saved |-> [text |-> saved[i], provider |-> provider]]
  <2>1. /\ vectors' = Over(vectors, more) /\ queue' = Without(queue, DOMAIN saved)
        /\ UNCHANGED <<items, fts, cache, provider>>
    BY <1>5 DEF SaveChunk, Step
  <2>2. /\ DOMAIN saved \subseteq DOMAIN queue /\ DOMAIN saved \subseteq DOMAIN worker.rows
        /\ DOMAIN more = DOMAIN saved
    BY DEF StillWanted, First
  <2>3. more \in [DOMAIN more -> VectorRow]
    BY <2>2 DEF WorkerShape, TextTable, StoreShape, VectorRow
  <2> HIDE DEF saved, more
  <2>4. vectors' \in [DOMAIN vectors' -> VectorRow]
    BY <2>1, <2>3, OverTyped DEF StoreShape
  <2>5. DOMAIN vectors' = DOMAIN vectors \cup DOMAIN saved
    BY <2>1, <2>2 DEF Over
  <2>6. queue' \in [DOMAIN queue' -> Texts] /\ DOMAIN queue' \subseteq DOMAIN queue
    <3>1. queue' \in [DOMAIN queue' -> Texts]
      BY <2>1, WithoutTyped DEF StoreShape, TextTable
    <3> QED BY <3>1, <2>1 DEF Without
  <2> QED BY <2>1, <2>2, <2>4, <2>5, <2>6 DEF StoreShape, TextTable, RowTable
<1>6. CASE Publish
  <2>1. cache' = Over(cache, worker.saved) /\ UNCHANGED store /\ UNCHANGED provider
    BY <1>6 DEF Publish, Published, Step
  <2>2. cache' \in [DOMAIN cache' -> Texts]
    BY <2>1, OverTyped DEF StoreShape, WorkerShape, TextTable
  <2>3. DOMAIN cache' \subseteq Ids
    BY <2>1 DEF Over, StoreShape, WorkerShape, TextTable
  <2> QED BY <2>1, <2>2, <2>3 DEF StoreShape, store, TextTable, RowTable
<1>7. CASE ClearChunk
  <2>1. PICK S : /\ queue' = Without(queue, S) /\ fts' = Without(fts, S)
                 /\ vectors' = Without(vectors, S) /\ UNCHANGED <<items, cache, provider>>
    BY <1>7 DEF ClearChunk, Continue
  <2>2. /\ DOMAIN queue' \subseteq DOMAIN queue /\ DOMAIN fts' \subseteq DOMAIN fts
        /\ DOMAIN vectors' \subseteq DOMAIN vectors
    BY <2>1 DEF Without
  <2>3. /\ queue' \in [DOMAIN queue' -> Texts] /\ fts' \in [DOMAIN fts' -> Texts]
        /\ vectors' \in [DOMAIN vectors' -> VectorRow]
    BY <2>1, WithoutTyped DEF StoreShape, TextTable
  <2> QED BY <2>1, <2>2, <2>3 DEF StoreShape, TextTable, RowTable
<1>8. CASE WriteRows
  <2>0. UNCHANGED <<items, vectors, cache, provider>>
    BY <1>8 DEF WriteRows, Continue, EndInError
  <2>1. CASE UNCHANGED <<fts, queue>>
    BY <2>0, <2>1 DEF StoreShape, TextTable, RowTable
  <2>2. CASE NeedVector(rebuild.rows) \subseteq DOMAIN items /\ Reindex(rebuild.rows)
    <3>1. /\ TextTable(queue') /\ TextTable(fts')
          /\ DOMAIN queue' = (DOMAIN queue \ DOMAIN rebuild.rows) \cup NeedVector(rebuild.rows)
          /\ DOMAIN fts' = (DOMAIN fts \ DOMAIN rebuild.rows) \cup Searchable(rebuild.rows)
      BY <2>2, Reindexed DEF StoreShape, RebuildShape
    <3>2. Searchable(rebuild.rows) \subseteq DOMAIN items
      BY <2>2 DEF NeedVector, StoreShape
    <3> QED BY <2>0, <2>2, <3>1, <3>2 DEF StoreShape, TextTable, RowTable
  <2> QED BY <1>8, <2>1, <2>2 DEF WriteRows
<1>9. CASE UNCHANGED vars
  BY <1>4, <1>9 DEF vars
<1>10. CASE TakePass \/ CountStored \/ ReadQueue \/ Embedded \/ GiveUp
  BY <1>4, <1>10 DEF TakePass, CountStored, ReadQueue, Embedded, GiveUp, Step
<1>11. CASE StartRebuild \/ ReadChunk \/ RebuildError
  BY <1>4, <1>11 DEF StartRebuild, ReadChunk, RebuildError, Continue, EndInError, store
<1>12. CASE ReloadMirror
  BY <1>3, <1>12 DEF ReloadMirror, Step, StoreShape
<1>13. CASE FinishRebuild
  BY <1>3, <1>13 DEF FinishRebuild, Continue, StoreShape, store
<1>14. ASSUME NEW p \in Providers, Restart(p) PROVE StoreShape'
  BY <1>3, <1>14 DEF Restart
<1>15. CASE Users
  BY <1>1, <1>2, <1>15, UsersWrite
<1> QED BY <1>5, <1>6, <1>7, <1>8, <1>9, <1>10, <1>11, <1>12, <1>13, <1>14, <1>15
        DEF Next, Pass, Rebuild

LEMMA TypeStep == ASSUME TypeOK, [Next]_vars PROVE TypeOK'
<1>0. StoreShape'
  BY StoreShapeStep
<1> USE DEF TypeOK, WorkerShape, RebuildShape, TextTable, RowTable, Apart, Rebuilding,
            IdleWorker, IdleRebuild, Empty
<1>1. CASE Users
  <2>1. UserWrite
    BY <1>1, UsersWrite
  <2> QED BY <1>0, <2>1 DEF UserWrite
<1>2. CASE TakePass
  BY <1>0, <1>2 DEF TakePass, PassFree, Step
<1>3. CASE CountStored \/ ReloadMirror \/ Embedded \/ GiveUp
  <2>1. CASE CountStored
    BY <1>0, <2>1 DEF CountStored, Step
  <2>2. CASE ReloadMirror
    BY <1>0, <2>2 DEF ReloadMirror, Step
  <2>3. CASE Embedded
    BY <1>0, <2>3 DEF Embedded, Step
  <2>4. CASE GiveUp
    BY <1>0, <2>4 DEF GiveUp, Step
  <2> QED BY <1>3, <2>1, <2>2, <2>3, <2>4
<1>4. CASE ReadQueue
  <2>1. PICK S \in SUBSET DOMAIN queue :
          Step(IF S = {} THEN IdleWorker
               ELSE [worker EXCEPT !.at = "embedding", !.rows = [i \in S |-> queue[i]]])
    BY <1>4 DEF ReadQueue
  <2> QED BY <1>0, <1>4, <2>1 DEF ReadQueue, Step, StoreShape
<1>5. CASE SaveChunk
  <2> DEFINE chunk == First(DOMAIN worker.rows, WriteChunk)
             saved == [i \in StillWanted(chunk) |-> worker.rows[i]]
             left == Without(worker.rows, chunk)
  <2>1. /\ worker' = [worker EXCEPT !.at = "publishing", !.saved = saved, !.rows = left]
        /\ worker.at = "saving" /\ UNCHANGED rebuild
    BY <1>5 DEF SaveChunk, Step
  <2>2. TextTable(saved)
    BY DEF StillWanted, First
  <2>3. TextTable(left)
    BY WithoutTyped DEF Without
  <2> HIDE DEF saved, left
  <2> QED BY <1>0, <2>1, <2>2, <2>3
<1>6. CASE Publish
  BY <1>0, <1>6 DEF Publish, Step
<1>7. CASE StartRebuild
  BY <1>0, <1>7 DEF StartRebuild, PassFree, Continue
<1>8. CASE ClearChunk
  <2>1. /\ rebuild.at = "clearing" /\ UNCHANGED worker
        /\ \/ rebuild' = [rebuild EXCEPT !.at = "reading", !.cursor = 0]
           \/ /\ After(rebuild.cursor) # {}
              /\ rebuild' = [rebuild EXCEPT !.cursor = Last(After(rebuild.cursor))]
    BY <1>8 DEF ClearChunk, Continue
  <2>2. After(rebuild.cursor) # {} => Last(After(rebuild.cursor)) \in Nat
    BY AfterIs
  <2>3. CASE rebuild' = [rebuild EXCEPT !.at = "reading", !.cursor = 0]
    BY <1>0, <2>1, <2>3
  <2>4. CASE /\ After(rebuild.cursor) # {}
             /\ rebuild' = [rebuild EXCEPT !.cursor = Last(After(rebuild.cursor))]
    <3>1. PICK l \in Nat : l = Last(After(rebuild.cursor))
      BY <2>2, <2>4
    <3>2. rebuild' = [rebuild EXCEPT !.cursor = l]
      BY <2>4, <3>1
    <3> QED BY <1>0, <2>1, <3>2
  <2> QED BY <2>1, <2>3, <2>4
<1>9. CASE ReadChunk
  <2> DEFINE rows == [i \in After(rebuild.cursor) |-> items[i]]
  <2>1. /\ rebuild.at = "reading" /\ UNCHANGED worker
        /\ \/ rebuild' = [rebuild EXCEPT !.at = "reloading"]
           \/ /\ After(rebuild.cursor) # {}
              /\ rebuild' = [rebuild EXCEPT !.at = "writing", !.rows = rows,
                                            !.cursor = Last(After(rebuild.cursor))]
    BY <1>9 DEF ReadChunk, Continue
  <2>2. After(rebuild.cursor) # {} => Last(After(rebuild.cursor)) \in Nat
    BY AfterIs
  <2>3. RowTable(rows)
    <3>1. After(rebuild.cursor) \subseteq DOMAIN items
      BY DEF After, First
    <3> QED BY <3>1 DEF StoreShape
  <2> HIDE DEF rows
  <2> QED BY <1>0, <2>1, <2>2, <2>3
<1>10. CASE WriteRows \/ RebuildError \/ FinishRebuild
  <2>1. CASE WriteRows
    <3>1. UNCHANGED worker /\ worker.at = "idle"
      BY <2>1 DEF WriteRows, Continue, EndInError
    <3>2. CASE rebuild' = [rebuild EXCEPT !.at = "reading", !.rows = Empty]
      BY <1>0, <3>1, <3>2
    <3>3. CASE rebuild' = [IdleRebuild EXCEPT !.at = "failed"]
      BY <1>0, <3>1, <3>3
    <3> QED BY <2>1, <3>2, <3>3 DEF WriteRows, Continue, EndInError
  <2>2. CASE RebuildError
    BY <1>0, <2>2 DEF RebuildError, Continue, EndInError
  <2>3. CASE FinishRebuild
    BY <1>0, <2>3 DEF FinishRebuild, Continue
  <2> QED BY <1>10, <2>1, <2>2, <2>3
<1>11. ASSUME NEW p \in Providers, Restart(p) PROVE TypeOK'
  BY <1>0, <1>11 DEF Restart
<1>12. CASE UNCHANGED vars
  BY <1>0, <1>12 DEF vars
<1> QED BY <1>1, <1>2, <1>3, <1>4, <1>5, <1>6, <1>7, <1>8, <1>9, <1>10, <1>11, <1>12
        DEF Next, Pass, Rebuild

LEMMA TypeInit == Init => TypeOK
BY DEF Init, TypeOK, StoreShape, WorkerShape, RebuildShape, Apart, RowTable, TextTable,
       IdleWorker, IdleRebuild, Empty, Rebuilding

-----------------------------------------------------------------------------
(***************************************************************************)
(* The mirror.  It may hold more than the table, as vectors are deleted    *)
(* behind it, but never less: what is missing from it is in the hand of    *)
(* the pass that publishes it.                                             *)
(***************************************************************************)

Covers ==
  \A i \in Mine(provider) :
    \/ worker.at = "publishing" /\ i \in DOMAIN worker.saved
    \/ i \in DOMAIN cache /\ cache[i] = vectors[i].text

InHand ==
  worker.at = "publishing" =>
    \A i \in Mine(provider) \cap DOMAIN worker.saved : vectors[i].text = worker.saved[i]

Counted == worker.at = "counting" => worker.held = Cardinality(DOMAIN cache)

MirrorInv == TypeOK /\ Covers /\ InHand /\ Counted

\* Vectors only go, or stay as they are.
OnlyGo ==
  DOMAIN vectors' \subseteq DOMAIN vectors /\ \A i \in DOMAIN vectors' : vectors'[i] = vectors[i]

LEMMA UsersOnlyGo == ASSUME TypeOK, Users PROVE OnlyGo
<1>1. \A i \in Ids : Delete(i) => OnlyGo
  BY DEF Delete, Without, OnlyGo
<1>2. \A rows : Writes(rows) => OnlyGo
  BY DEF Writes, OnlyGo
<1> QED BY <1>1, <1>2, UsersWrite DEF TypeOK

\* All steps but one take vectors away, or none.
LEMMA SavesOnlyAdd ==
  ASSUME TypeOK, [Next]_vars, ~SaveChunk
  PROVE  OnlyGo
<1>1. CASE Users
  BY <1>1, UsersOnlyGo
<1>2. CASE ClearChunk
  BY <1>2 DEF ClearChunk, Without, OnlyGo
<1>3. CASE UNCHANGED vectors
  BY <1>3 DEF OnlyGo
<1>4. CASE WriteRows \/ FinishRebuild \/ ReadChunk \/ StartRebuild \/ RebuildError
  BY <1>3, <1>4 DEF WriteRows, FinishRebuild, ReadChunk, StartRebuild, RebuildError
<1>5. CASE TakePass \/ CountStored \/ ReloadMirror \/ ReadQueue \/ Embedded \/ Publish \/ GiveUp
  BY <1>3, <1>5 DEF TakePass, CountStored, ReloadMirror, ReadQueue, Embedded, Publish, GiveUp, store
<1>6. ASSUME NEW p \in Providers, Restart(p) PROVE OnlyGo
  BY <1>3, <1>6 DEF Restart, store
<1>7. CASE UNCHANGED vars
  BY <1>3, <1>7 DEF vars, store
<1> QED BY <1>1, <1>2, <1>4, <1>5, <1>6, <1>7 DEF Next, Pass, Rebuild

LEMMA MirrorStep == ASSUME MirrorInv, [Next]_vars PROVE MirrorInv'
<1>0. TypeOK /\ TypeOK'
  BY TypeStep DEF MirrorInv
<1>1. ASSUME OnlyGo, UNCHANGED <<worker, cache, provider>>
      PROVE  MirrorInv'
  <2>1. Mine(provider)' \subseteq Mine(provider) /\ \A i \in Mine(provider)' : vectors'[i] = vectors[i]
    BY <1>1 DEF OnlyGo, Mine
  <2>2. Covers' /\ InHand' /\ Counted'
    BY <1>1, <2>1 DEF MirrorInv, Covers, InHand, Counted
  <2> QED BY <1>0, <2>2 DEF MirrorInv
<1>2. ASSUME UNCHANGED <<vectors, cache, provider>>, worker.at # "publishing",
             worker'.at \notin {"counting", "publishing"}
      PROVE  MirrorInv'
  BY <1>0, <1>2 DEF MirrorInv, Covers, InHand, Counted, Mine
<1>3. ASSUME UNCHANGED vectors, cache' = Mirror(provider)', worker'.at \notin {"counting", "publishing"}
      PROVE  MirrorInv'
  BY <1>0, <1>3 DEF MirrorInv, Covers, InHand, Counted, Mirror, Mine
<1>4. CASE TakePass
  <2>1. /\ UNCHANGED <<vectors, cache, provider>> /\ worker.at = "idle"
        /\ worker'.at = "counting" /\ worker'.held = Cardinality(DOMAIN cache)
    BY <1>4 DEF TakePass, PassFree, Step, IdleWorker, store
  <2> QED BY <1>0, <2>1 DEF MirrorInv, Covers, InHand, Counted, Mine
<1>5. CASE CountStored
  <2>1. worker'.at \in {"reading", "reloading"} /\ worker.at = "counting"
    BY <1>0, <1>5 DEF CountStored, Step, TypeOK, WorkerShape
  <2> QED BY <1>2, <1>5, <2>1 DEF CountStored, Step, store
<1>6. CASE ReadQueue
  <2>1. worker'.at \in {"idle", "embedding"} /\ worker.at = "reading"
    BY <1>0, <1>6 DEF ReadQueue, Step, IdleWorker, TypeOK, WorkerShape
  <2> QED BY <1>2, <1>6, <2>1 DEF ReadQueue, Step, store
<1>7. CASE Embedded
  <2>1. worker'.at = "saving" /\ worker.at = "embedding"
    BY <1>0, <1>7 DEF Embedded, Step, TypeOK, WorkerShape
  <2> QED BY <1>2, <1>7, <2>1 DEF Embedded, Step, store
<1>8. CASE GiveUp
  BY <1>2, <1>8 DEF GiveUp, Step, store, IdleWorker
<1>9. CASE ReloadMirror
  <2>1. worker'.at = "reading" /\ UNCHANGED <<provider, vectors>> /\ cache' = Mirror(provider)
    BY <1>0, <1>9 DEF ReloadMirror, Step, store, TypeOK, WorkerShape
  <2> QED BY <1>3, <2>1 DEF Mirror, Mine
<1>10. CASE FinishRebuild
  <2>1. worker'.at = "idle" /\ UNCHANGED <<provider, vectors>> /\ cache' = Mirror(provider)
    BY <1>0, <1>10 DEF FinishRebuild, Continue, TypeOK, Apart, Rebuilding
  <2> QED BY <1>3, <2>1 DEF Mirror, Mine
<1>11. ASSUME NEW p \in Providers, Restart(p) PROVE MirrorInv'
  <2>1. worker'.at = "idle" /\ provider' = p /\ UNCHANGED vectors /\ cache' = Mirror(p)
    BY <1>11 DEF Restart, store, IdleWorker
  <2> QED BY <1>3, <2>1 DEF Mirror, Mine
<1>12. CASE SaveChunk
  <2> DEFINE saved == [i \in StillWanted(First(DOMAIN worker.rows, WriteChunk)) |-> worker.rows[i]]
             more == [i \in DOMAIN saved |-> [text |-> saved[i], provider |-> provider]]
  <2>1. /\ worker.at = "saving" /\ vectors' = Over(vectors, more)
        /\ UNCHANGED <<provider, cache>>
        /\ worker'.at = "publishing" /\ worker'.saved = saved
    BY <1>0, <1>12 DEF SaveChunk, Step, TypeOK, WorkerShape
  <2>2. DOMAIN more = DOMAIN saved /\ \A i \in DOMAIN saved : more[i].text = saved[i]
    OBVIOUS
  <2> HIDE DEF saved, more
  <2>3. /\ \A i \in DOMAIN saved : i \in DOMAIN vectors' /\ vectors'[i].text = saved[i]
        /\ \A i \in DOMAIN vectors' \ DOMAIN saved : i \in DOMAIN vectors /\ vectors'[i] = vectors[i]
    BY <2>1, <2>2 DEF Over
  <2>4. \A i \in Mine(provider)' \ DOMAIN saved : i \in Mine(provider) /\ vectors'[i] = vectors[i]
    BY <2>1, <2>3 DEF Mine
  <2>5. Covers'
    BY <2>1, <2>4 DEF MirrorInv, Covers
  <2>6. InHand'
    BY <2>1, <2>3 DEF InHand
  <2> QED BY <1>0, <2>1, <2>5, <2>6 DEF MirrorInv, Counted
<1>13. CASE Publish
  <2>1. /\ worker.at = "publishing" /\ cache' = Over(cache, worker.saved)
        /\ UNCHANGED <<vectors, provider>> /\ worker'.at \notin {"counting", "publishing"}
    BY <1>0, <1>13 DEF Publish, Published, Step, store, IdleWorker, TypeOK, WorkerShape
  <2>2. /\ \A i \in DOMAIN worker.saved : i \in DOMAIN cache' /\ cache'[i] = worker.saved[i]
        /\ \A i \in DOMAIN cache \ DOMAIN worker.saved : i \in DOMAIN cache' /\ cache'[i] = cache[i]
    BY <2>1 DEF Over
  <2>3. ASSUME NEW i \in Mine(provider) PROVE i \in DOMAIN cache' /\ cache'[i] = vectors[i].text
    <3>1. CASE i \in DOMAIN worker.saved
      BY <2>1, <2>2, <3>1 DEF MirrorInv, InHand
    <3>2. CASE i \notin DOMAIN worker.saved
      BY <2>1, <2>2, <2>3, <3>2 DEF MirrorInv, Covers
    <3> QED BY <3>1, <3>2
  <2>4. Mine(provider)' = Mine(provider)
    BY <2>1 DEF Mine
  <2>5. Covers'
    BY <2>1, <2>3, <2>4 DEF Covers
  <2> QED BY <1>0, <2>1, <2>5 DEF MirrorInv, InHand, Counted
<1>14. CASE StartRebuild \/ ClearChunk \/ ReadChunk \/ WriteRows \/ RebuildError
  <2>1. UNCHANGED <<worker, cache, provider>>
    BY <1>14 DEF StartRebuild, ClearChunk, ReadChunk, WriteRows, RebuildError, Continue, EndInError
  <2>2. ~SaveChunk
    BY <1>0, <1>14 DEF StartRebuild, ClearChunk, ReadChunk, WriteRows, RebuildError,
                       PassFree, SaveChunk, TypeOK, Apart, Rebuilding
  <2> QED BY <1>0, <1>1, <2>1, <2>2, SavesOnlyAdd
<1>15. CASE Users
  <2>1. UNCHANGED <<worker, cache, provider>>
    BY <1>0, <1>15, UsersWrite DEF TypeOK, UserWrite
  <2> QED BY <1>0, <1>1, <1>15, <2>1, UsersOnlyGo
<1>16. CASE UNCHANGED vars
  BY <1>1, <1>16 DEF vars, store, OnlyGo
<1> QED BY <1>4, <1>5, <1>6, <1>7, <1>8, <1>9, <1>10, <1>11, <1>12, <1>13, <1>14, <1>15, <1>16
        DEF Next, Pass, Rebuild

LEMMA MirrorInit == Init => MirrorInv
<1> SUFFICES ASSUME Init PROVE MirrorInv
  OBVIOUS
<1>1. Mine(provider) = {} /\ worker.at = "idle"
  BY DEF Init, Mine, Empty, IdleWorker
<1> QED BY <1>1, TypeInit DEF MirrorInv, Covers, InHand, Counted

\* The memory that answers questions holds every vector of the table, as it is
\* there, whatever is edited, deleted, embedded, rebuilt or restarted.
THEOREM MirrorCovers == Spec => []MirrorCoversTable
<1>1. MirrorInv => MirrorCoversTable
  BY DEF MirrorInv, Covers, MirrorCoversTable
<1> QED BY <1>1, MirrorInit, MirrorStep, PTL DEF Spec

\* And one comparison of two counts is enough to know that it holds no other
\* (discard_vectors_of_deleted_items).
THEOREM CountIsEnough == Spec => OneCountIsEnough
<1>1. ASSUME MirrorInv, CountStored, worker'.at = "reading"
      PROVE  DOMAIN cache = Mine(provider)
  <2>1. worker.at = "counting" /\ ~SomeGone
    BY <1>1 DEF CountStored, Step, MirrorInv, TypeOK, WorkerShape
  <2>2. Mine(provider) \subseteq DOMAIN cache
    BY <1>1, <2>1 DEF MirrorInv, Covers
  <2>3. IsFiniteSet(DOMAIN cache)
    <3>1. IsFiniteSet(Ids)
      BY SearchAssumption, FS_Interval DEF Ids
    <3> QED BY <1>1, <3>1, FS_Subset DEF MirrorInv, TypeOK, StoreShape, TextTable
  <2>4. /\ Cardinality(Mine(provider)) \in Nat /\ Cardinality(DOMAIN cache) \in Nat
        /\ Cardinality(Mine(provider)) <= Cardinality(DOMAIN cache)
        /\ Cardinality(DOMAIN cache) = Cardinality(Mine(provider)) => DOMAIN cache = Mine(provider)
    BY <2>2, <2>3, FS_Subset, FS_CardinalityType
  <2>5. ~(Cardinality(Mine(provider)) < Cardinality(DOMAIN cache))
    BY <1>1, <2>1 DEF MirrorInv, Counted, SomeGone
  <2> QED BY <2>4, <2>5
<1>2. MirrorInv /\ [Next]_vars => [CountIsExact]_vars
  BY <1>1 DEF CountIsExact
<1> QED BY <1>2, MirrorInit, MirrorStep, PTL DEF Spec, OneCountIsEnough

\* Both: what answers questions is the table (discard_vectors_of_deleted_items).
THEOREM MemoryStaysTheTable == Spec => MemoryIsTheTable
<1>1. [CountIsExact]_vars /\ MirrorCoversTable' => [MirrorCoversTable' /\ CountIsExact]_vars
  OBVIOUS
<1> QED
  BY <1>1, MirrorCovers, CountIsEnough, PTL DEF MemoryIsTheTable, OneCountIsEnough

\* A vector is only ever brought to what is queued (embed_pending).
THEOREM SavesFollow == Spec => SaveFollowsEdits
<1> DEFINE Follows == \A i \in DOMAIN vectors' :
                        (i \notin DOMAIN vectors \/ vectors'[i] # vectors[i])
                          => i \in DOMAIN queue /\ vectors'[i].text = queue[i]
<1>1. ASSUME TypeOK, SaveChunk PROVE Follows
  <2> DEFINE saved == [i \in StillWanted(First(DOMAIN worker.rows, WriteChunk)) |-> worker.rows[i]]
             more == [i \in DOMAIN saved |-> [text |-> saved[i], provider |-> provider]]
  <2>1. vectors' = Over(vectors, more)
    BY <1>1 DEF SaveChunk
  <2>2. /\ DOMAIN more = DOMAIN saved
        /\ \A i \in DOMAIN saved : i \in DOMAIN queue /\ more[i].text = queue[i]
    BY DEF StillWanted
  <2> HIDE DEF saved, more
  <2> QED BY <2>1, <2>2 DEF Over
<1>2. ASSUME TypeOK, [Next]_vars, ~SaveChunk PROVE Follows
  <2>1. OnlyGo
    BY <1>2, SavesOnlyAdd
  <2> QED BY <2>1 DEF OnlyGo
<1>3. TypeOK /\ [Next]_vars => [Follows]_vars
  BY <1>1, <1>2
<1>4. Init => TypeOK
  BY TypeInit
<1>5. TypeOK /\ [Next]_vars => TypeOK'
  BY TypeStep
<1> HIDE DEF Follows
<1>6. Spec => [][Follows]_vars
  BY <1>3, <1>4, <1>5, PTL DEF Spec
<1> QED BY <1>6 DEF SaveFollowsEdits, Follows

-----------------------------------------------------------------------------
(***************************************************************************)
(* The search tables.  While a rebuild runs they are in step for the rows  *)
(* that it has passed; only what it read and has not written is on the way.*)
(***************************************************************************)

Says(i) ==
  /\ i \in DOMAIN fts /\ fts[i] = items[i].text
  /\ \/ i \in DOMAIN queue /\ queue[i] = items[i].text
     \/ i \notin DOMAIN queue /\ i \in DOMAIN vectors /\ vectors[i].text = items[i].text

Passed(i) ==
  \/ rebuild.at \in {"idle", "reloading"}
  \/ rebuild.at = "reading" /\ i <= rebuild.cursor
  \/ rebuild.at = "writing" /\ i <= rebuild.cursor /\ i \notin DOMAIN rebuild.rows

InStep ==
  /\ rebuild.at # "failed"
  /\ rebuild.at = "writing" =>
       \A i \in DOMAIN rebuild.rows : i \in DOMAIN items /\ rebuild.rows[i] = items[i]
  /\ \A i \in Live : Passed(i) => Says(i)

IndexInv == TypeOK /\ (intact => InStep)

\* Rows that are reindexed as they are now say what they say.
LEMMA ReindexSays ==
  ASSUME NEW rows, RowTable(rows), TextTable(queue), TextTable(fts), Reindex(rows), UNCHANGED vectors,
         NEW i \in DOMAIN rows, i \in DOMAIN items', items'[i] = rows[i], ~items'[i].deleted
  PROVE  Says(i)'
<1>1. i \in Searchable(rows)
  BY DEF Searchable
<1>2. i \in DOMAIN fts' /\ fts'[i] = items'[i].text
  <2>1. DOMAIN fts' = (DOMAIN fts \ DOMAIN rows) \cup Searchable(rows)
    BY Reindexed
  <2>2. fts'[i] = rows[i].text
    BY <1>1, Reindexed
  <2> QED BY <1>1, <2>1, <2>2
<1>3. CASE i \in NeedVector(rows)
  BY <1>2, <1>3, Reindexed DEF Says
<1>4. CASE i \notin NeedVector(rows)
  <2>1. i \notin DOMAIN queue'
    BY <1>4, Reindexed
  <2>2. i \in DOMAIN vectors' /\ vectors'[i].text = items'[i].text
    BY <1>1, <1>4 DEF NeedVector
  <2> QED BY <1>2, <2>1, <2>2 DEF Says
<1> QED BY <1>3, <1>4

\* And reindexing them leaves the others alone.
LEMMA ReindexLeaves ==
  ASSUME NEW rows, RowTable(rows), TextTable(queue), TextTable(fts), Reindex(rows), UNCHANGED vectors,
         NEW i, i \notin DOMAIN rows, items'[i] = items[i], Says(i)
  PROVE  Says(i)'
<1>1. NeedVector(rows) \subseteq DOMAIN rows /\ Searchable(rows) \subseteq DOMAIN rows
  BY DEF NeedVector, Searchable
<1>2. i \in DOMAIN fts' /\ fts'[i] = fts[i]
  BY <1>1, Reindexed DEF Says
<1>3. i \in DOMAIN queue' <=> i \in DOMAIN queue
  <2>1. DOMAIN queue' = (DOMAIN queue \ DOMAIN rows) \cup NeedVector(rows)
    BY Reindexed
  <2> QED BY <1>1, <2>1
<1>4. i \in DOMAIN queue => queue'[i] = queue[i]
  BY Reindexed
<1> QED BY <1>2, <1>3, <1>4 DEF Says

LEMMA UsersInStep == ASSUME IndexInv, Users, intact' PROVE InStep'
<1>0. TypeOK /\ StoreShape
  BY DEF IndexInv, TypeOK
<1>1. UserWrite
  BY <1>0, UsersWrite
<1>2. rebuild.at = "idle" /\ UNCHANGED rebuild /\ \A i \in Live : Says(i)
  BY <1>1 DEF UserWrite, Rebuilding, IndexInv, InStep, Passed
<1>3. ASSUME NEW rows, Writes(rows), NEW i \in Live' PROVE Says(i)'
  <2>0. /\ RowTable(rows) /\ TextTable(queue) /\ TextTable(fts)
        /\ Reindex(rows) /\ UNCHANGED vectors
    BY <1>0, <1>3 DEF Writes, StoreShape
  <2>1. i \in DOMAIN items' /\ ~items'[i].deleted
    BY <1>3 DEF Live
  <2>2. CASE i \in DOMAIN rows
    <3>1. items'[i] = rows[i]
      BY <1>3, <2>2 DEF Writes
    <3> QED BY <2>0, <2>1, <2>2, <3>1, ReindexSays
  <2>3. CASE i \notin DOMAIN rows
    <3>1. i \in Live /\ items'[i] = items[i]
      BY <1>3, <2>1, <2>3 DEF Writes, Live
    <3> QED BY <1>2, <2>0, <2>3, <3>1, ReindexLeaves
  <2> QED BY <2>2, <2>3
<1>4. ASSUME NEW k \in Ids, Delete(k), NEW i \in Live' PROVE Says(i)'
  <2>1. /\ items' = Without(items, {k}) /\ fts' = Without(fts, {k})
        /\ queue' = Without(queue, {k}) /\ vectors' = Without(vectors, {k})
    BY <1>4 DEF Delete
  <2>2. i \in Live /\ i # k /\ items'[i] = items[i]
    BY <1>4, <2>1 DEF Live, Without
  <2> QED BY <1>2, <2>1, <2>2 DEF Says, Without
<1> QED BY <1>0, <1>2, <1>3, <1>4, UsersWrite DEF InStep

LEMMA SaveInStep == ASSUME IndexInv, SaveChunk, intact PROVE InStep'
<1> DEFINE saved == [i \in StillWanted(First(DOMAIN worker.rows, WriteChunk)) |-> worker.rows[i]]
           more == [i \in DOMAIN saved |-> [text |-> saved[i], provider |-> provider]]
<1>1. /\ vectors' = Over(vectors, more) /\ queue' = Without(queue, DOMAIN saved)
      /\ UNCHANGED <<items, fts, rebuild>>
  BY DEF SaveChunk, Step
<1>2. /\ DOMAIN more = DOMAIN saved
      /\ \A i \in DOMAIN saved : i \in DOMAIN queue /\ more[i].text = queue[i]
  BY DEF StillWanted
<1> HIDE DEF saved, more
<1>3. ASSUME NEW i, Says(i) PROVE Says(i)'
  <2>1. CASE i \in DOMAIN saved
    <3>1. i \in DOMAIN vectors' /\ vectors'[i].text = queue[i] /\ i \notin DOMAIN queue'
      BY <1>1, <1>2, <2>1 DEF Over, Without
    <3> QED BY <1>1, <1>2, <1>3, <2>1, <3>1 DEF Says
  <2>2. CASE i \notin DOMAIN saved
    <3>1. i \in DOMAIN queue => i \in DOMAIN queue' /\ queue'[i] = queue[i]
      BY <1>1, <2>2 DEF Without
    <3>2. i \notin DOMAIN queue => i \notin DOMAIN queue'
      BY <1>1 DEF Without
    <3>3. i \in DOMAIN vectors => i \in DOMAIN vectors' /\ vectors'[i] = vectors[i]
      BY <1>1, <1>2, <2>2 DEF Over
    <3> QED BY <1>1, <1>3, <3>1, <3>2, <3>3 DEF Says
  <2> QED BY <2>1, <2>2
<1> QED BY <1>1, <1>3 DEF IndexInv, InStep, Live, Passed

LEMMA IndexStep == ASSUME IndexInv, [Next]_vars PROVE IndexInv'
<1>0. TypeOK /\ TypeOK' /\ StoreShape /\ RebuildShape
  BY TypeStep DEF IndexInv, TypeOK
<1> SUFFICES ASSUME intact' PROVE InStep'
  BY <1>0 DEF IndexInv
<1>1. CASE UNCHANGED <<store, rebuild, intact>>
  BY <1>1 DEF IndexInv, InStep, Live, Passed, Says, store
<1>2. CASE TakePass \/ CountStored \/ ReloadMirror \/ ReadQueue \/ Embedded \/ Publish \/ GiveUp
  BY <1>1, <1>2 DEF TakePass, CountStored, ReloadMirror, ReadQueue, Embedded, Publish, GiveUp, Step
<1>3. CASE SaveChunk
  BY <1>3, SaveInStep DEF SaveChunk, Step
<1>4. CASE StartRebuild
  <2>1. rebuild'.at = "clearing"
    BY <1>4 DEF StartRebuild, Continue, IdleRebuild
  <2> QED BY <2>1 DEF InStep, Passed
<1>5. CASE ClearChunk
  <2>1. rebuild'.at = "clearing" \/ (rebuild'.at = "reading" /\ rebuild'.cursor = 0)
    BY <1>0, <1>5 DEF ClearChunk, Continue, RebuildShape
  <2>2. \A i \in DOMAIN items' : ~(i <= 0)
    BY <1>0 DEF TypeOK, StoreShape, RowTable, Ids
  <2> QED BY <2>1, <2>2 DEF InStep, Passed, Live
<1>6. CASE ReadChunk
  <2> DEFINE rows == [i \in After(rebuild.cursor) |-> items[i]]
  <2>1. /\ rebuild.at = "reading" /\ UNCHANGED <<items, fts, queue, vectors, intact>>
        /\ \/ After(rebuild.cursor) = {} /\ rebuild'.at = "reloading"
           \/ /\ After(rebuild.cursor) # {}
              /\ rebuild'.at = "writing" /\ rebuild'.rows = rows
              /\ rebuild'.cursor = Last(After(rebuild.cursor))
    BY <1>0, <1>6 DEF ReadChunk, Continue, RebuildShape
  <2>2. \A i \in Live : i <= rebuild.cursor => Says(i)
    BY <2>1 DEF IndexInv, InStep, Passed
  <2>3. \A i \in DOMAIN items : Says(i) => Says(i)'
    BY <2>1 DEF Says
  <2>4. Live' = Live /\ Live \subseteq DOMAIN items
    BY <2>1 DEF Live
  <2>5. CASE After(rebuild.cursor) = {}
    <3>1. \A i \in DOMAIN items : i <= rebuild.cursor
      BY <1>0, <2>5, AfterIs
    <3> QED BY <2>1, <2>2, <2>3, <2>4, <2>5, <3>1 DEF InStep
  <2>6. CASE After(rebuild.cursor) # {}
    <3>1. /\ After(rebuild.cursor) \subseteq DOMAIN items
          /\ \A i \in DOMAIN items :
               i <= Last(After(rebuild.cursor)) =>
                 i <= rebuild.cursor \/ i \in After(rebuild.cursor)
      BY <1>0, <2>6, AfterIs
    <3>2. /\ rebuild'.at = "writing" /\ rebuild'.cursor = Last(After(rebuild.cursor))
          /\ rebuild'.rows = rows /\ UNCHANGED items
          /\ DOMAIN rows = After(rebuild.cursor) /\ \A i \in DOMAIN rows : rows[i] = items[i]
      BY <2>1, <2>6
    <3> HIDE DEF rows
    <3> QED BY <2>2, <2>3, <2>4, <3>1, <3>2 DEF InStep, Passed
  <2> QED BY <2>5, <2>6
<1>7. CASE WriteRows
  <2>1. CASE EndInError
    BY <2>1 DEF EndInError
  <2>2. CASE ~EndInError
    <3>1. /\ rebuild.at = "writing" /\ Reindex(rebuild.rows)
          /\ rebuild'.at = "reading" /\ rebuild'.cursor = rebuild.cursor
          /\ UNCHANGED <<items, vectors, intact>>
      BY <1>0, <1>7, <2>2 DEF WriteRows, Continue, RebuildShape
    <3>2. RowTable(rebuild.rows) /\ TextTable(queue) /\ TextTable(fts)
      BY <1>0 DEF RebuildShape, StoreShape
    <3>3. ASSUME NEW i \in Live', i <= rebuild.cursor PROVE Says(i)'
      <4>1. i \in Live /\ i \in DOMAIN items' /\ ~items'[i].deleted /\ items'[i] = items[i]
        BY <3>1 DEF Live
      <4>2. CASE i \in DOMAIN rebuild.rows
        <5>1. items'[i] = rebuild.rows[i]
          BY <3>1, <4>2 DEF IndexInv, InStep
        <5> QED BY <3>1, <3>2, <4>1, <4>2, <5>1, ReindexSays
      <4>3. CASE i \notin DOMAIN rebuild.rows
        <5>1. Says(i)
          BY <3>1, <3>3, <4>1, <4>3 DEF IndexInv, InStep, Passed
        <5> QED BY <3>1, <3>2, <4>1, <4>3, <5>1, ReindexLeaves
      <4> QED BY <4>2, <4>3
    <3> QED BY <3>1, <3>3 DEF InStep, Passed
  <2> QED BY <2>1, <2>2
<1>8. CASE RebuildError
  BY <1>8 DEF RebuildError, EndInError
<1>9. CASE FinishRebuild
  <2>1. /\ rebuild.at = "reloading" /\ rebuild'.at = "idle"
        /\ UNCHANGED <<items, fts, queue, vectors, intact>>
    BY <1>9 DEF FinishRebuild, Continue, IdleRebuild
  <2> QED BY <2>1 DEF IndexInv, InStep, Live, Passed, Says
<1>10. ASSUME NEW p \in Providers, Restart(p) PROVE InStep'
  <2>1. UNCHANGED store /\ rebuild'.at = "idle" /\ intact /\ ~Rebuilding
    BY <1>10 DEF Restart, IdleRebuild
  <2> QED BY <2>1 DEF IndexInv, InStep, Live, Passed, Says, Rebuilding, store
<1>11. CASE Users
  BY <1>11, UsersInStep
<1>12. CASE UNCHANGED vars
  BY <1>1, <1>12 DEF vars
<1> QED BY <1>2, <1>3, <1>4, <1>5, <1>6, <1>7, <1>8, <1>9, <1>10, <1>11, <1>12
        DEF Next, Pass, Rebuild

LEMMA IndexInit == Init => IndexInv
<1> SUFFICES ASSUME Init PROVE IndexInv
  OBVIOUS
<1>1. Live = {} /\ rebuild.at = "idle"
  BY DEF Init, Live, Empty, IdleRebuild
<1> QED BY <1>1, TypeInit DEF IndexInv, InStep

\* Every item outside the trash is found under what it says now, however
\* writes, embeddings, restarts and rebuilds follow each other, unless
\* something came between the steps of a rebuild (index::reindex).
THEOREM IndexStaysCurrent == Spec => []IndexCurrent
<1>1. IndexInv => IndexCurrent
  BY DEF IndexInv, TypeOK, StoreShape, InStep, Passed, Says, IndexCurrent, Found
<1> QED BY <1>1, IndexInit, IndexStep, PTL DEF Spec

\* And none of them is forgotten by the embedding worker (embed_pending).
THEOREM NoneUnembedded == Spec => []EmbeddedOrQueued
<1>1. IndexInv => EmbeddedOrQueued
  BY DEF IndexInv, InStep, Passed, Says, EmbeddedOrQueued
<1> QED BY <1>1, IndexInit, IndexStep, PTL DEF Spec

\* Every variable keeps its type, a pass and a rebuild never run at once, and
\* no search table names a row that is gone (index::remove, the foreign keys).
THEOREM SearchTypesHold == Spec => []TypeOK
BY TypeInit, TypeStep, PTL DEF Spec
==============================================================================
