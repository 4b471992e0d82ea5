---------------------------- MODULE DownloadQueue ----------------------------
(***************************************************************************)
(* The download queue (crates/yk-store/src/downloads.rs), the one worker   *)
(* that drains it (download_worker in crates/yk-server/src/workers.rs) and *)
(* the direct requests that attach a file the same way (attach_url in      *)
(* crates/yk-server/src/routes/files.rs).                                  *)
(*                                                                         *)
(* A target is an item with an address; the queue has at most one row for  *)
(* each.  Rows are known by rowid, without AUTOINCREMENT: the rowid of the *)
(* last row is given out again once that row is gone.  attach_url is three *)
(* steps: it looks for an attachment of that address, creates one when     *)
(* there is none, and writes the file.  Nothing is deleted here: FileStore *)
(* has what becomes of the files of deleted items.                         *)
(***************************************************************************)
EXTENDS Integers, FiniteSetsExt

CONSTANTS
  Targets,     \* an item and an address
  Requests,    \* POST items/:key/fetch requests that may run together
  MaxId,       \* bound on rowids
  MaxFiles,    \* bound on attachments
  MaxAsks,     \* bound on what users ask of the queue
  MaxStops     \* bound on stops of the server, and on bulk writes

VARIABLES
  queue,        \* fetch_queue, by rowid
  attacher,     \* the worker and the requests in attach_url
  job,          \* the rowid that the worker claimed
  attachments,  \* attachment items, numbered: their target, and if the file is there
  bulk,         \* a bulk write is running (Tasks::bulk_write_running)
  stops, bulks, \* how many there have been
  asks,         \* history: what users asked of each target
  claims        \* history: how often the worker took each target

vars == <<queue, attacher, job, attachments, bulk, stops, bulks, asks, claims>>
history == <<asks, claims>>

Attachers == Requests \cup {"worker"}
Ids       == 1 .. MaxId
Files     == 1 .. MaxFiles
States    == {"waiting", "running", "done", "failed"}
Row       == [target : Targets, state : States, reason : BOOLEAN]
Empty     == [i \in {} |-> i]

Away == [at |-> "idle", target |-> "none", file |-> 0]

\* Rows in a state, and the rows of a target (one at most).
InState(s) == {i \in DOMAIN queue : queue[i].state = s}
RowsOf(t)  == {i \in DOMAIN queue : queue[i].target = t}
NextId == IF DOMAIN queue = {} THEN 1
          ELSE 1 + CHOOSE i \in DOMAIN queue : \A j \in DOMAIN queue : j <= i

Set(i, row)    == [j \in DOMAIN queue \cup {i} |-> IF j = i THEN row ELSE queue[j]]
Keep(S)        == [j \in DOMAIN queue \ S |-> queue[j]]
Asked(t)       == asks' = [asks EXCEPT ![t] = @ + 1]

-----------------------------------------------------------------------------
(***************************************************************************)
(* What users ask of the queue.                                            *)
(***************************************************************************)

InAll == MapThenSumSet(LAMBDA u : asks[u], Targets)

Ask(t) ==
  /\ InAll < MaxAsks
  /\ Asked(t)
  /\ UNCHANGED <<attacher, job, attachments, bulk, stops, bulks, claims>>

\* enqueue, of a target that has no row.
EnqueueNew(t) ==
  /\ RowsOf(t) = {} /\ NextId \in Ids
  /\ Ask(t)
  /\ queue' = Set(NextId, [target |-> t, state |-> "waiting", reason |-> FALSE])

\* enqueue, of a target that has a row: a failed one waits again, with its
\* reason as it was; any other keeps its state.
EnqueueAgain(t) ==
  /\ Ask(t)
  /\ \E i \in RowsOf(t) :
       queue' = IF queue[i].state = "failed"
                THEN Set(i, [queue[i] EXCEPT !.state = "waiting"]) ELSE queue

\* retry: whatever the row's state.
Retry(i) ==
  /\ i \in DOMAIN queue
  /\ Ask(queue[i].target)
  /\ queue' = Set(i, [queue[i] EXCEPT !.state = "waiting", !.reason = FALSE])

\* remove, and the items_cleanup trigger when the item is deleted.
Remove(i) ==
  /\ i \in DOMAIN queue
  /\ queue' = Keep({i})
  /\ UNCHANGED <<attacher, job, attachments, bulk, stops, bulks, history>>

ClearFinished ==
  /\ InState("done") \cup InState("failed") # {}
  /\ queue' = Keep(InState("done") \cup InState("failed"))
  /\ UNCHANGED <<attacher, job, attachments, bulk, stops, bulks, history>>

-----------------------------------------------------------------------------
(***************************************************************************)
(* The worker and the requests.                                            *)
(***************************************************************************)

At(a, where) == attacher[a].at = where
Become(a, next) == attacher' = [attacher EXCEPT ![a] = next]
KeepRest == UNCHANGED <<bulk, stops, bulks, asks>>

\* Mutant of the next: nothing, while a row is marked running.
OneAtATime == IF InState("running") = {} THEN InState("waiting") ELSE {}

Claimable == InState("waiting")

\* claim: the waiting row with the smallest id, taken and marked in one
\* transaction; not while a bulk write runs.
Claim ==
  /\ At("worker", "idle") /\ ~bulk
  /\ Claimable # {}
  /\ LET i == CHOOSE i \in Claimable : \A j \in Claimable : i <= j
         t == queue[i].target
     IN
     /\ queue' = Set(i, [queue[i] EXCEPT !.state = "running"])
     /\ job' = i
     /\ claims' = [claims EXCEPT ![t] = @ + 1]
     /\ Become("worker", [Away EXCEPT !.at = "fetching", !.target = t])
  /\ UNCHANGED attachments /\ KeepRest

\* fetch: the same, asked for directly.
StartRequest(r, t) ==
  /\ At(r, "idle")
  /\ Become(r, [Away EXCEPT !.at = "fetching", !.target = t])
  /\ UNCHANGED <<queue, job, attachments, claims>> /\ KeepRest

\* The children of the item with this url.
Existing(t) == {n \in DOMAIN attachments : attachments[n].target = t}

\* The file has come: attach_url looks for an attachment of that address.
LookForAttachment(a) ==
  /\ At(a, "fetching")
  /\ LET t == attacher[a].target IN
     IF Existing(t) = {}
     THEN Become(a, [attacher[a] EXCEPT !.at = "creating"])
     ELSE \E n \in Existing(t) :
            Become(a, [attacher[a] EXCEPT !.at = "storing", !.file = n])
  /\ UNCHANGED <<queue, job, attachments, claims>> /\ KeepRest

CreateAttachment(a) ==
  /\ At(a, "creating")
  /\ LET n == Cardinality(DOMAIN attachments) + 1 IN
     /\ n \in Files
     /\ attachments' = [m \in DOMAIN attachments \cup {n} |->
                          IF m = n THEN [target |-> attacher[a].target, stored |-> FALSE]
                                   ELSE attachments[m]]
     /\ Become(a, [attacher[a] EXCEPT !.at = "storing", !.file = n])
  /\ UNCHANGED <<queue, job, claims>> /\ KeepRest

\* storage.put.
StoreFile(a) ==
  /\ At(a, "storing")
  /\ attachments' = [attachments EXCEPT ![attacher[a].file].stored = TRUE]
  /\ Become(a, IF a = "worker" THEN [attacher[a] EXCEPT !.at = "succeeded"] ELSE Away)
  /\ UNCHANGED <<queue, job, claims>> /\ KeepRest

\* The download fails, the item is gone, or the disk is full.
Fail(a) ==
  /\ attacher[a].at \in {"fetching", "creating", "storing"}
  /\ Become(a, IF a = "worker" THEN [attacher[a] EXCEPT !.at = "failed"] ELSE Away)
  /\ UNCHANGED <<queue, job, attachments, claims>> /\ KeepRest

\* succeed and fail: an UPDATE by rowid, whose own error the worker ignores.
Record ==
  /\ attacher["worker"].at \in {"succeeded", "failed"}
  /\ LET ok == At("worker", "succeeded") IN
     \/ queue' = IF job \in DOMAIN queue
                 THEN Set(job, [queue[job] EXCEPT !.state = IF ok THEN "done" ELSE "failed",
                                                  !.reason = ~ok])
                 ELSE queue
     \/ UNCHANGED queue
  /\ Become("worker", Away)
  /\ job' = 0
  /\ UNCHANGED <<attachments, claims>> /\ KeepRest

-----------------------------------------------------------------------------
\* Mutants of the next: what was interrupted is tried again by itself, or is
\* left in a state of its own.
Requeued(row) == [row EXCEPT !.state = "waiting"]
Stopped(row)  == [row EXCEPT !.state = "interrupted"]

\* recover_interrupted, on one row.
Interrupted(row) == [row EXCEPT !.state = "failed", !.reason = TRUE]

\* The server stops, whatever it was doing, and recovers before any worker
\* starts.
Restart ==
  /\ stops < MaxStops
  /\ stops' = stops + 1
  /\ queue' = [i \in DOMAIN queue |->
                 IF i \in InState("running") THEN Interrupted(queue[i]) ELSE queue[i]]
  /\ attacher' = [a \in Attachers |-> Away]
  /\ job' = 0
  /\ bulk' = FALSE
  /\ UNCHANGED <<attachments, bulks, history>>

BulkStart ==
  /\ ~bulk /\ bulks < MaxStops
  /\ bulk' = TRUE /\ bulks' = bulks + 1
  /\ UNCHANGED <<queue, attacher, job, attachments, stops, history>>

BulkEnd ==
  /\ bulk /\ bulk' = FALSE
  /\ UNCHANGED <<queue, attacher, job, attachments, stops, bulks, history>>

-----------------------------------------------------------------------------
Init ==
  /\ queue = Empty /\ attachments = Empty
  /\ attacher = [a \in Attachers |-> Away]
  /\ job = 0
  /\ bulk = FALSE /\ stops = 0 /\ bulks = 0
  /\ asks = [t \in Targets |-> 0] /\ claims = [t \in Targets |-> 0]

Users ==
  \/ \E t \in Targets : EnqueueNew(t) \/ EnqueueAgain(t)
  \/ \E i \in Ids : Retry(i) \/ Remove(i)
  \/ ClearFinished
  \/ \E r \in Requests, t \in Targets : StartRequest(r, t)

Attach(a) == LookForAttachment(a) \/ CreateAttachment(a) \/ StoreFile(a) \/ Fail(a)

Next ==
  \/ Users
  \/ Claim \/ Record
  \/ \E a \in Attachers : Attach(a)
  \/ Restart \/ BulkStart \/ BulkEnd

Spec == Init /\ [][Next]_vars

-----------------------------------------------------------------------------
\* Every variable has its type: a row is waiting, running, done or failed, and
\* nothing else, across a stop too (recover_interrupted).
TypeOK ==
  /\ DOMAIN queue \subseteq Ids /\ queue \in [DOMAIN queue -> Row]
  /\ attacher \in [Attachers -> [at : {"idle", "fetching", "creating", "storing",
                                       "succeeded", "failed"},
                                 target : Targets \cup {"none"}, file : 0 .. MaxFiles]]
  /\ job \in 0 .. MaxId
  /\ DOMAIN attachments \subseteq Files
  /\ attachments \in [DOMAIN attachments -> [target : Targets, stored : BOOLEAN]]
  /\ bulk \in BOOLEAN /\ stops \in 0 .. MaxStops /\ bulks \in 0 .. MaxStops
  /\ asks \in [Targets -> 0 .. MaxAsks]
  /\ claims \in [Targets -> Nat]

\* "Blindly repeating may duplicate a file already stored": across failures,
\* removals, lost records and restarts, a target is never downloaded more
\* often than somebody asked for it (claim, recover_interrupted).
NeverUnasked ==
  \A t \in Targets :
    claims[t] + Cardinality(RowsOf(t) \cap InState("waiting")) <= asks[t]

\* "One attachment per source URL: fetching twice must not litter the item
\* with duplicates" (attach_url).
OneAttachmentPerUrl ==
  \A n, m \in DOMAIN attachments :
    attachments[n].target = attachments[m].target => n = m

\* A file that is waited for is fetched, or fails with a reason, or is asked
\* for no more (download_worker); a bulk write only delays it.
WaitingEnds ==
  \A i \in Ids : (i \in InState("waiting")) ~> (i \notin InState("waiting"))
=============================================================================
