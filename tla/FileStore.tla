------------------------------- MODULE FileStore -------------------------------
(***************************************************************************)
(* The files of attachments: items in the database, bytes on the disk, and *)
(* the queue between them.  Deleting an item queues its key in the same    *)
(* transaction (the items_cleanup trigger); a pass of the cleanup lists    *)
(* the queue, removes the directories and finishes the rows, with          *)
(* everything else running in between (yk-store/src/recovery.rs,           *)
(* yk-server/src/deletion.rs and storage.rs).  A worker makes a pass every *)
(* few seconds, and so does every request that deletes, when it has        *)
(* deleted: passes overlap.                                                *)
(*                                                                         *)
(* A key can be used again: an archive and an API client bring their own.  *)
(***************************************************************************)
EXTENDS Integers, FiniteSets, TLAPS

CONSTANTS
  MaxKey,    \* keys are 1 .. MaxKey, in the order of their text
  Writers,   \* requests and imports that write a file
  Requests,  \* requests that delete items and then clean up
  Page,      \* rows that one pass of the cleanup takes
  MaxDeaths, \* bound on requests that delete
  MaxStops   \* bound on stops of the server and bulk writes together

ASSUME FileAssumption ==
  /\ MaxKey \in Nat /\ Page \in Nat \ {0} /\ MaxDeaths \in Nat /\ MaxStops \in Nat
  /\ "worker" \notin Requests

Keys == 1 .. MaxKey
Cleaners == Requests \cup {"worker"}

VARIABLES
  live,      \* keys of the items table
  pending,   \* file_cleanup
  disk,      \* keys that have a directory
  writing,   \* writing[w]: the key that w is about to write, or 0
  cleaner,   \* the passes of the cleanup
  bulk,      \* Tasks::bulk_write_running
  deaths, stops, bulks,  \* how many there have been
  owed,      \* history: live items that had their file
  late,      \* history: files written when their item was gone
  crossed    \* history: keys that came back while a pass had them in hand

vars == <<live, pending, disk, writing, cleaner, bulk, deaths, stops, bulks,
          owed, late, crossed>>
counts  == <<bulk, deaths, stops, bulks>>
history == <<owed, late, crossed>>

Idle == [at |-> "idle", todo |-> {}, removed |-> {}]

-----------------------------------------------------------------------------
(***************************************************************************)
(* Items and their bytes.                                                  *)
(***************************************************************************)

\* What the passes under way have listed, or will list without another look at
\* the items.
InHand ==
  UNION {IF cleaner[c].at = "listing" THEN pending
         ELSE cleaner[c].todo \cup cleaner[c].removed : c \in Cleaners}

\* create, under a key that is free.  What is on the disk for it is its own.
Create(k) ==
  /\ k \notin live
  /\ live' = live \cup {k}
  /\ owed' = owed \cup ({k} \cap disk)
  /\ late' = late \ {k}
  /\ crossed' = crossed \cup ({k} \cap InHand)
  /\ UNCHANGED <<pending, disk, writing, cleaner, counts>>

\* destroy and empty_trash: delete, with everything that the cascade takes, of
\* which the trigger queues each key.  A pass of the cleanup comes next.
Delete(c, S) ==
  /\ cleaner[c].at = "idle" /\ S \subseteq live /\ deaths < MaxDeaths
  /\ deaths' = deaths + 1
  /\ live' = live \ S
  /\ pending' = pending \cup S
  /\ owed' = owed \ S
  /\ cleaner' = [cleaner EXCEPT ![c] = [Idle EXCEPT !.at = "called"]]
  /\ UNCHANGED <<disk, writing, bulk, stops, bulks, late, crossed>>

\* upload and attach_url have the item; an archive brings files of keys that
\* may have none.  The write comes later.
StartWrite(w, k) ==
  /\ writing[w] = 0
  /\ writing' = [writing EXCEPT ![w] = k]
  /\ UNCHANGED <<live, pending, disk, cleaner, counts, history>>

\* Storage::put.
Put(w) ==
  LET k == writing[w] IN
  /\ k # 0
  /\ writing' = [writing EXCEPT ![w] = 0]
  /\ disk' = disk \cup {k}
  /\ owed' = IF k \in live THEN owed \cup {k} ELSE owed
  /\ late' = IF k \in live THEN late ELSE late \cup {k}
  /\ UNCHANGED <<live, pending, cleaner, counts, crossed>>

\* The same, refused by the disk or abandoned.
PutFails(w) ==
  /\ writing[w] # 0
  /\ writing' = [writing EXCEPT ![w] = 0]
  /\ UNCHANGED <<live, pending, disk, cleaner, counts, history>>

-----------------------------------------------------------------------------
(***************************************************************************)
(* cleanup.                                                                *)
(***************************************************************************)

Continue(c, next) ==
  /\ cleaner' = [cleaner EXCEPT ![c] = next]
  /\ UNCHANGED <<live, writing, counts>>

\* The worker makes no pass while a bulk write runs; a request makes its own.
Begins(c) ==
  IF c = "worker" THEN cleaner[c].at = "idle" /\ ~bulk ELSE cleaner[c].at = "called"

\* Mutant of the next: every row is still wanted.
WithReborn == pending

\* Rows of keys that are items again are dropped.
StillDead == pending \ live

\* pending_file_cleanup, its first statement.
DropReborn(c) ==
  /\ Begins(c)
  /\ pending' = StillDead
  /\ Continue(c, IF pending = {} THEN Idle ELSE [Idle EXCEPT !.at = "listing"])
  /\ UNCHANGED <<disk, history>>

\* And its second: the first rows, in the order of their keys.
ListPending(c) ==
  /\ cleaner[c].at = "listing"
  /\ LET page == {k \in pending : Cardinality({j \in pending : j <= k}) <= Page} IN
     Continue(c, IF page = {} THEN Idle
                 ELSE [Idle EXCEPT !.at = "removing", !.todo = page])
  /\ UNCHANGED <<pending, disk, history>>

Foremost(c, k) ==
  /\ cleaner[c].at = "removing"
  /\ k \in cleaner[c].todo /\ \A j \in cleaner[c].todo : k <= j

\* Storage::remove.
Remove(c, k) ==
  /\ Foremost(c, k)
  /\ disk' = disk \ {k}
  /\ late' = late \ {k}
  /\ Continue(c, [at |-> "removing", todo |-> cleaner[c].todo \ {k},
                  removed |-> cleaner[c].removed \cup {k}])
  /\ UNCHANGED <<pending, owed, crossed>>

RemoveFails(c, k) ==
  /\ Foremost(c, k)
  /\ Continue(c, [cleaner[c] EXCEPT !.todo = @ \ {k}])
  /\ UNCHANGED <<pending, disk, history>>

\* Mutant of the next: what a pass that ended in an error removed is remembered.
EndedAsIs(c) == [cleaner[c] EXCEPT !.at = "idle"]

Ended(c) == Idle

\* thumbnails::forget fails, or the database does, or the request is dropped
\* with the connection of its client: nothing is finished.
PassFails(c) ==
  /\ \/ cleaner[c].at = "listing"
     \/ cleaner[c].at = "removing" /\ cleaner[c].todo = {}
     \/ cleaner[c].at # "idle" /\ c # "worker"
  /\ Continue(c, Ended(c))
  /\ UNCHANGED <<pending, disk, history>>

\* Mutants of the next: every row is finished, removed or not; the rows of what
\* was removed stay.
Everybody(c) == pending
Nobody(c)    == {}

\* A failed removal remains queued.
Finished(c) == cleaner[c].removed

\* finish_file_cleanup.
Finish(c) ==
  /\ cleaner[c].at = "removing" /\ cleaner[c].todo = {}
  /\ pending' = pending \ Finished(c)
  /\ Continue(c, Idle)
  /\ UNCHANGED <<disk, history>>

-----------------------------------------------------------------------------
\* The server stops at any point; what it was doing is not resumed.
Restart ==
  /\ stops + bulks < MaxStops
  /\ stops' = stops + 1
  /\ writing' = [w \in Writers |-> 0]
  /\ cleaner' = [c \in Cleaners |-> Idle]
  /\ bulk' = FALSE
  /\ UNCHANGED <<live, pending, disk, deaths, bulks, history>>

BulkStart ==
  /\ ~bulk /\ stops + bulks < MaxStops
  /\ bulk' = TRUE /\ bulks' = bulks + 1
  /\ UNCHANGED <<live, pending, disk, writing, cleaner, deaths, stops, history>>

BulkEnd ==
  /\ bulk /\ bulk' = FALSE
  /\ UNCHANGED <<live, pending, disk, writing, cleaner, deaths, stops, bulks, history>>

-----------------------------------------------------------------------------
Init ==
  /\ live = {} /\ pending = {} /\ disk = {}
  /\ writing = [w \in Writers |-> 0]
  /\ cleaner = [c \in Cleaners |-> Idle]
  /\ bulk = FALSE /\ deaths = 0 /\ stops = 0 /\ bulks = 0
  /\ owed = {} /\ late = {} /\ crossed = {}

Users ==
  \/ \E k \in Keys : Create(k)
  \/ \E c \in Requests, S \in SUBSET Keys : Delete(c, S)
  \/ \E w \in Writers, k \in Keys : StartWrite(w, k)
  \/ \E w \in Writers : Put(w) \/ PutFails(w)

Pass(c) ==
  \/ DropReborn(c) \/ ListPending(c) \/ PassFails(c) \/ Finish(c)
  \/ \E k \in Keys : Remove(c, k) \/ RemoveFails(c, k)

Next ==
  \/ Users
  \/ \E c \in Cleaners : Pass(c)
  \/ Restart \/ BulkStart \/ BulkEnd

Spec == Init /\ [][Next]_vars

\* The worker runs for ever and its passes end; for no key does the removal fail
\* every time, nor the end of every pass that removed it; a bulk write ends.
FairSpec ==
  /\ Spec
  /\ WF_vars(Pass("worker")) /\ WF_vars(BulkEnd)
  /\ SF_vars(ListPending("worker"))
  /\ \A k \in Keys :
       /\ SF_vars(Remove("worker", k))
       /\ SF_vars(Finish("worker") /\ k \in cleaner["worker"].removed)

-----------------------------------------------------------------------------
\* Every variable has its type, and between two passes nothing is remembered:
\* what must not be forgotten is in the queue (cleanup).
TypeOK ==
  /\ live \subseteq Keys /\ pending \subseteq Keys /\ disk \subseteq Keys
  /\ writing \in [Writers -> Keys \cup {0}]
  /\ cleaner \in [Cleaners -> [at : {"idle", "called", "listing", "removing"},
                               todo : SUBSET Keys, removed : SUBSET Keys]]
  /\ \A c \in Cleaners :
       cleaner[c].at # "removing" => cleaner[c].todo = {} /\ cleaner[c].removed = {}
  /\ bulk \in BOOLEAN /\ deaths \in 0 .. MaxDeaths
  /\ stops \in 0 .. MaxStops /\ bulks \in 0 .. MaxStops
  /\ owed \subseteq live /\ late \subseteq Keys /\ crossed \subseteq Keys

\* "A failed removal remains queued" (cleanup): through failures, stops and
\* keys that come back, and with passes that overlap, a file whose item was
\* deleted is queued until it is gone, unless it was written after the deletion
\* or its key came back while a pass had it in hand.
DeletedFilesAreQueued ==
  disk \subseteq live \cup pending \cup late \cup crossed

\* "Restoring an item with the same key makes its files live again"
\* (pending_file_cleanup): an item keeps the file it had, or was given, unless
\* its key came back while a pass had it in hand.
LiveFilesStay == owed \subseteq disk \cup crossed

\* What is queued is cleaned up, or is an item again (cleanup_worker).
CleanupEnds == \A k \in Keys : []<>(k \notin pending)

\* The comment of pending_file_cleanup as it stands: the key of a restored item
\* is not cleaned up, whenever it was restored.
RestoredFilesStay == owed \subseteq disk

-----------------------------------------------------------------------------
(***************************************************************************)
(* Proofs, for any number of keys, writers and requests.                   *)
(* Passes of the cleanup overlap, so a pass cannot rely on what it listed  *)
(* being still queued.  What makes the two safety properties inductive is  *)
(* this: an item whose key a pass has in hand came back after the pass had *)
(* dropped such keys, and a file that a pass has removed and that is there *)
(* again was written by someone who had no item, or whose item came back.  *)
(***************************************************************************)

PassInv ==
  \A c \in Cleaners :
    /\ (cleaner[c].todo \cup cleaner[c].removed) \cap live \subseteq crossed
    /\ cleaner[c].at = "listing" => pending \cap live \subseteq crossed
    /\ cleaner[c].removed \cap disk \subseteq late \cup crossed

FileInv == TypeOK /\ PassInv /\ DeletedFilesAreQueued /\ LiveFilesStay

\* Every variable keeps its type, in every operation.
LEMMA FileTypeStep == TypeOK /\ [Next]_vars => TypeOK'
<1> SUFFICES ASSUME TypeOK, [Next]_vars PROVE TypeOK'
  OBVIOUS
<1> USE FileAssumption DEF TypeOK, counts, history, Idle, Keys, Cleaners
<1>1. ASSUME NEW k \in Keys, Create(k) PROVE TypeOK'
  BY <1>1 DEF Create, InHand
<1>2. ASSUME NEW c \in Requests, NEW S \in SUBSET Keys, Delete(c, S) PROVE TypeOK'
  BY <1>2 DEF Delete
<1>3. ASSUME NEW w \in Writers, NEW k \in Keys, StartWrite(w, k) PROVE TypeOK'
  BY <1>3 DEF StartWrite
<1>4. ASSUME NEW w \in Writers, Put(w) PROVE TypeOK'
  BY <1>4 DEF Put
<1>5. ASSUME NEW w \in Writers, PutFails(w) PROVE TypeOK'
  BY <1>5 DEF PutFails
<1>6. ASSUME NEW c \in Cleaners, DropReborn(c) PROVE TypeOK'
  BY <1>6 DEF DropReborn, Continue, StillDead
<1>7. ASSUME NEW c \in Cleaners, ListPending(c) PROVE TypeOK'
  BY <1>7 DEF ListPending, Continue
<1>8. ASSUME NEW c \in Cleaners, PassFails(c) PROVE TypeOK'
  BY <1>8 DEF PassFails, Continue, Ended
<1>9. ASSUME NEW c \in Cleaners, Finish(c) PROVE TypeOK'
  BY <1>9 DEF Finish, Continue, Finished
<1>10. ASSUME NEW c \in Cleaners, NEW k \in Keys, Remove(c, k) PROVE TypeOK'
  BY <1>10 DEF Remove, Foremost, Continue
<1>11. ASSUME NEW c \in Cleaners, NEW k \in Keys, RemoveFails(c, k) PROVE TypeOK'
  BY <1>11 DEF RemoveFails, Foremost, Continue
<1>12. CASE Restart
  <2>1. writing' \in [Writers -> Keys \cup {0}]
    BY <1>12 DEF Restart
  <2>2. stops' \in 0 .. MaxStops
    BY <1>12 DEF Restart
  <2> QED BY <1>12, <2>1, <2>2 DEF Restart
<1>13. CASE BulkStart
  BY <1>13 DEF BulkStart
<1>14. CASE BulkEnd
  BY <1>14 DEF BulkEnd
<1>15. CASE UNCHANGED vars
  BY <1>15 DEF vars
<1> QED BY <1>1, <1>2, <1>3, <1>4, <1>5, <1>6, <1>7, <1>8, <1>9, <1>10, <1>11,
           <1>12, <1>13, <1>14, <1>15 DEF Next, Users, Pass

\* What a pass relies on, and the two safety properties, hold in every step.
LEMMA FileStep == FileInv /\ [Next]_vars => FileInv'
<1> SUFFICES ASSUME FileInv, [Next]_vars PROVE FileInv'
  OBVIOUS
<1>0. TypeOK /\ TypeOK'
  BY FileTypeStep DEF FileInv
<1> DEFINE Rest == PassInv /\ DeletedFilesAreQueued /\ LiveFilesStay
<1> SUFFICES Rest'
  BY <1>0 DEF FileInv
<1> USE <1>0 DEF FileInv, PassInv, DeletedFilesAreQueued, LiveFilesStay, TypeOK,
                 counts, history, Idle, Cleaners
<1>1. ASSUME NEW k \in Keys, Create(k) PROVE Rest'
  <2>1. PassInv'
    <3> SUFFICES ASSUME NEW c \in Cleaners
                 PROVE /\ (cleaner[c].todo \cup cleaner[c].removed) \cap live' \subseteq crossed'
                       /\ cleaner[c].at = "listing" => pending \cap live' \subseteq crossed'
                       /\ cleaner[c].removed \cap disk \subseteq late' \cup crossed'
      BY <1>1 DEF Create
    <3>1. live' = live \cup {k} /\ late' = late \ {k} /\ crossed \subseteq crossed'
      BY <1>1 DEF Create
    <3>2. k \in InHand => k \in crossed'
      BY <1>1 DEF Create
    <3>3. \/ k \in cleaner[c].todo \cup cleaner[c].removed
          \/ cleaner[c].at = "listing" /\ k \in pending
          => k \in InHand
      BY DEF InHand
    <3> QED BY <3>1, <3>2, <3>3
  <2> QED BY <1>1, <2>1 DEF Create
<1>2. ASSUME NEW c \in Requests, NEW S \in SUBSET Keys, Delete(c, S) PROVE Rest'
  BY <1>2 DEF Delete
<1>3. ASSUME NEW w \in Writers, NEW k \in Keys, StartWrite(w, k) PROVE Rest'
  BY <1>3 DEF StartWrite
<1>4. ASSUME NEW w \in Writers, Put(w) PROVE Rest'
  BY <1>4 DEF Put
<1>5. ASSUME NEW w \in Writers, PutFails(w) PROVE Rest'
  BY <1>5 DEF PutFails
<1>6. ASSUME NEW c \in Cleaners, DropReborn(c) PROVE Rest'
  BY <1>6 DEF DropReborn, Continue, StillDead
<1>7. ASSUME NEW c \in Cleaners, ListPending(c) PROVE Rest'
  BY <1>7 DEF ListPending, Continue
<1>8. ASSUME NEW c \in Cleaners, PassFails(c) PROVE Rest'
  BY <1>8 DEF PassFails, Continue, Ended
<1>9. ASSUME NEW c \in Cleaners, Finish(c) PROVE Rest'
  BY <1>9 DEF Finish, Continue, Finished
<1>10. ASSUME NEW c \in Cleaners, NEW k \in Keys, Remove(c, k) PROVE Rest'
  <2>1. k \in live => k \in crossed
    BY <1>10 DEF Remove, Foremost
  <2> QED BY <1>10, <2>1 DEF Remove, Foremost, Continue
<1>11. ASSUME NEW c \in Cleaners, NEW k \in Keys, RemoveFails(c, k) PROVE Rest'
  BY <1>11 DEF RemoveFails, Foremost, Continue
<1>12. CASE Restart
  BY <1>12 DEF Restart
<1>13. CASE BulkStart
  BY <1>13 DEF BulkStart
<1>14. CASE BulkEnd
  BY <1>14 DEF BulkEnd
<1>15. CASE UNCHANGED vars
  BY <1>15 DEF vars
<1> QED BY <1>1, <1>2, <1>3, <1>4, <1>5, <1>6, <1>7, <1>8, <1>9, <1>10, <1>11,
           <1>12, <1>13, <1>14, <1>15 DEF Next, Users, Pass

\* The cleanup invariant holds from the start.
LEMMA FileInvariance == Spec => []FileInv
<1>1. Init => FileInv
  <2> SUFFICES ASSUME Init PROVE FileInv
    OBVIOUS
  <2> USE DEF Init, Idle
  <2>1. TypeOK
    <3>1. writing \in [Writers -> Keys \cup {0}]
      OBVIOUS
    <3>2. deaths \in 0 .. MaxDeaths /\ stops \in 0 .. MaxStops /\ bulks \in 0 .. MaxStops
      BY FileAssumption
    <3> QED BY <3>1, <3>2 DEF TypeOK
  <2>2. PassInv /\ DeletedFilesAreQueued /\ LiveFilesStay
    BY DEF PassInv, DeletedFilesAreQueued, LiveFilesStay
  <2> QED BY <2>1, <2>2 DEF FileInv
<1> QED BY <1>1, FileStep, PTL DEF Spec

\* cleanup: between two passes nothing is remembered that the queue does not
\* hold.
THEOREM FileTypeCorrect == Spec => []TypeOK
BY FileInvariance, PTL DEF FileInv

\* items_cleanup and cleanup: through failed removals, failed passes, stops and
\* keys that come back, the file of a deleted item stays queued until it is
\* gone.
THEOREM NoFileForgotten == Spec => []DeletedFilesAreQueued
BY FileInvariance, PTL DEF FileInv

\* pending_file_cleanup: an item keeps its file, unless its key came back while
\* a pass had it in hand.
THEOREM NoFileTaken == Spec => []LiveFilesStay
BY FileInvariance, PTL DEF FileInv
=============================================================================
