------------------------------- MODULE LogFile -------------------------------
(***************************************************************************)
(* The write-ahead log (Db::checkpoint in crates/yk-store/src/db.rs) and   *)
(* the one worker that keeps it small (checkpoint_worker in                *)
(* crates/yk-server/src/workers.rs), next to readers, writers and jobs     *)
(* that write in bulk.  The log is measured in commits.                    *)
(***************************************************************************)
EXTENDS Integers, FiniteSets

CONSTANTS
  Readers,
  Limit,       \* WAL_TRUNCATE_BYTES
  MaxWrites,   \* bound on commits and bulk jobs
  MaxReads     \* bound on reads

VARIABLES
  frames,     \* commits in the log
  folded,     \* those that are in the database too
  size,       \* how large the file has grown
  reading,    \* what of the log each reader needs, or None, or nothing of it
  writing,    \* a transaction is open
  quiet,      \* none has begun for a while
  bulk,       \* a job writes in bulk
  worker,     \* where the worker is
  allowed,    \* it may truncate
  writes, readsDone

vars == <<frames, folded, size, reading, writing, quiet, bulk, worker, allowed,
          writes, readsDone>>

None == -1
Nothing == 0

Using == {r \in Readers : reading[r] > Nothing}

-----------------------------------------------------------------------------
(***************************************************************************)
(* SQLite, with checkpoints of its own switched off.                       *)
(***************************************************************************)

BeginWrite ==
  /\ ~writing /\ writes < MaxWrites
  /\ writing' = TRUE /\ quiet' = FALSE /\ writes' = writes + 1
  /\ UNCHANGED <<frames, folded, size, reading, bulk, worker, allowed, readsDone>>

\* The log begins again when all of it is folded and nobody reads it; its file
\* stays as it is.
Commit ==
  /\ writing /\ writing' = FALSE
  /\ LET again == folded = frames /\ Using = {} IN
     /\ frames' = IF again THEN 1 ELSE frames + 1
     /\ folded' = IF again THEN 0 ELSE folded
     /\ size' = IF frames' > size THEN frames' ELSE size
  /\ UNCHANGED <<reading, quiet, bulk, worker, allowed, writes, readsDone>>

BeginRead(r) ==
  /\ reading[r] = None /\ readsDone < MaxReads /\ readsDone' = readsDone + 1
  /\ reading' = [reading EXCEPT ![r] = IF folded = frames THEN Nothing ELSE frames]
  /\ UNCHANGED <<frames, folded, size, writing, quiet, bulk, worker, allowed, writes>>

EndRead(r) ==
  /\ reading[r] # None
  /\ reading' = [reading EXCEPT ![r] = None]
  /\ UNCHANGED <<frames, folded, size, writing, quiet, bulk, worker, allowed, writes, readsDone>>

\* As far as the oldest reader allows, and not at all under one that reads the
\* database alone.
Foldable ==
  IF \E r \in Readers : reading[r] = Nothing THEN folded
  ELSE CHOOSE n \in folded .. frames :
         /\ \A r \in Using : n <= reading[r]
         /\ n = frames \/ \E r \in Using : n = reading[r]

-----------------------------------------------------------------------------
(***************************************************************************)
(* The worker.                                                             *)
(***************************************************************************)

Quieten ==
  /\ ~quiet /\ quiet' = TRUE
  /\ UNCHANGED <<frames, folded, size, reading, writing, bulk, worker, allowed, writes, readsDone>>

BulkBegin ==
  /\ ~bulk /\ writes < MaxWrites /\ bulk' = TRUE /\ writes' = writes + 1
  /\ UNCHANGED <<frames, folded, size, reading, writing, quiet, worker, allowed, readsDone>>

BulkEnd ==
  /\ bulk /\ bulk' = FALSE
  /\ UNCHANGED <<frames, folded, size, reading, writing, quiet, worker, allowed, writes, readsDone>>

Tick ==
  /\ worker = "waiting" /\ ~bulk
  /\ worker' = "passive" /\ allowed' = quiet
  /\ UNCHANGED <<frames, folded, size, reading, writing, quiet, bulk, writes, readsDone>>

\* Mutant of the next: what is not folded yet is counted.
FramesLeft(now) == frames - now

\* What decides is the file.
Grown(now) == size

Passive ==
  /\ worker = "passive"
  /\ folded' = Foldable
  /\ worker' = IF allowed /\ Grown(folded') > Limit THEN "truncate" ELSE "waiting"
  /\ UNCHANGED <<frames, size, reading, writing, quiet, bulk, allowed, writes, readsDone>>

\* It waits for the writer and for those who read the log, and gives up.
Truncate ==
  /\ worker = "truncate" /\ worker' = "waiting"
  /\ \/ /\ ~writing /\ Using = {} /\ (folded = frames \/ \A r \in Readers : reading[r] = None)
        /\ frames' = 0 /\ folded' = 0 /\ size' = 0
     \/ /\ writing \/ \E r \in Readers : reading[r] # None
        /\ UNCHANGED <<frames, folded, size>>
  /\ UNCHANGED <<reading, writing, quiet, bulk, allowed, writes, readsDone>>

-----------------------------------------------------------------------------
Init ==
  /\ frames = 0 /\ folded = 0 /\ size = 0 /\ reading = [r \in Readers |-> None]
  /\ writing = FALSE /\ quiet = TRUE /\ bulk = FALSE /\ worker = "waiting"
  /\ allowed = FALSE /\ writes = 0 /\ readsDone = 0

Work == Tick \/ Passive \/ Truncate

Next ==
  \/ BeginWrite \/ Commit \/ Quieten \/ BulkBegin \/ BulkEnd \/ Work
  \/ \E r \in Readers : BeginRead(r) \/ EndRead(r)

Spec == Init /\ [][Next]_vars

-----------------------------------------------------------------------------
\* "Keep the write-ahead log from growing without bound": the file of a log
\* that grew too large gets small again, once writers pause and however long
\* its readers took (checkpoint_worker, checkpoint).
LogShrinks == (size > Limit) ~> (size <= Limit)
=============================================================================
