---------------------------- MODULE MCBackground ----------------------------
(***************************************************************************)
(* What goes on without a request waiting for it: turns of the assistant,  *)
(* downloads, long jobs and the write-ahead log, each checked on its own.  *)
(* A behaviour is of one part, the others stay where they began.           *)
(***************************************************************************)
EXTENDS Turns

CONSTANTS
  Targets, Fetches, MaxId, MaxFiles, MaxWanted,  \* DownloadQueue
  MaxTasks,                                      \* Tasks
  Readers                                        \* LogFile

\* Bounds are naturals.
ASSUME BoundsAreNat == MaxId \in Nat

VARIABLES
  part,
  queue, attacher, job, attachments, bulk, queueStops, bulks, asks, claims,
  up, shownTasks, records, stamp, kind, taskAt, todo, failures, ends, doomed, cancel, clock,
  taskStops,
  frames, folded, size, reading, writing, quiet, logBulk, worker, allowed, writes, readsDone

queueVars == <<queue, attacher, job, attachments, bulk, queueStops, bulks, asks, claims>>
taskVars == <<up, shownTasks, records, stamp, kind, taskAt, todo, failures, ends, doomed,
              cancel, clock, taskStops>>
logVars == <<frames, folded, size, reading, writing, quiet, logBulk, worker, allowed,
             writes, readsDone>>

Queue == INSTANCE DownloadQueue WITH Requests <- Fetches, MaxAsks <- MaxWanted, stops <- queueStops
Jobs == INSTANCE Tasks WITH
  Units <- 1, Keep <- 1, GiveUp <- 1, memory <- shownTasks, at <- taskAt, stops <- taskStops
Log == INSTANCE LogFile WITH
  Limit <- 1, MaxWrites <- 4, MaxReads <- 3, bulk <- logBulk

BackInit ==
  /\ part \in {"turns", "queue", "jobs", "log"}
  /\ Init /\ Queue!Init /\ Jobs!Init /\ Log!Init

BackNext ==
  /\ UNCHANGED part
  /\ \/ part = "turns" /\ Next /\ UNCHANGED <<queueVars, taskVars, logVars>>
     \/ part = "queue" /\ Queue!Next /\ UNCHANGED <<vars, taskVars, logVars>>
     \/ part = "jobs" /\ Jobs!Next /\ UNCHANGED <<vars, queueVars, logVars>>
     \/ part = "log" /\ Log!Next /\ UNCHANGED <<vars, queueVars, taskVars>>

\* Tasks of the runtime go on and workers poll for ever; a download, a bulk
\* write, a transaction and a read end one way or the other.
BackFair ==
  /\ \A q \in Questions : WF_vars(part = "turns" /\ Task(q))
  /\ WF_queueVars(part = "queue" /\ Queue!Claim)
  /\ WF_queueVars(part = "queue" /\ Queue!Attach("worker"))
  /\ WF_queueVars(part = "queue" /\ Queue!Record)
  /\ WF_queueVars(part = "queue" /\ Queue!BulkEnd)
  /\ \A i \in Jobs!Ids : WF_taskVars(part = "jobs" /\ Jobs!Runs(i))
  /\ WF_logVars(part = "log" /\ Log!Work)
  /\ WF_logVars(part = "log" /\ Log!Commit)
  /\ WF_logVars(part = "log" /\ Log!Quieten)
  /\ WF_logVars(part = "log" /\ Log!BulkEnd)
  /\ \A r \in Readers : WF_logVars(part = "log" /\ Log!EndRead(r))

BackSpec == BackInit /\ [][BackNext]_<<part, vars, queueVars, taskVars, logVars>> /\ BackFair

\* Nothing is downloaded more often than somebody asked (DownloadQueue).
NeverUnasked == Queue!NeverUnasked

\* A turn, a file that is waited for, a task that runs and a log that grew: each
\* comes to its end (Turns, DownloadQueue, Tasks, LogFile).
BackgroundEnds == TurnsEnd /\ Queue!WaitingEnds /\ Jobs!TasksEnd /\ Log!LogShrinks
=============================================================================
