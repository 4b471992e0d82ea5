-------------------------------- MODULE Tasks --------------------------------
(***************************************************************************)
(* The registry of long jobs (crates/yk-server/src/tasks.rs): kept in      *)
(* memory and, record by record, in the database; the jobs that report     *)
(* through it (imports and restores, harvests of references, backups and   *)
(* exports); and stops and starts of the server.                           *)
(***************************************************************************)
EXTENDS Integers, FiniteSets

CONSTANTS
  MaxTasks,   \* bound on the tasks that are started
  Units,      \* the steps of a job, between which it looks at its flag
  Keep,       \* KEEP_FINISHED
  GiveUp,     \* GIVE_UP_AFTER
  MaxStops    \* bound on the stops of the server

VARIABLES
  up,        \* the server answers requests
  memory,    \* the phase of each task in the registry, Absent when it is not there
  records,   \* its phase in the database
  stamp,     \* finished_at, of either
  kind,      \* what each job is
  at,        \* where the job, or the request that starts it, is
  todo,      \* steps it has left
  failures,  \* failures in a row
  ends,      \* the phase it is about to record
  doomed,    \* records it is about to delete
  cancel,    \* flags that are set
  clock,     \* seconds
  stops

job == <<kind, at, todo, failures, ends, doomed>>
vars == <<up, memory, records, stamp, job, cancel, clock, stops>>

Ids == 1 .. MaxTasks
Absent == "absent"
Ended == {"done", "failed", "cancelled"}
Phases == {Absent, "running"} \cup Ended
Kinds == {"import", "harvest", "backup"}

Goes(i, where) == at' = [at EXCEPT ![i] = where]
Running(k) == \E i \in Ids : memory[i] = "running" /\ kind[i] = k
Registry == UNCHANGED <<up, memory, records, stamp, cancel, clock, stops>>

-----------------------------------------------------------------------------
(***************************************************************************)
(* Starting.                                                               *)
(***************************************************************************)

\* A harvest is refused while one is running.
Ask(i, k) ==
  /\ up /\ at[i] = "none" /\ \A j \in Ids : j < i => at[j] # "none"
  /\ k = "harvest" => ~Running("harvest")
  /\ kind' = [kind EXCEPT ![i] = k] /\ Goes(i, "saving")
  /\ UNCHANGED <<todo, failures, ends, doomed>> /\ Registry

\* The record first; without it there is no task.
SaveStart(i) ==
  /\ at[i] = "saving"
  /\ \/ records' = [records EXCEPT ![i] = "running"] /\ Goes(i, "inserting")
     \/ UNCHANGED records /\ Goes(i, "over")
  /\ UNCHANGED <<up, memory, stamp, kind, todo, failures, ends, doomed, cancel, clock, stops>>

Insert(i) ==
  /\ at[i] = "inserting"
  /\ memory' = [memory EXCEPT ![i] = "running"] /\ Goes(i, "working")
  /\ UNCHANGED <<up, records, stamp, kind, todo, failures, ends, doomed, cancel, clock, stops>>

Cancel(i) ==
  /\ up /\ memory[i] # Absent
  /\ cancel' = cancel \cup {i}
  /\ UNCHANGED <<up, memory, records, stamp, job, clock, stops>>

-----------------------------------------------------------------------------
(***************************************************************************)
(* The jobs.                                                               *)
(***************************************************************************)

Ends(i, phase) ==
  /\ ends' = [ends EXCEPT ![i] = phase] /\ Goes(i, "ending")
  /\ UNCHANGED <<kind, todo, failures, doomed>> /\ Registry

\* Between two steps the flag is seen, but for backups and exports.
Notices(i) ==
  /\ at[i] = "working" /\ i \in cancel /\ kind[i] # "backup"
  /\ todo[i] > 0 /\ failures[i] < GiveUp
  /\ Ends(i, "cancelled")

Step(i) ==
  /\ at[i] = "working" /\ todo[i] > 0 /\ failures[i] < GiveUp
  /\ i \in cancel => kind[i] = "backup"
  /\ todo' = [todo EXCEPT ![i] = @ - 1]
  /\ failures' = IF kind[i] # "harvest" THEN failures
                 ELSE [failures EXCEPT ![i] = 0]
  /\ UNCHANGED <<kind, at, ends, doomed>> /\ Registry

\* A paper whose references do not come is left out; five in a row are enough.
\* Anything else fails as a whole.
Fails(i) ==
  /\ at[i] = "working" /\ todo[i] > 0 /\ failures[i] < GiveUp
  /\ i \in cancel => kind[i] = "backup"
  /\ IF kind[i] = "harvest"
     THEN /\ todo' = [todo EXCEPT ![i] = @ - 1]
          /\ failures' = [failures EXCEPT ![i] = @ + 1]
          /\ UNCHANGED <<kind, at, ends, doomed>> /\ Registry
     ELSE Ends(i, "failed")

\* A harvest looks at the flag once more when its papers are through.
Concludes(i) ==
  /\ at[i] = "working" /\ (todo[i] = 0 \/ failures[i] >= GiveUp)
  /\ Ends(i, IF kind[i] = "harvest" /\ i \in cancel THEN "cancelled" ELSE "done")

-----------------------------------------------------------------------------
(***************************************************************************)
(* complete: the database, memory, and what is too old.                    *)
(***************************************************************************)

\* Mutant of the next: a phase that could not be saved is kept.
KeptPhase(phase, saved) == phase

\* What memory is told.
Told(phase, saved) == IF saved THEN phase ELSE "failed"

SaveEnd(i) ==
  /\ at[i] = "ending"
  /\ \E saved \in BOOLEAN :
       /\ records' = IF saved THEN [records EXCEPT ![i] = ends[i]] ELSE records
       /\ ends' = [ends EXCEPT ![i] = Told(ends[i], saved)]
  /\ stamp' = [stamp EXCEPT ![i] = clock]
  /\ Goes(i, "telling")
  /\ UNCHANGED <<up, memory, kind, todo, failures, doomed, cancel, clock, stops>>

Tell(i) ==
  /\ at[i] = "telling"
  /\ memory' = [memory EXCEPT ![i] = ends[i]] /\ Goes(i, "pruning")
  /\ UNCHANGED <<up, records, stamp, kind, todo, failures, ends, doomed, cancel, clock, stops>>

Finished == {i \in Ids : memory[i] \in Ended}
Older(i, j) == stamp[i] < stamp[j] \/ (stamp[i] = stamp[j] /\ i < j)

\* Mutant of the next: one more is kept.
OneMore == {i \in Finished : Cardinality({j \in Finished : Older(i, j)}) > Keep}

\* All but the newest that have finished.
Pruned == {i \in Finished : Cardinality({j \in Finished : Older(i, j)}) >= Keep}

Forget(i) ==
  /\ at[i] = "pruning"
  /\ memory' = [j \in Ids |-> IF j \in Pruned THEN Absent ELSE memory[j]]
  /\ doomed' = [doomed EXCEPT ![i] = Pruned] /\ Goes(i, "deleting")
  /\ UNCHANGED <<up, records, stamp, kind, todo, failures, ends, cancel, clock, stops>>

\* A failure leaves the records for the next start.
DeleteRecords(i) ==
  /\ at[i] = "deleting"
  /\ \/ records' = [j \in Ids |-> IF j \in doomed[i] THEN Absent ELSE records[j]]
     \/ UNCHANGED records
  /\ doomed' = [doomed EXCEPT ![i] = {}] /\ Goes(i, "over")
  /\ UNCHANGED <<up, memory, stamp, kind, todo, failures, ends, cancel, clock, stops>>

-----------------------------------------------------------------------------
(***************************************************************************)
(* Stops and starts.                                                       *)
(***************************************************************************)

Stop ==
  /\ stops < MaxStops /\ stops' = stops + 1
  /\ up' = FALSE
  /\ memory' = [i \in Ids |-> Absent] /\ cancel' = {}
  /\ at' = [i \in Ids |-> IF at[i] = "none" THEN "none" ELSE "over"]
  /\ ends' = [i \in Ids |-> Absent] /\ doomed' = [i \in Ids |-> {}]
  /\ UNCHANGED <<records, stamp, kind, todo, failures, clock>>

\* Mutant of the next: a record is taken as it is.
AsItWas(phase) == phase

\* A job that was cut off has failed.
Recovered(phase) == IF phase = "running" THEN "failed" ELSE phase

\* Record by record, those that change saved first.
Open(i) ==
  /\ ~up /\ memory[i] = Absent /\ records[i] # Absent
  /\ memory' = [memory EXCEPT ![i] = Recovered(records[i])]
  /\ records' = [records EXCEPT ![i] = Recovered(records[i])]
  /\ stamp' = IF records[i] = "running" THEN [stamp EXCEPT ![i] = clock] ELSE stamp
  /\ UNCHANGED <<up, job, cancel, clock, stops>>

\* The oldest are forgotten, and requests are answered.
Opened ==
  /\ ~up /\ \A i \in Ids : records[i] # Absent => memory[i] # Absent
  /\ up' = TRUE
  /\ memory' = [i \in Ids |-> IF i \in Pruned THEN Absent ELSE memory[i]]
  /\ \/ records' = [i \in Ids |-> IF i \in Pruned THEN Absent ELSE records[i]]
     \/ UNCHANGED records
  /\ UNCHANGED <<stamp, job, cancel, clock, stops>>

Tick ==
  /\ clock < 1 /\ clock' = clock + 1
  /\ UNCHANGED <<up, memory, records, stamp, job, cancel, stops>>

-----------------------------------------------------------------------------
Init ==
  /\ up = TRUE /\ cancel = {} /\ clock = 0 /\ stops = 0
  /\ memory = [i \in Ids |-> Absent] /\ records = [i \in Ids |-> Absent]
  /\ stamp = [i \in Ids |-> 0] /\ kind = [i \in Ids |-> "backup"]
  /\ at = [i \in Ids |-> "none"] /\ todo = [i \in Ids |-> Units]
  /\ failures = [i \in Ids |-> 0] /\ ends = [i \in Ids |-> Absent]
  /\ doomed = [i \in Ids |-> {}]

Runs(i) ==
  \/ SaveStart(i) \/ Insert(i) \/ Notices(i) \/ Step(i) \/ Fails(i) \/ Concludes(i)
  \/ SaveEnd(i) \/ Tell(i) \/ Forget(i) \/ DeleteRecords(i)

Next ==
  \/ \E i \in Ids :
       (\E k \in Kinds : Ask(i, k)) \/ Cancel(i) \/ Runs(i) \/ Open(i)
  \/ Stop \/ Opened \/ Tick

Spec == Init /\ [][Next]_vars

-----------------------------------------------------------------------------
TypeOK ==
  /\ up \in BOOLEAN /\ cancel \subseteq Ids /\ clock \in 0 .. 1 /\ stops \in 0 .. MaxStops
  /\ memory \in [Ids -> Phases] /\ records \in [Ids -> Phases]
  /\ stamp \in [Ids -> 0 .. 1] /\ kind \in [Ids -> Kinds]
  /\ at \in [Ids -> {"none", "saving", "inserting", "working", "ending", "telling",
                     "pruning", "deleting", "over"}]
  /\ todo \in [Ids -> 0 .. Units] /\ failures \in [Ids -> 0 .. Units]
  /\ ends \in [Ids -> {Absent} \cup Ended] /\ doomed \in [Ids -> SUBSET Ids]

\* A task that is shown as running has a job that runs, whatever stopped in
\* between: otherwise "a run is already going" would be said for ever
\* (running, open).
RunningHasJob ==
  \A i \in Ids : memory[i] = "running" => at[i] \in {"working", "ending", "telling"}

\* What was said of the end of a task is never unsaid: not by a save that
\* failed, nor by a stop and what is read at the next start (complete, open).
EndIsFinal ==
  \A i \in Ids : memory[i] \in Ended /\ records[i] # Absent =>
                   Recovered(records[i]) = memory[i]

\* The history does not grow: the finished tasks that are shown, but for those
\* whose end is being recorded, are no more than are kept (prune).
HistoryBounded ==
  up => Cardinality(Finished) <= Keep + Cardinality({i \in Ids : at[i] = "pruning"})

\* A task that runs ends, or the server is stopped (run_harvest, restore::run,
\* complete).
TasksEnd ==
  \A i \in Ids : (memory[i] = "running") ~> (memory[i] # "running")

\* What is shown of tasks, together (Tasks::list).
TasksToldApart == RunningHasJob /\ EndIsFinal /\ HistoryBounded

\* "Record that a job noticed the cancel flag and stopped early": a task that
\* is shown as cancelled left steps undone (stopped).
CancelledEarly ==
  \A i \in Ids : memory[i] = "cancelled" => todo[i] > 0
=============================================================================
