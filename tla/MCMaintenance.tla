---------------------------- MODULE MCMaintenance ----------------------------
(***************************************************************************)
(* Looking after the library and the process that serves it: long jobs,    *)
(* export and restore, backups, migrations, the lock of the data directory *)
(* and the browser's port, each checked on its own.  A behaviour is of one *)
(* part, the others stay where they began.                                 *)
(***************************************************************************)
EXTENDS Integers, FiniteSets, Sequences, TLC

CONSTANTS
  MaxTasks, Units, Keep, GiveUp,          \* Tasks
  Keys, NoKey, Page, MaxAdded, MaxEdits,  \* Archive
  Copiers, Days, Month, KeepRecent,       \* Backups
  Programs, MaxOpens,                     \* Migrations
  Procs, Nobody, MaxStarts,               \* ServerLock
  Ports, Off, Never, Askers, MaxAsks,     \* ConnectorPort
  MaxStops

\* There are finitely many items, something is restored at a time, and no name
\* of what is not there is the name of something.
ASSUME MaintenanceAssumption ==
  /\ MaxTasks \in Nat /\ Units \in Nat /\ Keep \in Nat
  /\ IsFiniteSet(Keys) /\ Page \in Nat \ {0}
  /\ Days \in Nat \ {0}
  /\ Programs \subseteq Seq(STRING)
  /\ Nobody \notin Procs /\ Off \notin Ports

VARIABLES
  part,
  up, memory, records, stamp, kind, at, todo, failures, ends, doomed, cancel, clock, stops,
  items, files, archive, exporting, left, restoring, page, handled, present, added, edits,
  steady, touched,
  today, file, run, dropped, copying, completed, spoiled,
  schema, names, userVersion, program, migrating, next, known, opens, old, assumed,
  made, line, owner, doing, met, answer, starts,
  listeners, others, port, wish, stored, portAt, asked, asks, stray

taskVars == <<up, memory, records, stamp, kind, at, todo, failures, ends, doomed, cancel, clock>>
archiveVars == <<items, files, archive, exporting, left, restoring, page, handled, present,
                 added, edits, steady, touched>>
backupVars == <<today, file, run, dropped, copying, completed, spoiled>>
migrationVars == <<schema, names, userVersion, program, migrating, next, known, opens, old, assumed>>
lockVars == <<made, line, owner, doing, met, answer, starts>>
portVars == <<listeners, others, port, wish, stored, portAt, asked, asks, stray>>

Jobs == INSTANCE Tasks
Archives == INSTANCE Archive
Copies == INSTANCE Backups WITH Runs <- Copiers, doomed <- dropped
Schema == INSTANCE Migrations WITH at <- migrating
Lock == INSTANCE ServerLock
Port == INSTANCE ConnectorPort WITH Requests <- Askers, at <- portAt

\* Two days of each of two months.
TwoMonths == <<1, 1, 2, 2>>

\* A list that grew, one without an entry, and one with an entry in between.
FourLists == {<<"a", "b">>, <<"a", "b", "c">>, <<"a", "c">>, <<"a", "d", "b">>}

Init ==
  /\ part \in {"jobs", "archive", "backups", "schema", "lock", "port"}
  /\ Jobs!Init /\ Archives!Init /\ Copies!Init /\ Lock!Init
  /\ IF part = "schema" THEN Schema!Init
     ELSE /\ program = <<>> /\ userVersion = 0 /\ schema = {} /\ old = {} /\ assumed = {}
          /\ names = {} /\ known = {} /\ opens = 0 /\ migrating = "closed" /\ next = 1
  /\ IF part = "port" THEN Port!Init ELSE Port!Init /\ wish = Off

Next ==
  /\ UNCHANGED part
  /\ \/ /\ part = "jobs" /\ Jobs!Next
        /\ UNCHANGED <<archiveVars, backupVars, migrationVars, lockVars, portVars>>
     \/ /\ part = "archive" /\ Archives!Next
        /\ UNCHANGED <<taskVars, backupVars, migrationVars, lockVars, portVars>>
     \/ /\ part = "backups" /\ Copies!Next
        /\ UNCHANGED <<taskVars, archiveVars, migrationVars, lockVars, portVars>>
     \/ /\ part = "schema" /\ Schema!Next
        /\ UNCHANGED <<taskVars, archiveVars, backupVars, lockVars, portVars, stops>>
     \/ /\ part = "lock" /\ Lock!Next
        /\ UNCHANGED <<taskVars, archiveVars, backupVars, migrationVars, portVars, stops>>
     \/ /\ part = "port" /\ Port!Next
        /\ UNCHANGED <<taskVars, archiveVars, backupVars, migrationVars, lockVars>>

Symmetry == Permutations(Keys) \cup Permutations(Copiers)

Spec == Init /\ [][Next]_<<part, taskVars, archiveVars, backupVars, migrationVars, lockVars,
                           portVars, stops>>

\* What is shown of a task, whatever failed or stopped (Tasks).
TasksToldApart == Jobs!TasksToldApart

\* What was exported comes back, and nothing was left out of it (Archive).
ArchiveComesBack == Archives!FilesTravel /\ Archives!ArchiveComesBack

\* A month keeps a copy, and a database that opens has all its tables (Backups,
\* Migrations).
NothingIsDropped == Copies!MonthsKept /\ Schema!SchemaComplete

\* One server for a directory, which the lock file names, and the port that is
\* shown for the browser is the one it listens on (ServerLock, ConnectorPort).
AddressIsTrue == Lock!OneServer /\ Port!StatusIsBound
=============================================================================
