------------------------------ MODULE Migrations ------------------------------
(***************************************************************************)
(* Bringing a database up to date when it is opened (Db::migrate and       *)
(* backfill_names in crates/yk-store/src/db.rs): programs of different     *)
(* versions open it one after the other, and may be stopped at any step.   *)
(***************************************************************************)
EXTENDS Integers, Sequences, SequencesExt, FiniteSets

CONSTANTS
  Programs,   \* the list of migrations of each version of the program
  MaxOpens    \* bound on how often the database is opened

VARIABLES
  schema,     \* the migrations whose effect the database has
  names,      \* those in schema_migrations
  userVersion,
  program,    \* the list of the program that has it open
  at,         \* where it is
  next,       \* the position it is at
  known,      \* the names it has read
  opens,
  old,        \* history: what was there before names were recorded
  assumed     \* history: what was taken to be there

vars == <<schema, names, userVersion, program, at, next, known, opens, old, assumed>>

Goes(where, n) == at' = where /\ next' = n
Listed == ToSet(program)

-----------------------------------------------------------------------------
Open(p) ==
  /\ at = "closed" /\ opens < MaxOpens /\ opens' = opens + 1
  /\ program' = p
  /\ IF names = {} /\ userVersion > 0 THEN Goes("naming", 1) ELSE Goes("reading", 1)
  /\ UNCHANGED <<schema, names, userVersion, known, old, assumed>>

\* One after the other, each saved by itself.
NameOne ==
  /\ at = "naming"
  /\ IF next <= userVersion /\ next <= Len(program)
     THEN names' = names \cup {program[next]} /\ Goes("naming", next + 1)
          /\ assumed' = assumed \cup {program[next]}
     ELSE UNCHANGED <<names, assumed>> /\ Goes("reading", 1)
  /\ UNCHANGED <<schema, userVersion, program, known, opens, old>>

ReadNames ==
  /\ at = "reading"
  /\ known' = names /\ Goes("applying", 1)
  /\ UNCHANGED <<schema, names, userVersion, program, opens, old, assumed>>

\* Mutant of the next: by position.
ByPosition(n) == n <= Cardinality(known)

Applied(n) == program[n] \in known

Skip ==
  /\ at = "applying" /\ next <= Len(program) /\ Applied(next)
  /\ Goes("applying", next + 1)
  /\ UNCHANGED <<schema, names, userVersion, program, known, opens, old, assumed>>

\* The change, its name and the version in one transaction; what is there
\* already cannot be created again.
Apply ==
  /\ at = "applying" /\ next <= Len(program) /\ ~Applied(next)
  /\ IF program[next] \in schema
     THEN Goes("closed", 1) /\ UNCHANGED <<schema, names, userVersion>>
     ELSE /\ schema' = schema \cup {program[next]}
          /\ names' = names \cup {program[next]}
          /\ userVersion' = next
          /\ Goes("applying", next + 1)
  /\ UNCHANGED <<program, known, opens, old, assumed>>

Ready ==
  /\ at = "applying" /\ next > Len(program)
  /\ Goes("open", 1)
  /\ UNCHANGED <<schema, names, userVersion, program, known, opens, old, assumed>>

Stop ==
  /\ at # "closed" /\ Goes("closed", 1)
  /\ UNCHANGED <<schema, names, userVersion, program, known, opens, old, assumed>>

-----------------------------------------------------------------------------
\* A new file, or one of a program that only counted what it had applied.
Init ==
  /\ program \in Programs /\ userVersion \in 0 .. Len(program)
  /\ schema = {program[n] : n \in 1 .. userVersion} /\ old = schema
  /\ names = {} /\ known = {} /\ assumed = {} /\ opens = 0 /\ at = "closed" /\ next = 1

Next ==
  \/ \E p \in Programs : Open(p)
  \/ NameOne \/ ReadNames \/ Skip \/ Apply \/ Ready \/ Stop

Spec == Init /\ [][Next]_vars

-----------------------------------------------------------------------------
\* A database that was opened, however often that was cut off before and by
\* whatever versions, has everything the program needs, but for what an old
\* count was taken to mean; and what it has, it has a name for, or had before
\* there were names (migrate).
SchemaComplete ==
  /\ at = "open" => Listed \subseteq schema \cup (assumed \ old)
  /\ schema \subseteq names \cup old

\* "It is done once, and from then on the record is exact" (backfill_names).
RecordIsExact ==
  at \in {"applying", "open"} => schema \subseteq names
=============================================================================
