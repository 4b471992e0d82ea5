----------------------------- MODULE CountCache -----------------------------
(***************************************************************************)
(* The exact cache of totals (crates/yk-store/src/counts.rs) as listings   *)
(* use it (cached_count in items.rs).  A request reads the library version *)
(* and counts in two statements that share no transaction, and goes to the *)
(* cache under its own lock before and after, so writes and other requests *)
(* come in between.                                                        *)
(*                                                                         *)
(* A question is a predicate with its bound values.  What the library      *)
(* answers is a function of the question that any write may change.  The   *)
(* questions in Phrases test items_fts as well (Predicate::build_with), a  *)
(* table that a background rebuild empties and fills without a new library *)
(* version (rebuild_index).                                                *)
(***************************************************************************)
EXTENDS Integers, FiniteSets

CONSTANTS
  Questions,   \* predicates that requests count
  Phrases,     \* those that search for a quoted phrase
  Totals,      \* the counts there can be
  Requests,    \* requests that may be under way together
  Capacity,    \* CAPACITY: the most entries the cache holds
  MaxVersion   \* bound on the library version, for model checking

ASSUME CountAssumption ==
  /\ Phrases \subseteq Questions
  /\ Capacity \in Nat \ {0}
  /\ MaxVersion \in Nat

VARIABLES
  version,     \* libraries.version
  holds,       \* holds[q]: what counting q returns now
  entries,     \* the cache: questions to a version and a total
  at,          \* at[r]: where request r is
  question,    \* what r counts
  seen,        \* the version r read
  total,       \* the total r has counted or been given
  true         \* history: every total that was right since r began

vars == <<version, holds, entries, at, question, seen, total, true>>
request == <<at, question, seen, total>>

Entry == [version : 0 .. MaxVersion, total : Totals]

Active == {r \in Requests : at[r] \notin {"idle", "done"}}

-----------------------------------------------------------------------------
(***************************************************************************)
(* The library.                                                            *)
(***************************************************************************)

\* What the requests under way may now answer as well.
Witness(now) ==
  true' = [r \in Requests |->
             IF r \in Active THEN true[r] \cup {now[question[r]]} ELSE true[r]]

\* Mutant of the next: a write that takes a version for each of its two rows.
BumpTwice(v) == v + 2

\* bump_version.
Bumped(v) == v + 1

\* Any write of the store: one transaction, one new version.
Write ==
  /\ version < MaxVersion
  /\ version' = Bumped(version)
  /\ holds' \in [Questions -> Totals]
  /\ Witness(holds')
  /\ UNCHANGED <<entries, request>>

\* One chunk of rebuild_index: rows leave or enter items_fts, and the library
\* version stays.
RebuildChunk ==
  /\ holds' \in [Questions -> Totals]
  /\ \A q \in Questions \ Phrases : holds'[q] = holds[q]
  /\ Witness(holds')
  /\ UNCHANGED <<version, entries, request>>

-----------------------------------------------------------------------------
(***************************************************************************)
(* cached_count.                                                           *)
(***************************************************************************)

\* version_of.
Begin(r, q) ==
  /\ at[r] \in {"idle", "done"}
  /\ at' = [at EXCEPT ![r] = "looking"]
  /\ question' = [question EXCEPT ![r] = q]
  /\ seen' = [seen EXCEPT ![r] = version]
  /\ true' = [true EXCEPT ![r] = {holds[q]}]
  /\ UNCHANGED <<version, holds, entries, total>>

\* Mutant of the next: an entry of any version will do.
AnyEntry(q, v) == q \in DOMAIN entries

\* Versioned::get: an entry counts only for its own version.
Hit(q, v) == q \in DOMAIN entries /\ entries[q].version = v

LookUp(r) ==
  /\ at[r] = "looking"
  /\ IF Hit(question[r], seen[r])
     THEN /\ total' = [total EXCEPT ![r] = entries[question[r]].total]
          /\ at' = [at EXCEPT ![r] = "done"]
     ELSE /\ at' = [at EXCEPT ![r] = "counting"]
          /\ UNCHANGED total
  /\ UNCHANGED <<version, holds, entries, question, seen, true>>

\* SELECT count(*).
Count(r) ==
  /\ at[r] = "counting"
  /\ total' = [total EXCEPT ![r] = holds[question[r]]]
  /\ at' = [at EXCEPT ![r] = "storing"]
  /\ UNCHANGED <<version, holds, entries, question, seen, true>>

\* Mutants of the next: the version is read again when storing; a full cache
\* keeps growing.
StampNow(r)  == version
KeepAll == entries

\* The version an entry is stored under: the one read before counting.
Stamp(r) == seen[r]

\* Versioned::put clears a full cache before it inserts.
RoomMade ==
  IF Cardinality(DOMAIN entries) >= Capacity THEN [q \in {} |-> q] ELSE entries

Store(r) ==
  /\ at[r] = "storing"
  /\ entries' = [q \in DOMAIN RoomMade \cup {question[r]} |->
                   IF q = question[r]
                   THEN [version |-> Stamp(r), total |-> total[r]]
                   ELSE RoomMade[q]]
  /\ at' = [at EXCEPT ![r] = "done"]
  /\ UNCHANGED <<version, holds, question, seen, total, true>>

-----------------------------------------------------------------------------
Init ==
  /\ version = 0
  /\ holds \in [Questions -> Totals]
  /\ entries = [q \in {} |-> q]
  /\ at = [r \in Requests |-> "idle"]
  /\ question \in [Requests -> Questions]
  /\ seen = [r \in Requests |-> 0]
  /\ total \in [Requests -> Totals]
  /\ true = [r \in Requests |-> {}]

Next ==
  \/ Write
  \/ RebuildChunk
  \/ \E r \in Requests :
       \/ \E q \in Questions : Begin(r, q)
       \/ LookUp(r)
       \/ Count(r)
       \/ Store(r)

Spec == Init /\ [][Next]_vars

-----------------------------------------------------------------------------
\* Every variable has its type: no request and no entry is ahead of the
\* library (bump_version moves by one).
TypeOK ==
  /\ version \in 0 .. MaxVersion
  /\ holds \in [Questions -> Totals]
  /\ DOMAIN entries \subseteq Questions
  /\ entries \in [DOMAIN entries -> Entry]
  /\ at \in [Requests -> {"idle", "looking", "counting", "storing", "done"}]
  /\ question \in [Requests -> Questions]
  /\ seen \in [Requests -> 0 .. MaxVersion]
  /\ total \in [Requests -> Totals]
  /\ true \in [Requests -> SUBSET Totals]

\* The entry of a question at the library's own version is the exact total,
\* though it was counted outside any transaction and stored later ("a cached
\* answer is either from the exact state being queried or it is not used",
\* counts.rs), for every question that the library version covers.
CurrentEntryIsExact ==
  \A q \in DOMAIN entries \ Phrases :
    entries[q].version = version => entries[q].total = holds[q]

\* Every answer, from the cache or not, was right at some moment between the
\* start of its request and its end, for the same questions (cached_count).
AnsweredInTime ==
  \A r \in Requests :
    at[r] = "done" /\ question[r] \notin Phrases => total[r] \in true[r]

\* The cache never holds more than its capacity (put, CAPACITY).
CacheBounded == Cardinality(DOMAIN entries) <= Capacity
=============================================================================
