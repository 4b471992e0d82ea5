----------------------------- MODULE Duplicates -----------------------------
(***************************************************************************)
(* Groups of duplicate papers (crates/yk-store/src/items.rs:               *)
(* duplicate_groups, rescan_duplicates, coalesce; crates/yk-core/src/      *)
(* model.rs: fingerprint).  Two scans, by identifier and by what is        *)
(* written, are folded into groups, which are remembered under the         *)
(* version of the library that was read before them.  A scan is a          *)
(* statement of its own: others write between the two, and before the      *)
(* papers found are loaded.                                                *)
(***************************************************************************)
EXTENDS Integers, Sequences, FiniteSets, SequencesExt

CONSTANTS
  Papers,
  Records,       \* what a paper may say of itself
  Identifier,    \* the identifier of a record, or None
  Written,       \* its title, first author and year as one, or None
  None,
  Requests, Limits, MaxVersion

VARIABLES version, paper, cache, at, asked, sets, answer

vars == <<version, paper, cache, at, asked, sets, answer>>

Gone == [record |-> None, trashed |-> FALSE]
NoEntry == [version |-> -1, groups |-> {}]

DuplicatesTypeOK ==
  /\ version \in 0..MaxVersion
  /\ paper \in [Papers -> {Gone} \cup [record : Records, trashed : BOOLEAN]]
  /\ \A l \in Limits : cache[l].version \in -1..version /\ cache[l].groups \subseteq SUBSET Papers
  /\ at \in [Requests -> {"idle", "titles", "load", "done"}]
  /\ \A r \in Requests : asked[r].version \in 0..version /\ asked[r].limit \in Limits

DuplicatesInit ==
  /\ version = 0
  /\ paper \in [Papers -> {Gone} \cup [record : Records, trashed : BOOLEAN]]
  /\ cache = [l \in Limits |-> NoEntry]
  /\ at = [r \in Requests |-> "idle"]
  /\ \E l \in Limits : asked = [r \in Requests |-> [version |-> 0, limit |-> l]]
  /\ sets = [r \in Requests |-> <<>>]
  /\ answer = [r \in Requests |-> {}]

\* Creating, editing, trashing, restoring and deleting a paper; each is a
\* write under a version of its own.
Write(p, row) ==
  /\ version < MaxVersion /\ row # paper[p]
  /\ paper' = [paper EXCEPT ![p] = row]
  /\ version' = version + 1
  /\ UNCHANGED <<cache, at, asked, sets, answer>>

Listed(p) == paper[p] # Gone /\ ~paper[p].trashed
\* The identifier where there is one, what is written otherwise.
FingerprintOf ==
  [p \in Papers |-> IF Listed(p) THEN IF Identifier[paper[p].record] # None THEN Identifier[paper[p].record]
                                                                          ELSE Written[paper[p].record]
                                  ELSE None]
Title == [p \in Papers |-> IF Listed(p) THEN Written[paper[p].record] ELSE None]

\* The groups of more than one by a key that is not empty; the largest when
\* there are more than the limit, in the order of their size.
GroupsBy(key) ==
  LET keyed == {p \in Papers : key[p] # None}
  IN {S \in {{q \in keyed : key[q] = key[p]} : p \in keyed} : Cardinality(S) > 1}
Scans(groups) ==
  {s \in SetToSeqs(groups) : \A i, j \in DOMAIN s : i < j => Cardinality(s[i]) >= Cardinality(s[j])}
Scanned(groups, limit) == {SubSeq(s, 1, IF Len(s) < limit THEN Len(s) ELSE limit) : s \in Scans(groups)}

\* Changed the way a bug would, to see that the properties notice:
\* a set that touches another stays a group of its own.
Appended(out, set) == out \cup {set}

\* Everything a set touches is folded together with it.
Folded(out, set) ==
  LET touched == {o \in out : o \cap set # {}}
  IN (out \ touched) \cup {set \cup UNION touched}
Coalesce(found) ==
  LET out[n \in 0..Len(found)] == IF n = 0 THEN {} ELSE Folded(out[n - 1], found[n])
  IN out[Len(found)]

\* A request: the version, then the cache.
Ask(r, l) ==
  /\ at[r] = "idle"
  /\ asked' = [asked EXCEPT ![r] = [version |-> version, limit |-> l]]
  /\ IF cache[l].version = version
     THEN at' = [at EXCEPT ![r] = "done"] /\ answer' = [answer EXCEPT ![r] = cache[l].groups]
          /\ UNCHANGED sets
     ELSE /\ at' = [at EXCEPT ![r] = "titles"]
          /\ \E found \in Scanned(GroupsBy(FingerprintOf), l) : sets' = [sets EXCEPT ![r] = found]
          /\ UNCHANGED answer
  /\ UNCHANGED <<version, paper, cache>>

ScanTitles(r) ==
  /\ at[r] = "titles"
  /\ at' = [at EXCEPT ![r] = "load"]
  /\ \E found \in Scanned(GroupsBy(Title), asked[r].limit) : sets' = [sets EXCEPT ![r] = @ \o found]
  /\ UNCHANGED <<version, paper, cache, asked, answer>>

\* The version that was read before the scans; not the one they end at.
StampNow(r) == version
Stamp(r) == asked[r].version

\* The papers that are still there, in at most Limit groups, remembered.
Load(r) ==
  /\ at[r] = "load"
  /\ LET all == Coalesce(sets[r])
         Present(S) == {p \in S : paper[p] # Gone}
     IN \E taken \in SUBSET all :
          /\ taken = all \/ (Cardinality(taken) = asked[r].limit /\ Cardinality(all) > asked[r].limit)
          /\ Cardinality(taken) <= asked[r].limit
          /\ LET groups == {S \in {Present(T) : T \in taken} : Cardinality(S) > 1} IN
               /\ answer' = [answer EXCEPT ![r] = groups]
               /\ cache' = [cache EXCEPT ![asked[r].limit] = [version |-> Stamp(r), groups |-> groups]]
  /\ at' = [at EXCEPT ![r] = "done"]
  /\ UNCHANGED <<version, paper, asked, sets>>

Return(r) ==
  /\ at[r] = "done"
  /\ at' = [at EXCEPT ![r] = "idle"]
  /\ sets' = [sets EXCEPT ![r] = <<>>] /\ answer' = [answer EXCEPT ![r] = {}]
  /\ UNCHANGED <<version, paper, cache, asked>>

DuplicatesNext ==
  \/ \E p \in Papers, row \in {Gone} \cup [record : Records, trashed : BOOLEAN] : Write(p, row)
  \/ \E r \in Requests : (\E l \in Limits : Ask(r, l)) \/ ScanTitles(r) \/ Load(r) \/ Return(r)

(***************************************************************************)
(* Properties.                                                             *)
(***************************************************************************)

\* What counts as the same paper: chains of equal fingerprints or of equal
\* titles.
Same(p, q) ==
  \/ FingerprintOf[p] # None /\ FingerprintOf[p] = FingerprintOf[q]
  \/ Title[p] # None /\ Title[p] = Title[q]
Shown == {p \in Papers : Listed(p)}
Closed(S) == \A p \in S, q \in Shown : Same(p, q) => q \in S
Components ==
  {S \in SUBSET Shown : Cardinality(S) > 1 /\ Closed(S)
     /\ \A T \in SUBSET S : Closed(T) => T \in {{}, S}}

\* What is remembered for the present version is every group there is, and
\* nothing else, when no scan was cut by its limit (duplicate_groups: exact,
\* deliberately).
RememberedIsExact ==
  \A l \in Limits : cache[l].version = version /\ Cardinality(Papers) < 2 * l
    => cache[l].groups = Components

\* No paper is in two groups, whatever was written between the scans, and
\* however few were asked for (coalesce).
InOneGroup ==
  \A r \in Requests : \A S, T \in answer[r] : S # T => S \cap T = {}
=============================================================================
