------------------------------ MODULE CitedWorks ------------------------------
(***************************************************************************)
(* References: the lists of what papers cite, the votes counted from them, *)
(* and the works that are cited and not held                               *)
(* (crates/yk-store/src/relations.rs, and its requests in                  *)
(* crates/yk-server/src/routes/references.rs).                             *)
(*                                                                         *)
(* A work is a fingerprint.  A list is a sequence of works, of which one   *)
(* may come twice, and of entries without an identifier.                   *)
(***************************************************************************)
EXTENDS Integers, FiniteSets, Sequences, SequencesExt

CONSTANTS
  Keys, Works,
  NoWork,         \* the fingerprint of a paper, or of an entry, without one
  Fingerprint,    \* of the paper with each key
  Lists,          \* the reference lists there are
  Requests,       \* each brings the list of one paper
  Limit, Wanted,  \* how many works are shown, and how many are looked at
  MaxRow, MaxDrift        \* bounds on rowids, and on the deletions that leave a vote

VARIABLES
  row,      \* the rowid of the paper with each key, 0 without one
  trash,    \* papers in the trash
  list,     \* item_relations, by rowid
  fetched,  \* citation_fetches: the rows whose list was asked for
  votes,    \* cited_works.citations, 0 without a row
  task,     \* what each request has in hand
  drift     \* history: votes whose paper was deleted

rows == <<row, trash, list, fetched, votes, drift>>
vars == <<rows, task>>

NoTask == [key |-> "none", list |-> <<>>, row |-> 0]
Rowids == 1 .. MaxRow
Held == {k \in Keys : row[k] # 0}
Live == Held \ trash

Distinct(l) == ToSet(l) \ {NoWork}
Citers(w) == {k \in Held : w \in Distinct(list[row[k]])}

-----------------------------------------------------------------------------
(***************************************************************************)
(* Papers come and go.                                                     *)
(***************************************************************************)

\* A new row gets the number after the greatest there is.
Create(k) ==
  /\ k \notin Held
  /\ \E id \in Rowids :
       /\ \A h \in Held : row[h] < id
       /\ id = 1 \/ \E h \in Held : row[h] = id - 1
       /\ row' = [row EXCEPT ![k] = id]
  /\ UNCHANGED <<trash, list, fetched, votes, drift, task>>

SetTrashed(k) ==
  /\ k \in Held
  /\ \E t \in {trash \cup {k}, trash \ {k}} : trash' = t
  /\ UNCHANGED <<row, list, fetched, votes, drift, task>>

\* The cascade takes the list and the record that it was asked for, and leaves
\* the votes.
Delete(k) ==
  /\ k \in Held
  /\ \A w \in Works : drift[w] < MaxDrift
  /\ row' = [row EXCEPT ![k] = 0] /\ trash' = trash \ {k}
  /\ list' = [list EXCEPT ![row[k]] = <<>>] /\ fetched' = fetched \ {row[k]}
  /\ drift' = [w \in Works |-> drift[w] + (IF w \in Distinct(list[row[k]]) THEN 1 ELSE 0)]
  /\ UNCHANGED <<votes, task>>

-----------------------------------------------------------------------------
(***************************************************************************)
(* set_citations.                                                          *)
(***************************************************************************)

\* Papers a harvest asks about.
Unfetched ==
  {k \in Live : Fingerprint[k] # NoWork /\ row[k] \notin fetched}

\* gather: the publisher, when the paper has a DOI, then the index, then the
\* pages; each is asked when the one before it had nothing.
Gather(k, crossref, scholar, printed) ==
  LET remote == IF Fingerprint[k] # NoWork /\ crossref # <<>> THEN crossref ELSE scholar
  IN IF remote # <<>> THEN remote ELSE printed

\* A request gets a list, from its caller, from a publisher, or from the paper,
\* and reads the rowid of the paper outside its transaction.
ReadRow(r) ==
  /\ task[r] = NoTask
  /\ \E k \in Held, crossref, scholar, printed \in Lists :
       task' = [task EXCEPT ![r] =
         [key |-> k, list |-> Gather(k, crossref, scholar, printed), row |-> row[k]]]
  /\ UNCHANGED rows

\* Mutant of the next: a vote for each entry.
EachEntry(l, w) == Len(SelectSeq(l, LAMBDA e : e = w))

\* The votes of a list for a work.
Votes(l, w) == IF w \in Distinct(l) THEN 1 ELSE 0

\* One transaction: the old votes are taken back, the list is replaced, the
\* new votes are cast, works without votes are dropped, and that it was asked
\* for is recorded.
SetCitations(r) ==
  LET id == task[r].row
      new == task[r].list
      count(w) == votes[w] - Votes(list[id], w) + Votes(new, w)
  IN
  /\ task[r] # NoTask
  /\ id \in {row[k] : k \in Held}
  /\ list' = [list EXCEPT ![id] = new]
  /\ votes' = [w \in Works |-> IF count(w) <= 0 THEN 0 ELSE count(w)]
  /\ fetched' = fetched \cup {id}
  /\ task' = [task EXCEPT ![r] = NoTask]
  /\ UNCHANGED <<row, trash, drift>>

\* The row is gone: the foreign key refuses it all.
Refuse(r) ==
  /\ task[r] # NoTask /\ task[r].row \notin {row[k] : k \in Held}
  /\ task' = [task EXCEPT ![r] = NoTask]
  /\ UNCHANGED rows

-----------------------------------------------------------------------------
(***************************************************************************)
(* Reads.                                                                  *)
(***************************************************************************)

\* cites: each entry, with the papers that are held under its fingerprint.
Cites(k) == [p \in DOMAIN list[row[k]] |->
               {h \in Live : Fingerprint[h] # NoWork /\ Fingerprint[h] = list[row[k]][p]}]

CitedBy(k) == IF Fingerprint[k] = NoWork THEN {} ELSE Citers(Fingerprint[k]) \ trash

Owned(w) == \E k \in Live : Fingerprint[k] = w

\* Works that are not held, those with most votes first, in any order that the
\* database may give them.
Rankings ==
  LET counted == {w \in Works : votes[w] > 0 /\ ~Owned(w)}
      some == IF Cardinality(counted) < Wanted THEN Cardinality(counted) ELSE Wanted
  IN {l \in [1 .. some -> counted] :
        /\ \A m, n \in 1 .. some : m < n => l[m] # l[n] /\ votes[l[m]] >= votes[l[n]]
        /\ \A w \in counted \ {l[n] : n \in 1 .. some}, n \in 1 .. some : votes[l[n]] >= votes[w]}

\* missing: of these, by their places, the first that papers outside the trash
\* cite.
Missing(ranked) ==
  LET cited(w) == votes[w] - Cardinality(Citers(w) \cap trash)
      kept == {n \in DOMAIN ranked : cited(ranked[n]) > 0}
      shown == {n \in kept : Cardinality({m \in kept : m < n}) < Limit}
  IN [n \in shown |-> [work |-> ranked[n], citedBy |-> cited(ranked[n])]]

-----------------------------------------------------------------------------
Init ==
  /\ row = [k \in Keys |-> 0] /\ trash = {} /\ fetched = {}
  /\ list = [id \in Rowids |-> <<>>] /\ votes = [w \in Works |-> 0]
  /\ task = [r \in Requests |-> NoTask] /\ drift = [w \in Works |-> 0]

Next ==
  \/ \E k \in Keys : Create(k) \/ SetTrashed(k) \/ Delete(k)
  \/ \E r \in Requests : ReadRow(r) \/ SetCitations(r) \/ Refuse(r)

Spec == Init /\ [][Next]_vars

-----------------------------------------------------------------------------
\* "It cannot disagree with what it counts": the votes of a work are the papers
\* that cite it, and those that did when they were deleted, however lists are
\* replaced, and whichever paper has the row by then (set_citations, the
\* cascade).
VotesAddUp == \A w \in Works : votes[w] = Cardinality(Citers(w)) + drift[w]

\* A work that is shown as missing is held by no paper, and outside the trash
\* as many cite it as is said, but for the deleted; one that is held is cited
\* by the papers that cite it as held (missing, cites, cited_by).
CitationsAgree ==
  /\ VotesAddUp
  /\ \A ranked \in Rankings :
       \A n \in DOMAIN Missing(ranked) :
         LET m == Missing(ranked)[n] IN
         ~Owned(m.work) /\ m.citedBy = Cardinality(Citers(m.work) \ trash) + drift[m.work]
  /\ \A k, h \in Live : k \in CitedBy(h) <=> \E p \in DOMAIN list[row[k]] : h \in Cites(k)[p]
=============================================================================
