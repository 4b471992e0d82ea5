------------------------------- MODULE Shelves -------------------------------
(***************************************************************************)
(* Collections of one library and the sidebar's list of them               *)
(* (crates/yk-store/src/collections.rs), remembered against the library    *)
(* version and recomputed behind a request when that is slow               *)
(* (crates/yk-store/src/counts.rs), and saved searches                     *)
(* (crates/yk-store/src/smart.rs).  Every write is one transaction that    *)
(* moves the library version.                                              *)
(*                                                                         *)
(* A row of the list is the number of live items in a collection and below *)
(* it.  Names, colours and order are left out.                             *)
(***************************************************************************)
EXTENDS Integers, FiniteSets

CONSTANTS
  Shelves, Items, Requests,
  MaxVersion      \* bound on the writes

Top == "top"
Gone == "gone"
Task == "refresh"          \* the refresh behind the requests
Absent == -1

VARIABLES
  version,    \* libraries.version
  parent,     \* the parent of each collection, Top or Gone
  filed,      \* what is filed in it
  trash,      \* items in the trash
  search,     \* a saved search: none, blank, or a query
  entry,      \* the remembered list: what it was stamped with, and its rows
  slow,       \* what the last computation cost
  claimed,    \* a refresh is in flight
  at,         \* where each request, and the refresh, is
  asked,      \* the version it read
  held,       \* the rows it holds
  stale,      \* it was handed a superseded list
  moments     \* history: the true rows while it ran

tree == <<parent, filed, trash>>
cache == <<entry, slow, claimed>>
request == <<at, asked, held, stale>>
vars == <<version, tree, search, cache, request, moments>>

Runners == Requests \cup {Task}
NoRows == [k \in Shelves |-> Absent]
NoEntry == [stamp |-> -1, rows |-> NoRows]

Live(k) == parent[k] # Gone
Places == {Top} \cup {k \in Shelves : Live(k)}

\* A collection and what is above it: the least set that has it and the parents
\* of what it has.
HasParents(S) == \A d \in S : parent[d] \in Shelves => parent[d] \in S

Above(k) == {d \in Shelves : \A S \in SUBSET Shelves : k \in S /\ HasParents(S) => d \in S}

Within(k) == {d \in Shelves : Live(d) /\ k \in Above(d)}

Rows ==
  [k \in Shelves |->
     IF Live(k) THEN Cardinality(UNION {filed[d] : d \in Within(k)} \ trash) ELSE Absent]

-----------------------------------------------------------------------------
(***************************************************************************)
(* Writes.                                                                 *)
(***************************************************************************)

\* Mutant of the next: the version stays.
Quietly(v) == v

Bump(v) == v + 1

Write ==
  /\ version < MaxVersion
  /\ version' = Bump(version)
  /\ moments' = [r \in Runners |-> IF at[r] = "idle" THEN {} ELSE moments[r] \cup {Rows'}]
  /\ UNCHANGED <<cache, request>>

Create(k, p) ==
  /\ ~Live(k) /\ p \in Places
  /\ parent' = [parent EXCEPT ![k] = p]
  /\ UNCHANGED <<filed, trash, search>> /\ Write

\* Mutant of the next: only the new parent itself is looked at.
OwnParent(k, p) == p = k

WouldCycle(k, p) == p \in Shelves /\ k \in Above(p)

\* Moved, or renamed and the like where it is.
Update(k, p) ==
  /\ Live(k) /\ p \in Places /\ ~WouldCycle(k, p)
  /\ parent' = [parent EXCEPT ![k] = p]
  /\ UNCHANGED <<filed, trash, search>> /\ Write

\* With what is below it, or leaving that to its parent.
Delete(k, recursive) ==
  /\ Live(k)
  /\ LET out == IF recursive THEN Within(k) ELSE {k} IN
     /\ parent' = [d \in Shelves |-> IF d \in out THEN Gone
                                     ELSE IF parent[d] = k THEN parent[k] ELSE parent[d]]
     /\ filed' = [d \in Shelves |-> IF d \in out THEN {} ELSE filed[d]]
  /\ UNCHANGED <<trash, search>> /\ Write

Refile(i, k) ==
  /\ Live(k)
  /\ \E m \in {filed[k] \cup {i}, filed[k] \ {i}} : filed' = [filed EXCEPT ![k] = m]
  /\ UNCHANGED <<parent, trash, search>> /\ Write

SetTrashed(i) ==
  /\ \E t \in {trash \cup {i}, trash \ {i}} : trash' = t
  /\ UNCHANGED <<parent, filed, search>> /\ Write

\* A blank query is refused when a search is saved, and when it is edited.
CleanQuery(q) == q # "blank"

SaveSearch(q) ==
  /\ CleanQuery(q) /\ search' = q
  /\ UNCHANGED tree /\ Write

DropSearch ==
  /\ search' = "none"
  /\ UNCHANGED tree /\ Write

-----------------------------------------------------------------------------
(***************************************************************************)
(* list: a request, or the refresh it leaves behind.                       *)
(***************************************************************************)

Goes(r, where) == at' = [at EXCEPT ![r] = where]
Holds(r, rows) == held' = [held EXCEPT ![r] = rows]
Library == UNCHANGED <<version, tree, search, moments>>

\* It ends, and what it held goes with it.
Ends(r) ==
  /\ Goes(r, "idle") /\ Holds(r, NoRows)
  /\ asked' = [asked EXCEPT ![r] = 0] /\ stale' = [stale EXCEPT ![r] = FALSE]
  /\ moments' = [moments EXCEPT ![r] = {}]
  /\ UNCHANGED <<version, tree, search>>

ReadVersion(r) ==
  /\ at[r] = "idle"
  /\ asked' = [asked EXCEPT ![r] = version]
  /\ moments' = [moments EXCEPT ![r] = {Rows}]
  /\ Goes(r, "asking")
  /\ UNCHANGED <<version, tree, search, cache, held, stale>>

Missing(r) == entry = NoEntry \/ (entry.stamp # asked[r] /\ ~slow)

Answered(r) ==
  /\ at[r] = "asking" /\ entry # NoEntry /\ entry.stamp = asked[r]
  /\ Holds(r, entry.rows)
  /\ Goes(r, "answered")
  /\ UNCHANGED <<asked, stale, cache>> /\ Library

StartCount(r) ==
  /\ at[r] = "asking" /\ Missing(r)
  /\ Goes(r, "counting")
  /\ UNCHANGED <<asked, held, stale, cache>> /\ Library

\* The superseded list is taken, and a refresh left behind unless one is.
Defer(r) ==
  /\ at[r] = "asking" /\ ~Missing(r) /\ entry.stamp # asked[r]
  /\ Holds(r, entry.rows) /\ stale' = [stale EXCEPT ![r] = TRUE]
  /\ claimed' = TRUE
  /\ at' = IF claimed THEN [at EXCEPT ![r] = "reconciling"]
           ELSE [at EXCEPT ![r] = "reconciling", ![Task] = "counting"]
  /\ asked' = IF claimed THEN asked ELSE [asked EXCEPT ![Task] = asked[r]]
  /\ moments' = IF claimed THEN moments ELSE [moments EXCEPT ![Task] = {Rows}]
  /\ UNCHANGED <<entry, slow, version, tree, search>>

\* Mutant of the next: the superseded list as it stands.
AsItStands(rows) == rows

\* Which collections exist is read; the counts are carried over.
Reconciled(rows) ==
  [k \in Shelves |-> IF ~Live(k) THEN Absent ELSE IF rows[k] = Absent THEN 0 ELSE rows[k]]

Reconcile(r) ==
  /\ at[r] = "reconciling"
  /\ Holds(r, Reconciled(held[r]))
  /\ Goes(r, "answered")
  /\ UNCHANGED <<asked, stale, cache>> /\ Library

\* recompute: the rows in one statement, remembered under the version read.
Count(r) ==
  /\ at[r] = "counting"
  /\ Holds(r, Rows)
  /\ Goes(r, "storing")
  /\ UNCHANGED <<asked, stale, cache>> /\ Library

Store(r) ==
  /\ at[r] = "storing"
  /\ entry' = [stamp |-> asked[r], rows |-> held[r]]
  /\ slow' \in BOOLEAN
  /\ Goes(r, IF r = Task THEN "releasing" ELSE "answered")
  /\ UNCHANGED <<asked, held, stale, claimed>> /\ Library

\* The statement fails: the request with it, the refresh goes on to release.
CountFails(r) ==
  /\ at[r] = "counting"
  /\ IF r = Task THEN Goes(r, "releasing") /\ UNCHANGED <<asked, held, stale>> /\ Library
     ELSE Ends(r)
  /\ UNCHANGED cache

\* Mutant of the next: the claim is given up after a success only.
KeepsClaim == claimed

GivesUp == FALSE

Release ==
  /\ at[Task] = "releasing"
  /\ claimed' = GivesUp
  /\ Ends(Task)
  /\ UNCHANGED <<entry, slow>>

Done(r) ==
  /\ at[r] = "answered" /\ Ends(r)
  /\ UNCHANGED cache

-----------------------------------------------------------------------------
Init ==
  /\ version = 0 /\ search = "none" /\ trash = {}
  /\ parent = [k \in Shelves |-> Gone] /\ filed = [k \in Shelves |-> {}]
  /\ entry = NoEntry /\ slow = FALSE /\ claimed = FALSE
  /\ at = [r \in Runners |-> "idle"] /\ asked = [r \in Runners |-> 0]
  /\ held = [r \in Runners |-> NoRows] /\ stale = [r \in Runners |-> FALSE]
  /\ moments = [r \in Runners |-> {}]

Writes ==
  \/ \E k \in Shelves :
       \/ \E p \in Shelves \cup {Top} : Create(k, p) \/ Update(k, p)
       \/ \E recursive \in BOOLEAN : Delete(k, recursive)
       \/ \E i \in Items : Refile(i, k)
  \/ \E i \in Items : SetTrashed(i)
  \/ \E q \in {"query", "blank"} : SaveSearch(q)
  \/ DropSearch

Refresh == Count(Task) \/ Store(Task) \/ CountFails(Task) \/ Release

Next ==
  \/ Writes
  \/ \E r \in Requests :
       \/ ReadVersion(r) \/ Answered(r) \/ StartCount(r) \/ Defer(r) \/ Reconcile(r)
       \/ Count(r) \/ Store(r) \/ CountFails(r) \/ Done(r)
  \/ Refresh

Spec == Init /\ [][Next]_vars

-----------------------------------------------------------------------------
\* "Guard against making a collection its own ancestor": whatever is created,
\* moved and deleted, every collection hangs from the top by collections
\* that exist, so that none is out of every list (would_cycle, delete).
EveryShelfHangs ==
  \A k \in Shelves : Live(k) => \E d \in Above(k) : parent[d] = Top

\* "The counts may lag; which collections exist may not": the answer names
\* the collections of some moment of its request, and unless it was deferred
\* its counts are of that moment too (list, reconcile, look_up).
ListedInTime ==
  \A r \in Requests : at[r] = "answered" =>
    \E m \in moments[r] :
      /\ \A k \in Shelves : m[k] = Absent <=> held[r][k] = Absent
      /\ stale[r] \/ held[r] = m

\* A claimed refresh is in flight, so that a later request can have one too
\* (claim, release).
ClaimIsHeld == claimed <=> at[Task] # "idle"
=============================================================================
