---------------------------- MODULE LibraryStore ----------------------------
(***************************************************************************)
(* The item store of one library (crates/yk-store/src/items.rs): the       *)
(* forest of items, the library version that every write advances, the     *)
(* tombstones of deleted items, the full-text rows kept beside the items,  *)
(* and the two-step "empty trash" request of the server.                   *)
(*                                                                         *)
(* Every write runs in one BEGIN IMMEDIATE transaction, so each operation  *)
(* of the repository is one action.  The empty-trash request is two calls: *)
(* it lists the trash, and deletes what it listed in a later transaction.  *)
(*                                                                         *)
(* A text stands for all an item says, the tags and collections it is in   *)
(* included.  These are items' own by name alone: renaming or deleting one *)
(* (collections.rs) changes every item that carries it, without stamping   *)
(* or reindexing any.  Two histories tell which items those are, and what  *)
(* is said of versions and of the index below is said but for them.        *)
(***************************************************************************)
EXTENDS Integers, FiniteSets, TLC

CONSTANTS
  Keys,        \* the item keys that clients use
  NoKey,       \* the parent of a top-level item
  Texts,       \* what an item can say
  Words,       \* the part of each text that the full-text tables hold
  PageLimit,   \* MAX_LIMIT: the most items one listing returns
  MaxVersion   \* bound on the library version, for model checking

ASSUME LibraryAssumption ==
  /\ NoKey \notin Keys
  /\ IsFiniteSet(Keys)
  /\ PageLimit \in Nat \ {0}
  /\ MaxVersion \in Nat

VARIABLES
  items,       \* the live rows: a function on the keys that exist
  version,     \* libraries.version
  tombstones,  \* deletions: the version at which a key was deleted
  fts,         \* items_fts / items_trgm: the text a key is indexed under
  emptying,    \* the empty-trash request: nothing, or what it has listed
  unstamped,   \* history: items a name changed in since they were stamped
  unindexed    \* history: items it changed the words of since they were indexed

vars == <<items, version, tombstones, fts, emptying, unstamped, unindexed>>

Live == DOMAIN items

\* A row of the items table.
Item(parent, deleted, text, ver) ==
  [parent |-> parent, deleted |-> deleted, text |-> text, version |-> ver]

ItemRow == [parent : Keys \cup {NoKey}, deleted : BOOLEAN,
            text : Texts, version : 0 .. version]

EmptyTable == [k \in {} |-> k]

Idle == [listing |-> FALSE, listed |-> {}]

-----------------------------------------------------------------------------
(***************************************************************************)
(* The tree.                                                               *)
(***************************************************************************)

Children(S) == {k \in Live : items[k].parent \in S}

\* Mutant of the next: a cascade of one level.
OneLevel(S) == (S \cap Live) \cup Children(S)

\* S and everything below it: what ON DELETE CASCADE takes with S.
Subtree(S) ==
  {k \in Live : \A T \in SUBSET Live :
                   S \cap Live \subseteq T /\ Children(T) \subseteq T => k \in T}

Trash == {k \in Live : items[k].deleted}

\* Mutant of the next: a row that is already there is kept.
ReindexMissing(S, rows) ==
  [k \in {k \in DOMAIN fts \cup S :
            k \in S => k \in DOMAIN rows /\ ~rows[k].deleted} |->
     IF k \in DOMAIN fts THEN fts[k] ELSE rows[k].text]

\* index::reindex over the keys of S, given their rows after the write: a
\* trashed row is taken out of the full-text tables, any other replaced.
Reindex(S, rows) ==
  [k \in {k \in DOMAIN fts \cup S :
            k \in S => k \in DOMAIN rows /\ ~rows[k].deleted} |->
     IF k \in S THEN rows[k].text ELSE fts[k]]

\* bump_version: every write takes the next version of the library and stamps
\* the rows it writes with it.
StampAhead  == version + 2  \* mutant of the next
NextVersion == version + 1

BumpNothing == version < MaxVersion /\ version' = version  \* mutant of the next
BumpVersion == version < MaxVersion /\ version' = NextVersion

\* What a write that stamps some items and indexes some makes of the histories.
Settled(stamped, indexed) ==
  /\ unstamped' = unstamped \ stamped
  /\ unindexed' = unindexed \ indexed

-----------------------------------------------------------------------------
(***************************************************************************)
(* The writes.                                                             *)
(***************************************************************************)

\* create and create_many: the drafts with unused keys are inserted under an
\* existing parent, all at one version.  A batch in which every draft fails
\* (S empty) still commits its version.
Create(S, parent, text) ==
  /\ S \cap Live = {}
  /\ parent \in Live \cup {NoKey}
  /\ BumpVersion
  /\ items' = [k \in Live \cup S |->
                 IF k \in S THEN Item(parent, FALSE, text, NextVersion)
                            ELSE items[k]]
  /\ fts' = Reindex(S, items')
  /\ Settled(S, S)
  /\ UNCHANGED <<tombstones, emptying>>

\* update without If-Unmodified-Since-Version, and update_many: a patch sets
\* fields and may set the deleted flag of the item itself.
Update(S, text, deleted) ==
  /\ S # {} /\ S \subseteq Live
  /\ BumpVersion
  /\ items' = [k \in Live |->
                 IF k \in S
                 THEN Item(items[k].parent, deleted, text, NextVersion)
                 ELSE items[k]]
  /\ fts' = Reindex(S, items')
  /\ Settled(S, S)
  /\ UNCHANGED <<tombstones, emptying>>

\* Mutant of the next: the children change without a new version.
SetTrashedQuietly(S, deleted) ==
  LET touched == S \cup Children(S) IN
  /\ S # {} /\ S \subseteq Live
  /\ BumpVersion
  /\ items' = [k \in Live |->
                 IF k \in touched
                 THEN [items[k] EXCEPT !.deleted = deleted,
                                       !.version = IF k \in S THEN NextVersion ELSE @]
                 ELSE items[k]]
  /\ fts' = Reindex(touched, items')
  /\ Settled(S, touched)
  /\ UNCHANGED <<tombstones, emptying>>

\* set_trashed: the keys and their direct children change together, and both
\* are reindexed.
SetTrashed(S, deleted) ==
  LET touched == S \cup Children(S) IN
  /\ S # {} /\ S \subseteq Live
  /\ BumpVersion
  /\ items' = [k \in Live |->
                 IF k \in touched
                 THEN [items[k] EXCEPT !.deleted = deleted,
                                       !.version = NextVersion]
                 ELSE items[k]]
  /\ fts' = Reindex(touched, items')
  /\ Settled(touched, touched)
  /\ UNCHANGED <<tombstones, emptying>>

\* merge: the children of the others move to the master, the others are
\* trashed, and the master takes their tags and collections and what it has
\* left blank, which make a text of the two.  Only the master is reindexed.
Merge(master, others, text) ==
  LET moved == Children(others) IN
  /\ master \in Live /\ others # {} /\ others \subseteq Live \ {master}
  /\ BumpVersion
  /\ items' = [k \in Live |->
                 IF k \in moved \cup others \cup {master}
                 THEN Item(IF k \in moved THEN master ELSE items[k].parent,
                           k \in others \/ items[k].deleted,
                           IF k = master THEN text ELSE items[k].text,
                           NextVersion)
                 ELSE items[k]]
  /\ fts' = Reindex({master}, items')
  /\ Settled(moved \cup others \cup {master}, {master})
  /\ UNCHANGED <<tombstones, emptying>>

\* What a name put in place of another, or taken away, makes of each text: the
\* second time it changes nothing.
Changes == {f \in [Texts -> Texts] : \A t \in Texts : f[f[t]] = f[t]}

\* add_to_collection and remove_from_collection: the items say something else,
\* though nothing that is searched, and are stamped.
Refile(S, f) ==
  /\ S \subseteq Live
  /\ \A t \in Texts : Words[f[t]] = Words[t]
  /\ BumpVersion
  /\ items' = [k \in Live |->
                 IF k \in S
                 THEN [items[k] EXCEPT !.text = f[@], !.version = NextVersion]
                 ELSE items[k]]
  /\ Settled(S, {})
  /\ UNCHANGED <<tombstones, fts, emptying>>

\* TagRepository::rename and delete, and delete of a collection: whatever
\* carried the name says something else, and only the library takes a version.
\* A write that no item shows (a color, a new collection) changes no text.
Relabel(f) ==
  /\ BumpVersion
  /\ items' = [k \in Live |-> [items[k] EXCEPT !.text = f[@]]]
  /\ unstamped' = unstamped \cup {k \in Live : items'[k] # items[k]}
  /\ unindexed' = unindexed \cup
       {k \in Live : Words[items'[k].text] # Words[items[k].text]}
  /\ UNCHANGED <<tombstones, fts, emptying>>

\* What delete(keys) leaves behind.  The keys are deleted one by one and each
\* takes its subtree with it through the foreign key, whose rows the
\* items_cleanup trigger takes out of the full-text tables.  A tombstone is
\* written for a listed key only if it still exists when its turn comes: never
\* for a descendant that is not listed, and for one that is only when it comes
\* before its ancestors.  The caller decides the order.
DeleteKeys(S) ==
  LET gone  == Subtree(S)
      roots == {k \in S \cap Live : \A a \in S \ {k} : k \notin Subtree({a})}
  IN
  /\ BumpVersion
  /\ items' = [k \in Live \ gone |-> items[k]]
  /\ fts' = [k \in DOMAIN fts \ gone |-> fts[k]]
  /\ Settled(gone, gone)
  /\ \E marked \in SUBSET (S \cap Live) :
       /\ roots \subseteq marked
       /\ tombstones' = [k \in DOMAIN tombstones \cup marked |->
                           IF k \in marked THEN NextVersion ELSE tombstones[k]]

\* DELETE of chosen items (POST items/delete).
Delete(S) ==
  /\ S # {} /\ S \subseteq Live
  /\ DeleteKeys(S)
  /\ UNCHANGED emptying

-----------------------------------------------------------------------------
(***************************************************************************)
(* DELETE /libraries/:lib/trash: list the trash, then delete what was      *)
(* listed.  The listing is clamped to one page.                            *)
(***************************************************************************)

ListTrash ==
  /\ ~emptying.listing
  /\ \E page \in SUBSET Trash :
       /\ Cardinality(page) =
            IF Cardinality(Trash) < PageLimit THEN Cardinality(Trash) ELSE PageLimit
       /\ emptying' = [listing |-> TRUE, listed |-> page]
  /\ UNCHANGED <<items, version, tombstones, fts, unstamped, unindexed>>

\* delete returns at once for an empty list of keys.
EmptyTrash ==
  /\ emptying.listing
  /\ emptying' = Idle
  /\ IF emptying.listed = {}
     THEN UNCHANGED <<items, version, tombstones, fts, unstamped, unindexed>>
     ELSE DeleteKeys(emptying.listed)

-----------------------------------------------------------------------------
Init ==
  /\ items = EmptyTable
  /\ version = 0
  /\ tombstones = EmptyTable
  /\ fts = EmptyTable
  /\ emptying = Idle
  /\ unstamped = {}
  /\ unindexed = {}

Next ==
  \/ \E S \in SUBSET Keys, p \in Keys \cup {NoKey}, t \in Texts : Create(S, p, t)
  \/ \E S \in SUBSET Keys, t \in Texts, d \in BOOLEAN : Update(S, t, d)
  \/ \E S \in SUBSET Keys, d \in BOOLEAN : SetTrashed(S, d)
  \/ \E m \in Keys, S \in SUBSET Keys, t \in Texts : Merge(m, S, t)
  \/ \E S \in SUBSET Keys, f \in Changes : Refile(S, f)
  \/ \E f \in Changes : Relabel(f)
  \/ \E S \in SUBSET Keys : Delete(S)
  \/ ListTrash
  \/ EmptyTrash

Spec == Init /\ [][Next]_vars

-----------------------------------------------------------------------------
(***************************************************************************)
(* Properties.                                                             *)
(***************************************************************************)

\* Every variable has its type, and no row or tombstone carries a version that
\* the library has not reached.
TypeOK ==
  /\ version \in 0 .. MaxVersion
  /\ Live \subseteq Keys
  /\ items \in [Live -> ItemRow]
  /\ DOMAIN tombstones \subseteq Keys
  /\ tombstones \in [DOMAIN tombstones -> 0 .. version]
  /\ DOMAIN fts \subseteq Keys
  /\ fts \in [DOMAIN fts -> Texts]
  /\ emptying \in [listing : BOOLEAN, listed : SUBSET Keys]
  /\ unstamped \subseteq Live
  /\ unindexed \subseteq Live

\* Every item that is not in the trash can be found under the words it has now,
\* or had before the last renaming that nothing indexed, and the full-text
\* tables hold no row of an item that no longer exists, not even of one that a
\* cascade deleted (index::reindex, the items_cleanup trigger).
IndexCurrent ==
  /\ DOMAIN fts \subseteq Live
  /\ \A k \in Live \ Trash :
       k \in DOMAIN fts /\ (k \notin unindexed => Words[fts[k]] = Words[items[k].text])

\* No item outlives its parent, whatever was deleted and in which order
\* (items.parent_id ON DELETE CASCADE).
NoOrphans == \A k \in Live : items[k].parent \in Live \cup {NoKey}

\* A key that was deleted and came back (an import keeps its keys) is newer
\* than its tombstone, so a reader that applies changes in version order ends
\* with the item and not with its deletion.
TombstonesPrecedeRebirth ==
  \A k \in Live \cap DOMAIN tombstones : tombstones[k] < items[k].version

\* What a row read earlier is of its item: the item as it is now, or, when a
\* name changed behind its version, all of it but what it says.
Matches(k, row) ==
  row = IF k \in unstamped THEN [items[k] EXCEPT !.text = row.text] ELSE items[k]

\* Whatever changes in an item, its version moves forward to the version of
\* the library: If-Unmodified-Since-Version and since= both rest on it.  The
\* one change they do not see is that of a tag or collection by its name,
\* which alters what the item says and nothing else of it.
ChangesAreVersioned ==
  [][\A k \in Live \cap Live' :
       items'[k] # items[k] =>
         \/ items'[k].version > items[k].version /\ items'[k].version = version'
         \/ k \in unstamped' /\ items'[k] = [items[k] EXCEPT !.text = items'[k].text]]_vars

\* "Whatever 'empty trash' will destroy has to be visible in the trash first"
\* (set_trashed): the deletion takes nothing that is not in the trash when it
\* runs.
EmptyTrashTakesOnlyTrash ==
  [][EmptyTrash => \A k \in Live \ Live' : items[k].deleted]_vars
-----------------------------------------------------------------------------
\* For TLC: keys and texts are told apart, and nothing else of them matters.
Symmetry == Permutations(Keys) \cup Permutations(Texts)

\* Tags are searched, and collections are not.
AllIsSearched  == [t \in Texts |-> t]
NoneIsSearched == [t \in Texts |-> "words"]
=============================================================================
