---------------------------- MODULE Clients_proofs ----------------------------
(***************************************************************************)
(* Proofs about LibraryStore, OptimisticEdit, DeltaSync, EventFeed,        *)
(* Documents and MCClients, for any number of editors, any library, any    *)
(* channel and any document.                                               *)
(*                                                                         *)
(* In the store TypeOK is inductive; every other invariant is inductive    *)
(* relative to it, because what a write stamps is one more than any        *)
(* version a row or a tombstone carries.  Renaming and deleting tags and   *)
(* collections stamps no row; the histories hold which rows it changed.    *)
(*                                                                         *)
(* An accepted save replaces what its editor was shown: two rows of one    *)
(* key with the same version match, from the moment one of them was read,  *)
(* since every other row of that key is stamped later.                     *)
(*                                                                         *)
(* A client's copy holds every item that has not changed since its         *)
(* watermark.  While an answer is on its way the same is true of the copy  *)
(* with the answer laid over it, for the header in place of the watermark, *)
(* since whatever is written after the header is stamped later.            *)
(*                                                                         *)
(* To its editors the composition is OptimisticEdit, to its copy it is     *)
(* DeltaSync, so each keeps what was proved of it alone.                   *)
(*                                                                         *)
(* What a page shows is of the library as it is, unless something is due   *)
(* that will have it read again: the last read, then, has seen everything. *)
(*                                                                         *)
(* Works of a document are numbered by counting those up to each.  These   *)
(* sets are a chain in which each is one larger than the one before, so    *)
(* counting gives every number once, whatever the sets are of.  What the   *)
(* pane holds while nothing is edited is a plan of the document as it is,  *)
(* in the style it carries.                                                *)
(***************************************************************************)
EXTENDS MCClients, FunctionTheorems, FiniteSetTheorems, WellFoundedInduction, TLAPS

-----------------------------------------------------------------------------
(***************************************************************************)
(* The store.                                                              *)
(***************************************************************************)

\* What the cascade of items.parent_id takes: only rows that exist, all rows
\* it was started on, and with a row every row below it.
LEMMA SubtreeClosed ==
  ASSUME NEW S
  PROVE  /\ Subtree(S) \subseteq Live
         /\ S \cap Live \subseteq Subtree(S)
         /\ Children(Subtree(S)) \subseteq Subtree(S)
<1>1. Subtree(S) \subseteq Live
  BY DEF Subtree
<1>2. S \cap Live \subseteq Subtree(S)
  BY DEF Subtree
<1>3. ASSUME NEW k \in Children(Subtree(S)) PROVE k \in Subtree(S)
  <2>1. k \in Live /\ items[k].parent \in Subtree(S)
    BY DEF Children
  <2>2. ASSUME NEW T \in SUBSET Live,
               S \cap Live \subseteq T, Children(T) \subseteq T
        PROVE  k \in T
    <3>1. items[k].parent \in T
      BY <2>1, <2>2 DEF Subtree
    <3> QED BY <2>1, <2>2, <3>1 DEF Children
  <2> QED BY <2>1, <2>2 DEF Subtree
<1> QED BY <1>1, <1>2, <1>3

\* index::reindex: the keys given end up as their rows say, absent when trashed
\* or gone; the other keys stay as they were.
LEMMA ReindexResult ==
  ASSUME NEW S, NEW rows
  PROVE  /\ \A k \in S : k \in DOMAIN Reindex(S, rows)
                           <=> k \in DOMAIN rows /\ ~rows[k].deleted
         /\ \A k \in DOMAIN Reindex(S, rows) :
              /\ k \in S => Reindex(S, rows)[k] = rows[k].text
              /\ k \notin S => k \in DOMAIN fts /\ Reindex(S, rows)[k] = fts[k]
         /\ \A k \in DOMAIN fts \ S : k \in DOMAIN Reindex(S, rows)
BY DEF Reindex

-----------------------------------------------------------------------------
\* A row, whatever its version.
AnyRow == [parent : Keys \cup {NoKey}, deleted : BOOLEAN,
           text : Texts, version : Int]

\* The type of a write: the version it takes, and its rows if they are stamped
\* with it or as they were.
LEMMA BumpType ==
  ASSUME TypeOK, BumpVersion
  PROVE  version' \in 0 .. MaxVersion /\ version' = version + 1 /\ version \in Nat
BY LibraryAssumption DEF TypeOK, BumpVersion, NextVersion

\* Rows that are stamped with the new version, or are as they were, have the
\* type of a row after the write.
LEMMA RowsType ==
  ASSUME TypeOK, BumpVersion,
         Live' \subseteq Keys,
         items' = [k \in Live' |-> items'[k]],
         NEW changed,
         \A k \in Live' \ changed : k \in Live /\ items'[k] = items[k],
         \A k \in Live' \cap changed :
           /\ items'[k] \in AnyRow
           /\ items'[k].version = version + 1
  PROVE  items' \in [Live' -> ItemRow']
<1>1. version' = version + 1 /\ version \in Nat
  BY BumpType
<1>2. ASSUME NEW k \in Live' PROVE items'[k] \in ItemRow'
  <2>1. CASE k \in changed
    BY <1>1, <2>1 DEF ItemRow, AnyRow
  <2>2. CASE k \notin changed
    <3>1. items[k] \in ItemRow /\ items'[k] = items[k]
      BY <2>2 DEF TypeOK
    <3> QED BY <1>1, <3>1 DEF ItemRow
  <2> QED BY <2>1, <2>2
<1> QED BY <1>2

\* index::reindex of well-typed rows leaves well-typed full-text tables.
LEMMA ReindexType ==
  ASSUME TypeOK, NEW S \in SUBSET Keys, fts' = Reindex(S, items'),
         \A k \in S \cap Live' : items'[k].text \in Texts
  PROVE  DOMAIN fts' \subseteq Keys /\ fts' \in [DOMAIN fts' -> Texts]
<1> DEFINE keep == {k \in DOMAIN fts \cup S :
                      k \in S => k \in DOMAIN items' /\ ~items'[k].deleted}
<1>1. fts' = [k \in keep |-> IF k \in S THEN items'[k].text ELSE fts[k]]
  BY DEF Reindex
<1>2. \A k \in keep \cap S : items'[k].text \in Texts
  BY DEF Live
<1>3. \A k \in keep \ S : fts[k] \in Texts
  BY DEF TypeOK
<1>4. keep \subseteq Keys
  BY DEF TypeOK
<1> HIDE DEF keep
<1> QED BY <1>1, <1>2, <1>3, <1>4

\* delete and empty_trash: what remains is as it was, and every tombstone
\* written carries the new version.
LEMMA DeleteResult ==
  ASSUME TypeOK, NEW S \in SUBSET Keys, DeleteKeys(S)
  PROVE  /\ Live' = Live \ Subtree(S)
         /\ \A k \in Live' : items'[k] = items[k]
         /\ items' = [k \in Live' |-> items[k]]
         /\ DOMAIN fts' = DOMAIN fts \ Subtree(S)
         /\ \A k \in DOMAIN fts' : fts'[k] = fts[k]
         /\ fts' = [k \in DOMAIN fts' |-> fts[k]]
         /\ \A k \in DOMAIN tombstones' :
              \/ k \in S \cap Live /\ tombstones'[k] = version + 1
              \/ k \in DOMAIN tombstones /\ tombstones'[k] = tombstones[k]
         /\ tombstones' = [k \in DOMAIN tombstones' |-> tombstones'[k]]
         /\ Settled(Subtree(S), Subtree(S))
BY DEF DeleteKeys, Live, NextVersion

\* delete and empty_trash keep every table well typed.
LEMMA DeleteType ==
  ASSUME TypeOK, NEW S \in SUBSET Keys, DeleteKeys(S)
  PROVE  /\ version' \in 0 .. MaxVersion
         /\ Live' \subseteq Keys
         /\ items' \in [Live' -> ItemRow']
         /\ DOMAIN tombstones' \subseteq Keys
         /\ tombstones' \in [DOMAIN tombstones' -> 0 .. version']
         /\ DOMAIN fts' \subseteq Keys
         /\ fts' \in [DOMAIN fts' -> Texts]
         /\ unstamped' \subseteq Live' /\ unindexed' \subseteq Live'
<1>1. BumpVersion
  BY DEF DeleteKeys
<1>2. version' \in 0 .. MaxVersion /\ version' = version + 1 /\ version \in Nat
  BY <1>1, BumpType
<1>3. Live' \subseteq Live
  BY DeleteResult
<1>4. items' \in [Live' -> ItemRow']
  BY <1>1, <1>3, DeleteResult, RowsType DEF TypeOK
<1>5. tombstones' \in [DOMAIN tombstones' -> 0 .. version']
  <2>1. ASSUME NEW k \in DOMAIN tombstones' PROVE tombstones'[k] \in 0 .. version'
    <3>1. \/ tombstones'[k] = version + 1
          \/ k \in DOMAIN tombstones /\ tombstones'[k] = tombstones[k]
      BY DeleteResult
    <3> QED BY <1>2, <3>1 DEF TypeOK
  <2>2. tombstones' = [k \in DOMAIN tombstones' |-> tombstones'[k]]
    BY DeleteResult
  <2> QED BY <2>1, <2>2
<1>6. DOMAIN tombstones' \subseteq Keys
  BY DeleteResult DEF TypeOK
<1>7. DOMAIN fts' \subseteq Keys /\ fts' \in [DOMAIN fts' -> Texts]
  BY DeleteResult DEF TypeOK
<1>8. unstamped' \subseteq Live' /\ unindexed' \subseteq Live'
  BY DeleteResult DEF TypeOK, Settled
<1> QED BY <1>2, <1>3, <1>4, <1>5, <1>6, <1>7, <1>8 DEF TypeOK

\* A write that stamps its rows and leaves the tombstones alone keeps the type.
LEMMA WriteType ==
  ASSUME TypeOK, BumpVersion,
         NEW touched \in SUBSET Keys,
         Live' \subseteq Keys,
         items' = [k \in Live' |-> items'[k]],
         \A k \in Live' \ touched : k \in Live /\ items'[k] = items[k],
         \A k \in Live' \cap touched :
           /\ items'[k] \in AnyRow
           /\ items'[k].version = version + 1,
         NEW S \in SUBSET touched, fts' = Reindex(S, items'),
         Live \subseteq Live', Settled(touched, S),
         UNCHANGED <<tombstones, emptying>>
  PROVE  TypeOK'
<1>1. version' \in 0 .. MaxVersion /\ version' = version + 1 /\ version \in Nat
  BY BumpType
<1>2. items' \in [Live' -> ItemRow']
  BY RowsType
<1>3. DOMAIN fts' \subseteq Keys /\ fts' \in [DOMAIN fts' -> Texts]
  <2>1. \A k \in S \cap Live' : items'[k].text \in Texts
    BY DEF AnyRow
  <2> QED BY <2>1, ReindexType
<1>4. DOMAIN tombstones' \subseteq Keys
      /\ tombstones' \in [DOMAIN tombstones' -> 0 .. version']
  BY <1>1 DEF TypeOK
<1>5. unstamped' \subseteq Live' /\ unindexed' \subseteq Live'
  BY DEF TypeOK, Settled
<1> QED BY <1>1, <1>2, <1>3, <1>4, <1>5 DEF TypeOK

-----------------------------------------------------------------------------
\* A new library is well typed.
LEMMA TypeInit == Init => TypeOK
BY LibraryAssumption DEF Init, TypeOK, EmptyTable, Idle, Live, ItemRow

\* Every operation keeps the type: one case per operation.
LEMMA TypeStep == TypeOK /\ [Next]_vars => TypeOK'
<1> SUFFICES ASSUME TypeOK, [Next]_vars PROVE TypeOK'
  OBVIOUS
<1>0. ASSUME NEW k \in Live PROVE items[k] \in AnyRow
  BY DEF TypeOK, ItemRow, AnyRow
<1>1. ASSUME NEW S \in SUBSET Keys, NEW p \in Keys \cup {NoKey}, NEW t \in Texts,
             Create(S, p, t)
      PROVE  TypeOK'
  <2>1. version' = version + 1 /\ version \in Nat /\ BumpVersion
    BY <1>1, BumpType DEF Create
  <2>2. Live' = Live \cup S
    BY <1>1 DEF Create, Live
  <2>3. items' = [k \in Live' |-> items'[k]]
    BY <1>1, <2>2 DEF Create
  <2>4. ASSUME NEW k \in Live' \cap S
        PROVE  items'[k] \in AnyRow /\ items'[k].version = version + 1
    BY <1>1, <2>1, <2>2 DEF Create, Item, NextVersion, AnyRow
  <2>5. \A k \in Live' \ S : k \in Live /\ items'[k] = items[k]
    BY <1>1, <2>2 DEF Create
  <2>6. Live' \subseteq Keys
    BY <2>2 DEF TypeOK
  <2>7. /\ fts' = Reindex(S, items') /\ Settled(S, S)
        /\ Live \subseteq Live' /\ UNCHANGED <<tombstones, emptying>>
    BY <1>1, <2>2 DEF Create
  <2> QED BY <2>1, <2>3, <2>4, <2>5, <2>6, <2>7, WriteType
<1>2. ASSUME NEW S \in SUBSET Keys, NEW t \in Texts, NEW d \in BOOLEAN, Update(S, t, d)
      PROVE  TypeOK'
  <2>1. version' = version + 1 /\ version \in Nat /\ BumpVersion
    BY <1>2, BumpType DEF Update
  <2>2. Live' = Live
    BY <1>2 DEF Update, Live
  <2>3. items' = [k \in Live' |-> items'[k]]
    BY <1>2, <2>2 DEF Update
  <2>4. ASSUME NEW k \in Live' \cap S
        PROVE  items'[k] \in AnyRow /\ items'[k].version = version + 1
    BY <1>0, <1>2, <2>1, <2>2 DEF Update, Item, NextVersion, AnyRow
  <2>5. \A k \in Live' \ S : k \in Live /\ items'[k] = items[k]
    BY <1>2, <2>2 DEF Update
  <2>6. Live' \subseteq Keys
    BY <2>2 DEF TypeOK
  <2>7. /\ fts' = Reindex(S, items') /\ Settled(S, S)
        /\ Live \subseteq Live' /\ UNCHANGED <<tombstones, emptying>>
    BY <1>2, <2>2 DEF Update
  <2> QED BY <2>1, <2>3, <2>4, <2>5, <2>6, <2>7, WriteType
<1>3. ASSUME NEW S \in SUBSET Keys, NEW d \in BOOLEAN, SetTrashed(S, d)
      PROVE  TypeOK'
  <2> DEFINE touched == S \cup Children(S)
  <2>1. version' = version + 1 /\ version \in Nat /\ BumpVersion
    BY <1>3, BumpType DEF SetTrashed
  <2>2. Live' = Live
    BY <1>3 DEF SetTrashed, Live
  <2>3. items' = [k \in Live' |-> items'[k]]
    BY <1>3, <2>2 DEF SetTrashed
  <2>4. ASSUME NEW k \in Live' \cap touched
        PROVE  items'[k] \in AnyRow /\ items'[k].version = version + 1
    <3>1. items'[k] = [items[k] EXCEPT !.deleted = d, !.version = version + 1]
      BY <1>3, <2>2 DEF SetTrashed, NextVersion
    <3>2. items[k] \in AnyRow
      BY <1>0, <2>2
    <3>3. items'[k] = Item(items[k].parent, d, items[k].text, version + 1)
      BY <3>1, <3>2 DEF AnyRow, Item
    <3> QED BY <2>1, <3>2, <3>3 DEF AnyRow, Item
  <2>5. \A k \in Live' \ touched : k \in Live /\ items'[k] = items[k]
    BY <1>3, <2>2 DEF SetTrashed
  <2>6. Live' \subseteq Keys /\ touched \subseteq Keys
    BY <2>2 DEF TypeOK, Children
  <2>7. /\ fts' = Reindex(touched, items') /\ Settled(touched, touched)
        /\ Live \subseteq Live' /\ UNCHANGED <<tombstones, emptying>>
    BY <1>3, <2>2 DEF SetTrashed
  <2> HIDE DEF touched
  <2> QED BY <2>1, <2>3, <2>4, <2>5, <2>6, <2>7, WriteType
<1>4. ASSUME NEW m \in Keys, NEW S \in SUBSET Keys, NEW t \in Texts, Merge(m, S, t)
      PROVE  TypeOK'
  <2> DEFINE moved   == Children(S)
             touched == moved \cup S \cup {m}
  <2>1. version' = version + 1 /\ version \in Nat /\ BumpVersion
    BY <1>4, BumpType DEF Merge
  <2>2. Live' = Live
    BY <1>4 DEF Merge, Live
  <2>3. items' = [k \in Live' |-> items'[k]]
    BY <1>4, <2>2 DEF Merge
  <2>4. ASSUME NEW k \in Live' \cap touched
        PROVE  items'[k] \in AnyRow /\ items'[k].version = version + 1
    <3>1. items'[k] = Item(IF k \in moved THEN m ELSE items[k].parent,
                           k \in S \/ items[k].deleted,
                           IF k = m THEN t ELSE items[k].text,
                           version + 1)
      BY <1>4, <2>2 DEF Merge, NextVersion
    <3>2. items[k] \in AnyRow
      BY <1>0, <2>2
    <3> HIDE DEF moved
    <3> QED BY <2>1, <3>1, <3>2 DEF AnyRow, Item
  <2>5. \A k \in Live' \ touched : k \in Live /\ items'[k] = items[k]
    BY <1>4, <2>2 DEF Merge
  <2>6. Live' \subseteq Keys /\ touched \subseteq Keys /\ {m} \subseteq touched
    BY <2>2 DEF TypeOK, Children
  <2>7. /\ fts' = Reindex({m}, items') /\ Settled(touched, {m})
        /\ Live \subseteq Live' /\ UNCHANGED <<tombstones, emptying>>
    BY <1>4, <2>2 DEF Merge
  <2> HIDE DEF touched
  <2> QED BY <2>1, <2>3, <2>4, <2>5, <2>6, <2>7, WriteType
<1>5. ASSUME NEW S \in SUBSET Keys, Delete(S) PROVE TypeOK'
  <2>1. DeleteKeys(S) /\ UNCHANGED emptying
    BY <1>5 DEF Delete
  <2> QED BY <2>1, DeleteType DEF TypeOK
<1>9. ASSUME NEW S \in SUBSET Keys, NEW f \in Changes, Refile(S, f) PROVE TypeOK'
  <2>1. version' = version + 1 /\ version \in Nat /\ BumpVersion
        /\ version' \in 0 .. MaxVersion
    BY <1>9, BumpType DEF Refile
  <2>2. Live' = Live
    BY <1>9 DEF Refile, Live
  <2>3. items' = [k \in Live' |-> items'[k]]
    BY <1>9, <2>2 DEF Refile
  <2>4. ASSUME NEW k \in Live' \cap S
        PROVE  items'[k] \in AnyRow /\ items'[k].version = version + 1
    <3>1. items'[k] = [items[k] EXCEPT !.text = f[items[k].text], !.version = version + 1]
      BY <1>9, <2>2 DEF Refile, NextVersion
    <3>2. items[k] \in AnyRow /\ f[items[k].text] \in Texts
      BY <1>0, <2>2 DEF AnyRow, Changes
    <3>3. items'[k] = Item(items[k].parent, items[k].deleted, f[items[k].text], version + 1)
      BY <3>1, <3>2 DEF AnyRow, Item
    <3> QED BY <2>1, <3>2, <3>3 DEF AnyRow, Item
  <2>5. \A k \in Live' \ S : k \in Live /\ items'[k] = items[k]
    BY <1>9, <2>2 DEF Refile
  <2>6. Live' \subseteq Keys
    BY <2>2 DEF TypeOK
  <2>7. items' \in [Live' -> ItemRow']
    BY <2>1, <2>3, <2>4, <2>5, <2>6, RowsType
  <2>8. UNCHANGED <<tombstones, fts, emptying>> /\ Settled(S, {})
    BY <1>9 DEF Refile
  <2>9. tombstones' \in [DOMAIN tombstones' -> 0 .. version']
    BY <2>1, <2>8 DEF TypeOK
  <2>10. unstamped' \subseteq Live' /\ unindexed' \subseteq Live'
    BY <2>2, <2>8 DEF TypeOK, Settled
  <2> QED BY <2>1, <2>6, <2>7, <2>8, <2>9, <2>10 DEF TypeOK
<1>10. ASSUME NEW f \in Changes, Relabel(f) PROVE TypeOK'
  <2>1. version' = version + 1 /\ version \in Nat /\ version' \in 0 .. MaxVersion
    BY <1>10, BumpType DEF Relabel
  <2>2. Live' = Live /\ UNCHANGED <<tombstones, fts, emptying>>
    BY <1>10 DEF Relabel, Live
  <2>3. ASSUME NEW k \in Live PROVE items'[k] \in ItemRow'
    <3>1. items'[k] = [items[k] EXCEPT !.text = f[items[k].text]]
      BY <1>10 DEF Relabel
    <3>2. items[k] \in ItemRow /\ f[items[k].text] \in Texts
      BY DEF TypeOK, ItemRow, Changes
    <3> QED BY <2>1, <3>1, <3>2 DEF ItemRow
  <2>4. items' \in [Live' -> ItemRow']
    BY <1>10, <2>2, <2>3 DEF Relabel
  <2>5. tombstones' \in [DOMAIN tombstones' -> 0 .. version']
    BY <2>1, <2>2 DEF TypeOK
  <2>6. unstamped' \subseteq Live' /\ unindexed' \subseteq Live'
    BY <1>10, <2>2 DEF Relabel, TypeOK
  <2> QED BY <2>1, <2>2, <2>4, <2>5, <2>6 DEF TypeOK
<1>6. CASE ListTrash
  <2>1. Trash \subseteq Keys
    BY DEF TypeOK, Trash
  <2>2. emptying' \in [listing : BOOLEAN, listed : SUBSET Keys]
    BY <1>6, <2>1 DEF ListTrash
  <2>3. UNCHANGED <<items, version, tombstones, fts, unstamped, unindexed>>
    BY <1>6 DEF ListTrash
  <2> QED BY <2>2, <2>3 DEF TypeOK, Live, ItemRow
<1>7. CASE EmptyTrash
  <2>1. emptying' \in [listing : BOOLEAN, listed : SUBSET Keys]
    BY <1>7 DEF EmptyTrash, Idle
  <2>2. CASE DeleteKeys(emptying.listed)
    <3>1. emptying.listed \in SUBSET Keys
      BY DEF TypeOK
    <3> QED BY <2>1, <2>2, <3>1, DeleteType DEF TypeOK
  <2>3. CASE UNCHANGED <<items, version, tombstones, fts, unstamped, unindexed>>
    BY <2>1, <2>3 DEF TypeOK, Live, ItemRow
  <2> QED BY <1>7, <2>2, <2>3 DEF EmptyTrash
<1>8. CASE UNCHANGED vars
  BY <1>8 DEF vars, TypeOK, Live, ItemRow
<1> QED BY <1>1, <1>2, <1>3, <1>4, <1>5, <1>6, <1>7, <1>8, <1>9, <1>10 DEF Next

\* Every operation of the store leaves well-typed tables, in which no row and
\* no tombstone is ahead of the library version.
THEOREM TypeCorrect == Spec => []TypeOK
BY TypeInit, TypeStep, PTL DEF Spec

-----------------------------------------------------------------------------
\* A row that was changed by a name alone, which its history remembers.
Renamed(k) ==
  k \in unstamped' /\ items'[k] = [items[k] EXCEPT !.text = items'[k].text]

\* What any step does: a row carries the new version, or is as it was but for
\* a name; and a tombstone is as it was or is that of a key that the step
\* deleted.
RowsStamped ==
  \A k \in Live' :
    \/ /\ k \in Live /\ (k \in unstamped => k \in unstamped')
       /\ items'[k] = items[k] \/ Renamed(k)
    \/ version' = version + 1 /\ items'[k].version = version + 1

TombstonesOfTheGone ==
  \A k \in DOMAIN tombstones' :
    \/ k \in DOMAIN tombstones /\ tombstones'[k] = tombstones[k]
    \/ k \notin Live'

\* delete changes no row that remains, and every tombstone it writes is of a
\* key that is gone.
LEMMA DeleteStamps ==
  ASSUME TypeOK, NEW S \in SUBSET Keys, DeleteKeys(S)
  PROVE  RowsStamped /\ TombstonesOfTheGone
<1>1. RowsStamped
  BY DeleteResult DEF RowsStamped, Settled
<1>2. S \cap Live \subseteq Subtree(S)
  BY SubtreeClosed
<1>3. Live' = Live \ Subtree(S)
  BY DeleteResult
<1>4. ASSUME NEW k \in DOMAIN tombstones'
      PROVE  \/ k \in DOMAIN tombstones /\ tombstones'[k] = tombstones[k]
             \/ k \notin Live'
  <2>1. \/ k \in S \cap Live
        \/ k \in DOMAIN tombstones /\ tombstones'[k] = tombstones[k]
    BY DeleteResult
  <2> QED BY <1>2, <1>3, <2>1
<1> QED BY <1>1, <1>4 DEF TombstonesOfTheGone

\* So does every operation: what it changes in a row it stamps with the new
\* version, and a tombstone is only ever written for a key that is gone.
LEMMA StepStamps ==
  ASSUME TypeOK, [Next]_vars
  PROVE  RowsStamped /\ TombstonesOfTheGone
<1>0. ASSUME UNCHANGED <<items, version, tombstones, fts, unstamped, unindexed>>
      PROVE  RowsStamped /\ TombstonesOfTheGone
  BY <1>0 DEF RowsStamped, TombstonesOfTheGone, Live
<1>1. ASSUME NEW S \in SUBSET Keys, NEW p \in Keys \cup {NoKey}, NEW t \in Texts,
             Create(S, p, t)
      PROVE  RowsStamped /\ TombstonesOfTheGone
  BY <1>1 DEF Create, BumpVersion, NextVersion, Item, Live, Settled, RowsStamped, TombstonesOfTheGone
<1>2. ASSUME NEW S \in SUBSET Keys, NEW t \in Texts, NEW d \in BOOLEAN, Update(S, t, d)
      PROVE  RowsStamped /\ TombstonesOfTheGone
  BY <1>2 DEF Update, BumpVersion, NextVersion, Item, Live, Settled, RowsStamped, TombstonesOfTheGone
<1>3. ASSUME NEW S \in SUBSET Keys, NEW d \in BOOLEAN, SetTrashed(S, d)
      PROVE  RowsStamped /\ TombstonesOfTheGone
  <2>1. \A k \in Live : items[k] \in ItemRow
    BY DEF TypeOK
  <2>2. \A k \in Live' : k \in Live /\ items'[k] =
           IF k \in S \cup Children(S)
           THEN [items[k] EXCEPT !.deleted = d, !.version = version + 1]
           ELSE items[k]
    BY <1>3 DEF SetTrashed, NextVersion, Live
  <2>3. ASSUME NEW k \in Live, k \in Live', k \in S \cup Children(S)
        PROVE  items'[k].version = version + 1
    BY <2>1, <2>2, <2>3 DEF ItemRow
  <2>4. version' = version + 1 /\ tombstones' = tombstones
        /\ unstamped' = unstamped \ (S \cup Children(S))
    BY <1>3 DEF SetTrashed, BumpVersion, NextVersion, Settled
  <2> QED BY <2>2, <2>3, <2>4 DEF RowsStamped, TombstonesOfTheGone
<1>4. ASSUME NEW m \in Keys, NEW S \in SUBSET Keys, NEW t \in Texts, Merge(m, S, t)
      PROVE  RowsStamped /\ TombstonesOfTheGone
  BY <1>4 DEF Merge, BumpVersion, NextVersion, Item, Live, Settled, RowsStamped, TombstonesOfTheGone
<1>5. ASSUME NEW S \in SUBSET Keys, Delete(S)
      PROVE  RowsStamped /\ TombstonesOfTheGone
  BY <1>5, DeleteStamps DEF Delete
<1>9. ASSUME NEW S \in SUBSET Keys, NEW f \in Changes, Refile(S, f)
      PROVE  RowsStamped /\ TombstonesOfTheGone
  <2>1. \A k \in Live : items[k] \in ItemRow
    BY DEF TypeOK
  <2>2. \A k \in Live' : k \in Live /\ items'[k] =
           IF k \in S
           THEN [items[k] EXCEPT !.text = f[items[k].text], !.version = version + 1]
           ELSE items[k]
    BY <1>9 DEF Refile, NextVersion, Live
  <2>3. \A k \in Live' \cap S : items'[k].version = version + 1
    BY <2>1, <2>2 DEF ItemRow
  <2>4. version' = version + 1 /\ tombstones' = tombstones /\ unstamped' = unstamped \ S
    BY <1>9 DEF Refile, BumpVersion, NextVersion, Settled
  <2> QED BY <2>2, <2>3, <2>4 DEF RowsStamped, TombstonesOfTheGone
<1>10. ASSUME NEW f \in Changes, Relabel(f)
       PROVE  RowsStamped /\ TombstonesOfTheGone
  <2>1. Live' = Live /\ tombstones' = tombstones
    BY <1>10 DEF Relabel, Live
  <2>2. unstamped' = unstamped \cup {k \in Live : items'[k] # items[k]}
    BY <1>10 DEF Relabel
  <2>3. ASSUME NEW k \in Live, items'[k] # items[k] PROVE Renamed(k)
    <3>1. items'[k] = [items[k] EXCEPT !.text = f[items[k].text]]
      BY <1>10 DEF Relabel
    <3>2. items[k] \in ItemRow
      BY DEF TypeOK
    <3>3. items'[k].text = f[items[k].text]
      BY <3>1, <3>2 DEF ItemRow
    <3> QED BY <2>2, <2>3, <3>1, <3>3 DEF Renamed
  <2> QED BY <2>1, <2>2, <2>3 DEF RowsStamped, TombstonesOfTheGone
<1>6. ASSUME ListTrash PROVE RowsStamped /\ TombstonesOfTheGone
  BY <1>0, <1>6 DEF ListTrash
<1>7. ASSUME EmptyTrash PROVE RowsStamped /\ TombstonesOfTheGone
  <2>1. emptying.listed \in SUBSET Keys
    BY DEF TypeOK
  <2> QED BY <1>0, <1>7, <2>1, DeleteStamps DEF EmptyTrash
<1>8. ASSUME UNCHANGED vars PROVE RowsStamped /\ TombstonesOfTheGone
  BY <1>0, <1>8 DEF vars
<1> QED BY <1>1, <1>2, <1>3, <1>4, <1>5, <1>6, <1>7, <1>8, <1>9, <1>10 DEF Next

\* A name leaves the version of a row alone.
LEMMA SameVersion ==
  ASSUME TypeOK, NEW k \in Live, items'[k] = items[k] \/ Renamed(k)
  PROVE  items'[k].version = items[k].version
<1>1. items[k] \in ItemRow
  BY DEF TypeOK
<1> QED BY <1>1 DEF Renamed, ItemRow

\* bump_version: no write changes an item and keeps its version, but one that
\* renames or deletes a tag or collection the item carries; that one leaves
\* everything of the item alone but what it says.
THEOREM VersionsCorrect == Spec => ChangesAreVersioned
<1>1. ASSUME TypeOK, [Next]_vars
      PROVE  \A k \in Live \cap Live' :
               items'[k] # items[k] =>
                 \/ items'[k].version > items[k].version /\ items'[k].version = version'
                 \/ k \in unstamped' /\ items'[k] = [items[k] EXCEPT !.text = items'[k].text]
  <2> SUFFICES ASSUME NEW k \in Live \cap Live', items'[k] # items[k], ~Renamed(k)
               PROVE  items'[k].version > items[k].version /\ items'[k].version = version'
    BY DEF Renamed
  <2>1. version' = version + 1 /\ items'[k].version = version + 1
    BY <1>1, StepStamps DEF RowsStamped
  <2>2. items[k].version \in 0 .. version /\ version \in Nat
    BY <1>1, LibraryAssumption DEF TypeOK, ItemRow
  <2> QED BY <2>1, <2>2
<1> QED BY <1>1, TypeCorrect, PTL DEF Spec, ChangesAreVersioned

\* delete, and an import that brings a key back: the item is newer than its
\* tombstone, in every history of deletions and re-creations.
THEOREM TombstonesCorrect == Spec => []TombstonesPrecedeRebirth
<1>1. Init => TombstonesPrecedeRebirth
  BY DEF Init, EmptyTable, TombstonesPrecedeRebirth
<1>2. TypeOK /\ TombstonesPrecedeRebirth /\ [Next]_vars => TombstonesPrecedeRebirth'
  <2> SUFFICES ASSUME TypeOK, TombstonesPrecedeRebirth, [Next]_vars,
                      NEW k \in Live' \cap DOMAIN tombstones'
               PROVE  tombstones'[k] < items'[k].version
    BY DEF TombstonesPrecedeRebirth
  <2>1. k \in DOMAIN tombstones /\ tombstones'[k] = tombstones[k]
    BY StepStamps DEF TombstonesOfTheGone
  <2>2. tombstones[k] \in 0 .. version /\ version \in Nat
    BY <2>1, LibraryAssumption DEF TypeOK
  <2>3. CASE k \in Live /\ (items'[k] = items[k] \/ Renamed(k))
    <3>1. items'[k].version = items[k].version
      BY <2>3, SameVersion
    <3> QED BY <2>1, <2>3, <3>1 DEF TombstonesPrecedeRebirth
  <2>4. CASE items'[k].version = version + 1
    BY <2>1, <2>2, <2>4
  <2> QED BY <2>3, <2>4, StepStamps DEF RowsStamped
<1> QED BY <1>1, <1>2, TypeCorrect, PTL DEF Spec

-----------------------------------------------------------------------------
\* A write that changes only rows of touched and reindexes those, and a row it
\* does not reindex ends in the trash or has its text and flag as before.
LEMMA WriteIndexes ==
  ASSUME IndexCurrent, NEW S, fts' = Reindex(S, items'),
         NEW stamped, Settled(stamped, S),
         Live \subseteq Live',
         \A k \in Live' \ S : k \in Live /\ (~items'[k].deleted =>
            ~items[k].deleted /\ items'[k].text = items[k].text)
  PROVE  IndexCurrent'
<1> USE DEF Live
<1>1. DOMAIN fts' \subseteq Live'
  BY ReindexResult DEF IndexCurrent
<1>2. ASSUME NEW k \in Live', ~items'[k].deleted
      PROVE  k \in DOMAIN fts' /\
               (k \notin unindexed' => Words[fts'[k]] = Words[items'[k].text])
  <2>1. CASE k \in S
    BY <1>2, <2>1, ReindexResult
  <2>2. CASE k \notin S
    <3>1. k \in Live \ Trash /\ items'[k].text = items[k].text
      BY <1>2, <2>2 DEF Trash
    <3>2. k \notin unindexed' => k \notin unindexed
      BY <2>2 DEF Settled
    <3> QED BY <2>2, <3>1, <3>2, ReindexResult DEF IndexCurrent
  <2> QED BY <2>1, <2>2
<1> QED BY <1>1, <1>2 DEF IndexCurrent, Trash

\* delete takes the full-text rows of all that the cascade takes, and no other.
LEMMA DeleteIndexes ==
  ASSUME TypeOK, IndexCurrent, NEW S \in SUBSET Keys, DeleteKeys(S)
  PROVE  IndexCurrent'
<1>1. DOMAIN fts' \subseteq Live'
  BY DeleteResult DEF IndexCurrent
<1>2. ASSUME NEW k \in Live', ~items'[k].deleted
      PROVE  k \in DOMAIN fts' /\
               (k \notin unindexed' => Words[fts'[k]] = Words[items'[k].text])
  <2>1. k \in Live /\ k \notin Subtree(S) /\ items'[k] = items[k]
    BY DeleteResult
  <2>2. k \in DOMAIN fts /\ (k \notin unindexed => Words[fts[k]] = Words[items[k].text])
    BY <1>2, <2>1 DEF IndexCurrent, Trash
  <2>3. k \notin unindexed' => k \notin unindexed
    BY <2>1, DeleteResult DEF Settled
  <2> QED BY <2>1, <2>2, <2>3, DeleteResult
<1> QED BY <1>1, <1>2 DEF IndexCurrent, Trash

\* Every write but a renaming leaves the full-text tables in step with the
\* items, though merge reindexes the master alone and deletion leaves it to a
\* cascade and a trigger.
THEOREM IndexCorrect == Spec => []IndexCurrent
<1>1. Init => IndexCurrent
  BY DEF Init, EmptyTable, IndexCurrent, Live
<1>2. TypeOK /\ IndexCurrent /\ [Next]_vars => IndexCurrent'
  <2> SUFFICES ASSUME TypeOK, IndexCurrent, [Next]_vars PROVE IndexCurrent'
    OBVIOUS
  <2>0. ASSUME UNCHANGED <<items, fts, unindexed>> PROVE IndexCurrent'
    BY <2>0 DEF IndexCurrent, Live, Trash
  <2>1. ASSUME NEW S \in SUBSET Keys, NEW p \in Keys \cup {NoKey}, NEW t \in Texts,
               Create(S, p, t)
        PROVE  IndexCurrent'
    <3>1. /\ Live \subseteq Live' /\ fts' = Reindex(S, items') /\ Settled(S, S)
          /\ \A k \in Live' \ S : k \in Live /\ items'[k] = items[k]
      BY <2>1 DEF Create, Live
    <3> QED BY <3>1, WriteIndexes
  <2>2. ASSUME NEW S \in SUBSET Keys, NEW t \in Texts, NEW d \in BOOLEAN, Update(S, t, d)
        PROVE  IndexCurrent'
    <3>1. /\ Live \subseteq Live' /\ fts' = Reindex(S, items') /\ Settled(S, S)
          /\ \A k \in Live' \ S : k \in Live /\ items'[k] = items[k]
      BY <2>2 DEF Update, Live
    <3> QED BY <3>1, WriteIndexes
  <2>3. ASSUME NEW S \in SUBSET Keys, NEW d \in BOOLEAN, SetTrashed(S, d)
        PROVE  IndexCurrent'
    <3> DEFINE touched == S \cup Children(S)
    <3>1. /\ Live \subseteq Live' /\ fts' = Reindex(touched, items') /\ Settled(touched, touched)
          /\ \A k \in Live' \ touched : k \in Live /\ items'[k] = items[k]
      BY <2>3 DEF SetTrashed, Live
    <3> HIDE DEF touched
    <3> QED BY <3>1, WriteIndexes
  <2>4. ASSUME NEW m \in Keys, NEW S \in SUBSET Keys, NEW t \in Texts, Merge(m, S, t)
        PROVE  IndexCurrent'
    <3>1. Live \subseteq Live' /\ fts' = Reindex({m}, items')
          /\ Settled(Children(S) \cup S \cup {m}, {m})
      BY <2>4 DEF Merge, Live
    <3>2. ASSUME NEW k \in Live' \ {m}
          PROVE  k \in Live /\ (~items'[k].deleted =>
                   ~items[k].deleted /\ items'[k].text = items[k].text)
      BY <2>4, <3>2 DEF Merge, Live, Item
    <3> QED BY <3>1, <3>2, WriteIndexes
  <2>5. ASSUME NEW S \in SUBSET Keys, Delete(S) PROVE IndexCurrent'
    BY <2>5, DeleteIndexes DEF Delete
  <2>9. ASSUME NEW S \in SUBSET Keys, NEW f \in Changes, Refile(S, f) PROVE IndexCurrent'
    <3>1. Live' = Live /\ fts' = fts /\ unindexed' = unindexed
      BY <2>9 DEF Refile, Live, Settled
    <3>2. ASSUME NEW k \in Live
          PROVE  Words[items'[k].text] = Words[items[k].text]
                 /\ items'[k].deleted = items[k].deleted
      <4>1. items[k] \in ItemRow
        BY DEF TypeOK
      <4>2. items'[k] = IF k \in S
                        THEN [items[k] EXCEPT !.text = f[items[k].text],
                                              !.version = NextVersion]
                        ELSE items[k]
        BY <2>9 DEF Refile
      <4>3. Words[f[items[k].text]] = Words[items[k].text]
        BY <2>9, <4>1 DEF Refile, ItemRow
      <4> QED BY <4>1, <4>2, <4>3 DEF ItemRow
    <3> QED BY <3>1, <3>2 DEF IndexCurrent, Trash
  <2>10. ASSUME NEW f \in Changes, Relabel(f) PROVE IndexCurrent'
    <3>1. Live' = Live /\ fts' = fts
      BY <2>10 DEF Relabel, Live
    <3>2. ASSUME NEW k \in Live
          PROVE  /\ items'[k].deleted = items[k].deleted
                 /\ k \notin unindexed' => k \notin unindexed /\
                                           Words[items'[k].text] = Words[items[k].text]
      <4>1. items[k] \in ItemRow
        BY DEF TypeOK
      <4>2. items'[k] = [items[k] EXCEPT !.text = f[items[k].text]]
        BY <2>10 DEF Relabel
      <4>3. items'[k].deleted = items[k].deleted
        BY <4>1, <4>2 DEF ItemRow
      <4> QED BY <2>10, <4>3 DEF Relabel
    <3> QED BY <3>1, <3>2 DEF IndexCurrent, Trash
  <2>6. CASE ListTrash
    BY <2>0, <2>6 DEF ListTrash
  <2>7. CASE EmptyTrash
    <3>1. emptying.listed \in SUBSET Keys
      BY DEF TypeOK
    <3> QED BY <2>0, <2>7, <3>1, DeleteIndexes DEF EmptyTrash
  <2>8. CASE UNCHANGED vars
    BY <2>0, <2>8 DEF vars
  <2> QED BY <2>1, <2>2, <2>3, <2>4, <2>5, <2>6, <2>7, <2>8, <2>9, <2>10 DEF Next
<1> QED BY <1>1, <1>2, TypeCorrect, PTL DEF Spec

-----------------------------------------------------------------------------
\* What remains after a delete has its parents: the cascade takes whole
\* subtrees.
LEMMA DeleteKeepsParents ==
  ASSUME TypeOK, NoOrphans, NEW S \in SUBSET Keys, DeleteKeys(S)
  PROVE  NoOrphans'
<1> SUFFICES ASSUME NEW k \in Live' PROVE items'[k].parent \in Live' \cup {NoKey}
  BY DEF NoOrphans
<1>1. k \in Live /\ k \notin Subtree(S) /\ items'[k] = items[k]
  BY DeleteResult
<1>2. items[k].parent \notin Subtree(S)
  BY <1>1, SubtreeClosed DEF Children
<1> QED BY <1>1, <1>2, DeleteResult DEF NoOrphans

\* Whatever is created, moved by a merge and deleted, in any order, no item is
\* left without its parent.
THEOREM ForestCorrect == Spec => []NoOrphans
<1>1. Init => NoOrphans
  BY DEF Init, EmptyTable, NoOrphans, Live
<1>2. TypeOK /\ NoOrphans /\ [Next]_vars => NoOrphans'
  <2> SUFFICES ASSUME TypeOK, NoOrphans, [Next]_vars PROVE NoOrphans'
    OBVIOUS
  <2>0. ASSUME UNCHANGED items PROVE NoOrphans'
    BY <2>0 DEF NoOrphans, Live
  <2>1. ASSUME NEW S \in SUBSET Keys, NEW p \in Keys \cup {NoKey}, NEW t \in Texts,
               Create(S, p, t)
        PROVE  NoOrphans'
    BY <2>1 DEF Create, Item, NoOrphans, Live
  <2>2. ASSUME NEW S \in SUBSET Keys, NEW t \in Texts, NEW d \in BOOLEAN, Update(S, t, d)
        PROVE  NoOrphans'
    BY <2>2 DEF Update, Item, NoOrphans, Live
  <2>3. ASSUME NEW S \in SUBSET Keys, NEW d \in BOOLEAN, SetTrashed(S, d)
        PROVE  NoOrphans'
    <3>1. Live' = Live
      BY <2>3 DEF SetTrashed, Live
    <3>2. ASSUME NEW k \in Live PROVE items'[k].parent = items[k].parent
      <4>1. items[k] \in ItemRow
        BY DEF TypeOK
      <4> QED BY <2>3, <4>1 DEF SetTrashed, ItemRow
    <3> QED BY <3>1, <3>2 DEF NoOrphans
  <2>4. ASSUME NEW m \in Keys, NEW S \in SUBSET Keys, NEW t \in Texts, Merge(m, S, t)
        PROVE  NoOrphans'
    BY <2>4 DEF Merge, Item, NoOrphans, Live
  <2>5. ASSUME NEW S \in SUBSET Keys, Delete(S) PROVE NoOrphans'
    BY <2>5, DeleteKeepsParents DEF Delete
  <2>9. ASSUME NEW S \in SUBSET Keys, NEW f \in Changes, Refile(S, f) \/ Relabel(f)
        PROVE  NoOrphans'
    <3>1. Live' = Live
      BY <2>9 DEF Refile, Relabel, Live
    <3>2. ASSUME NEW k \in Live PROVE items'[k].parent = items[k].parent
      <4>1. items[k] \in ItemRow
        BY DEF TypeOK
      <4> QED BY <2>9, <4>1 DEF Refile, Relabel, ItemRow
    <3> QED BY <3>1, <3>2 DEF NoOrphans
  <2>10. ASSUME NEW f \in Changes, Relabel(f) PROVE NoOrphans'
    BY <2>10, <2>9
  <2>6. CASE ListTrash
    BY <2>0, <2>6 DEF ListTrash
  <2>7. CASE EmptyTrash
    <3>1. emptying.listed \in SUBSET Keys
      BY DEF TypeOK
    <3> QED BY <2>0, <2>7, <3>1, DeleteKeepsParents DEF EmptyTrash
  <2>8. CASE UNCHANGED vars
    BY <2>0, <2>8 DEF vars
  <2> QED BY <2>1, <2>2, <2>3, <2>4, <2>5, <2>6, <2>7, <2>8, <2>9, <2>10 DEF Next
<1> QED BY <1>1, <1>2, TypeCorrect, PTL DEF Spec

-----------------------------------------------------------------------------
\* A row that matched its item matches it still, while no write stamps it.
LEMMA MatchesStill ==
  ASSUME TypeOK, NEW k \in Live, k \in unstamped => k \in unstamped',
         items'[k] = items[k] \/ Renamed(k), NEW row, Matches(k, row)
  PROVE  row = IF k \in unstamped' THEN [items'[k] EXCEPT !.text = row.text] ELSE items'[k]
<1>1. items[k] \in ItemRow
  BY DEF TypeOK
<1>2. row = IF k \in unstamped THEN [items[k] EXCEPT !.text = row.text] ELSE items[k]
  BY DEF Matches
<1>3. row = [items[k] EXCEPT !.text = row.text]
  BY <1>1, <1>2 DEF ItemRow
<1>4. CASE items'[k] = items[k]
  BY <1>2, <1>3, <1>4
<1>5. CASE Renamed(k)
  <2>1. k \in unstamped' /\ items'[k] = [items[k] EXCEPT !.text = items'[k].text]
    BY <1>5 DEF Renamed
  <2>2. [items'[k] EXCEPT !.text = row.text] = [items[k] EXCEPT !.text = row.text]
    BY <1>1, <2>1 DEF ItemRow
  <2> QED BY <1>3, <2>1, <2>2
<1> QED BY <1>4, <1>5

\* An item as it is now matches itself.
LEMMA MatchesNow ==
  ASSUME TypeOK, NEW k \in Live
  PROVE  Matches(k, items[k])
<1>1. items[k] \in ItemRow
  BY DEF TypeOK
<1> QED BY <1>1 DEF Matches, ItemRow

\* What an editor holds is the item, or the item has a later version.
DraftHolds(e) ==
  draft[e].open =>
    /\ draft[e].key \in Keys
    /\ draft[e].base.version \in 0 .. version
    /\ draft[e].key \in Live /\ items[draft[e].key].version = draft[e].base.version
         => Matches(draft[e].key, draft[e].base)

EditInv ==
  /\ TypeOK
  /\ DOMAIN draft = Editors
  /\ \A e \in Editors : DraftHolds(e)

\* Saving is an update of the store.
LEMMA SaveIsUpdate ==
  ASSUME EditInv, NEW e \in Editors, NEW t \in Texts, Save(e, t)
  PROVE  Next
<1>1. draft[e].key \in Keys /\ draft[e].key \in Live
  BY DEF EditInv, DraftHolds, Save, Unmodified
<1>2. items[draft[e].key].deleted \in BOOLEAN
  BY <1>1 DEF EditInv, TypeOK, ItemRow
<1>3. Update({draft[e].key}, t, items[draft[e].key].deleted)
  BY DEF Save
<1> QED BY <1>1, <1>2, <1>3 DEF Next

\* Every step of an editor is a step of the store, or leaves it as it is.
LEMMA StepOfStore ==
  ASSUME EditInv, [EditNext]_editVars
  PROVE  [Next]_vars
BY SaveIsUpdate DEF EditNext, editVars, vars, Open, Refuse

\* A draft stays what its item is, or the version of the item moves past it.
LEMMA EditStep == EditInv /\ [EditNext]_editVars => EditInv'
<1> SUFFICES ASSUME EditInv, [EditNext]_editVars PROVE EditInv'
  OBVIOUS
<1>1. [Next]_vars
  BY StepOfStore
<1>2. TypeOK /\ TypeOK'
  BY <1>1, TypeStep DEF EditInv
<1>3. RowsStamped
  BY <1>1, <1>2, StepStamps
<1>4. version \in Nat /\ version' \in Nat /\ version <= version'
  <2>1. version' = version \/ version' = version + 1
    BY <1>1 DEF Next, vars, Create, Update, SetTrashed, Merge, Refile, Relabel, Delete, DeleteKeys,
                ListTrash, EmptyTrash, BumpVersion, NextVersion
  <2>2. version \in Nat /\ version' \in Nat
    BY <1>2, LibraryAssumption DEF TypeOK
  <2> QED BY <2>1, <2>2
<1>5. DOMAIN draft' = Editors
  BY DEF EditInv, EditNext, editVars, Open, Save, Refuse
<1>6. ASSUME NEW e \in Editors PROVE DraftHolds(e)'
  <2>1. CASE draft'[e] = draft[e]
    <3> SUFFICES ASSUME draft[e].open PROVE DraftHolds(e)'
      BY <2>1 DEF DraftHolds
    <3>1. /\ draft[e].key \in Keys /\ draft[e].base.version \in 0 .. version
          /\ draft[e].key \in Live /\ items[draft[e].key].version = draft[e].base.version
               => Matches(draft[e].key, draft[e].base)
      BY DEF EditInv, DraftHolds
    <3>2. draft[e].base.version \in 0 .. version' /\ draft[e].base.version # version + 1
      BY <1>4, <3>1
    <3>3. ASSUME draft[e].key \in Live', items'[draft[e].key].version = draft[e].base.version
          PROVE  Matches(draft[e].key, draft[e].base)'
      <4> DEFINE k   == draft[e].key
                 row == draft[e].base
      <4>1. /\ k \in Live /\ (k \in unstamped => k \in unstamped')
            /\ items'[k] = items[k] \/ Renamed(k)
        BY <1>3, <3>2, <3>3 DEF RowsStamped
      <4>2. items[k].version = row.version
        BY <1>2, <3>3, <4>1, SameVersion
      <4>3. row = IF k \in unstamped' THEN [items'[k] EXCEPT !.text = row.text] ELSE items'[k]
        BY <1>2, <3>1, <4>1, <4>2, MatchesStill
      <4>4. draft'[e].key = k /\ draft'[e].base = row
        BY <2>1
      <4> QED BY <4>3, <4>4 DEF Matches
    <3> QED BY <2>1, <3>1, <3>2, <3>3 DEF DraftHolds, Live
  <2>2. ASSUME NEW k \in Keys, Open(e, k) PROVE DraftHolds(e)'
    <3>1. draft'[e] = [open |-> TRUE, key |-> k, base |-> items[k]] /\ k \in Live
      BY <2>2 DEF Open, EditInv
    <3>2. UNCHANGED <<items, version, unstamped>>
      BY <2>2 DEF Open, vars
    <3>3. items[k].version \in 0 .. version /\ Matches(k, items[k])
      BY <1>2, <3>1, MatchesNow DEF TypeOK, ItemRow
    <3> QED BY <3>1, <3>2, <3>3 DEF DraftHolds, Live, Matches
  <2>3. CASE draft'[e] = Closed
    BY <2>3 DEF DraftHolds, Closed
  <2>4. \/ draft'[e] = draft[e]
        \/ draft'[e] = Closed
        \/ \E k \in Keys : Open(e, k)
    BY DEF EditInv, EditNext, editVars, Open, Save, Refuse
  <2> QED BY <2>1, <2>2, <2>3, <2>4
<1> QED BY <1>2, <1>5, <1>6 DEF EditInv

\* The invariant of the drafts holds in every behaviour.
LEMMA EditInvariance == EditSpec => []EditInv
<1>1. EditInit => EditInv
  BY TypeInit DEF EditInit, EditInv, DraftHolds, Closed
<1> QED BY <1>1, EditStep, PTL DEF EditSpec

\* A save that is accepted finds its item as its draft was made of it.
LEMMA SavesSee == EditInv => SavesWhatWasSeen
<1> SUFFICES ASSUME EditInv, NEW e \in Editors, NEW t \in Texts, Save(e, t)
             PROVE  Matches(draft[e].key, draft[e].base)
  BY DEF SavesWhatWasSeen
<1> QED
  BY DEF EditInv, DraftHolds, Save, Unmodified

\* apply_update with If-Unmodified-Since-Version: whatever trashing, moving,
\* merging, deleting and re-creating happens meanwhile, no accepted save is made
\* over something its editor has not seen, but for a tag or collection that was
\* renamed or deleted behind the version.
THEOREM SavesAreSafe == EditSpec => NoLostUpdate
<1>1. EditInv => [SavesWhatWasSeen]_editVars
  BY SavesSee
<1> QED BY <1>1, EditInvariance, PTL DEF NoLostUpdate

-----------------------------------------------------------------------------
\* The header belongs to the past, and the answer covers all up to it.
AnswerCovers ==
  /\ request.at \in {"idle", "header", "listed"}
  /\ request.at # "idle" => request.header \in 0 .. version
  /\ request.at = "listed" =>
       \A k \in Live : items[k].version <= request.header =>
         \/ k \in DOMAIN request.page /\ Matches(k, request.page[k])
         \/ k \notin DOMAIN request.page /\ k \in DOMAIN copy /\ Matches(k, copy[k])

SyncInv ==
  /\ TypeOK
  /\ watermark \in 0 .. version
  /\ CopyHoldsUnchanged
  /\ AnswerCovers

\* The versions of the rows are natural numbers up to the library's.
LEMMA RowVersions ==
  ASSUME TypeOK
  PROVE  version \in Nat /\ \A k \in Live : items[k].version \in 0 .. version
BY LibraryAssumption DEF TypeOK, ItemRow

\* A write of the store: what it stamps is later than any watermark or header.
LEMMA StoreStep ==
  ASSUME SyncInv, Next, UNCHANGED <<copy, watermark, request>>
  PROVE  SyncInv'
<1>1. TypeOK' /\ RowsStamped
  BY TypeStep, StepStamps DEF SyncInv
<1>2. version \in Nat /\ version' \in Nat /\ version <= version'
  <2>1. version' = version \/ version' = version + 1
    BY DEF Next, Create, Update, SetTrashed, Merge, Refile, Relabel, Delete, DeleteKeys,
           ListTrash, EmptyTrash, BumpVersion, NextVersion
  <2>2. version \in Nat /\ version' \in Nat
    BY <1>1, LibraryAssumption DEF SyncInv, TypeOK
  <2> QED BY <2>1, <2>2
<1>3. ASSUME NEW k \in Live', NEW v \in 0 .. version, items'[k].version <= v
      PROVE  /\ k \in Live /\ items[k].version <= v
             /\ \A row : Matches(k, row) =>
                  row = IF k \in unstamped' THEN [items'[k] EXCEPT !.text = row.text]
                                            ELSE items'[k]
  <2>1. /\ k \in Live /\ (k \in unstamped => k \in unstamped')
        /\ items'[k] = items[k] \/ Renamed(k)
    BY <1>1, <1>2, <1>3 DEF RowsStamped
  <2>2. items'[k].version = items[k].version
    BY <2>1, SameVersion DEF SyncInv
  <2>3. ASSUME NEW row, Matches(k, row)
        PROVE  row = IF k \in unstamped' THEN [items'[k] EXCEPT !.text = row.text]
                                          ELSE items'[k]
    BY <2>1, <2>3, MatchesStill DEF SyncInv
  <2> QED BY <1>3, <2>1, <2>2, <2>3
<1>4. watermark' \in 0 .. version'
  BY <1>2 DEF SyncInv
<1>5. CopyHoldsUnchanged'
  <2> SUFFICES ASSUME NEW k \in Live', items'[k].version <= watermark
               PROVE  k \in DOMAIN copy /\ copy[k] =
                        IF k \in unstamped' THEN [items'[k] EXCEPT !.text = copy[k].text]
                                             ELSE items'[k]
    BY DEF CopyHoldsUnchanged, Matches
  <2>1. k \in Live /\ items[k].version <= watermark
    BY <1>3 DEF SyncInv
  <2>2. k \in DOMAIN copy /\ Matches(k, copy[k])
    BY <2>1 DEF SyncInv, CopyHoldsUnchanged
  <2> QED BY <1>3, <2>2 DEF SyncInv
<1>6. AnswerCovers'
  <2>1. request'.at # "idle" => request'.header \in 0 .. version /\ request'.header \in 0 .. version'
    BY <1>2 DEF SyncInv, AnswerCovers
  <2>2. ASSUME NEW row, NEW k \in Live', Matches(k, row), k \in Live,
               items'[k].version <= request.header, request.at = "listed"
        PROVE  row = IF k \in unstamped' THEN [items'[k] EXCEPT !.text = row.text]
                                          ELSE items'[k]
    BY <1>3, <2>1, <2>2
  <2>3. ASSUME request.at = "listed", NEW k \in Live', items'[k].version <= request.header
        PROVE  \/ k \in DOMAIN request.page /\ request.page[k] =
                    IF k \in unstamped' THEN [items'[k] EXCEPT !.text = request.page[k].text]
                                         ELSE items'[k]
               \/ k \notin DOMAIN request.page /\ k \in DOMAIN copy /\ copy[k] =
                    IF k \in unstamped' THEN [items'[k] EXCEPT !.text = copy[k].text]
                                         ELSE items'[k]
    <3>1. k \in Live /\ items[k].version <= request.header
      BY <1>3, <2>1, <2>3
    <3>2. \/ k \in DOMAIN request.page /\ Matches(k, request.page[k])
          \/ k \notin DOMAIN request.page /\ k \in DOMAIN copy /\ Matches(k, copy[k])
      BY <2>3, <3>1 DEF SyncInv, AnswerCovers
    <3> QED BY <2>2, <2>3, <3>1, <3>2
  <2> QED BY <2>1, <2>3 DEF SyncInv, AnswerCovers, Matches
<1> QED BY <1>1, <1>4, <1>5, <1>6 DEF SyncInv

\* The listing takes what is after the watermark; the copy has the rest.
LEMMA ListStep ==
  ASSUME SyncInv, ListChanged
  PROVE  SyncInv'
<1>1. /\ request.at = "header" /\ UNCHANGED <<copy, watermark, vars>>
      /\ request'.at = "listed" /\ request'.header = request.header
      /\ request'.page = [k \in ChangedSince(watermark) |-> items[k]]
  BY DEF ListChanged
<1>2. TypeOK' /\ watermark' \in 0 .. version' /\ CopyHoldsUnchanged'
  BY <1>1, TypeStep DEF SyncInv, vars, CopyHoldsUnchanged, Live, Matches
<1>3. ASSUME NEW k \in Live, items[k].version <= request.header
      PROVE  \/ k \in DOMAIN request'.page /\ Matches(k, request'.page[k])
             \/ k \notin DOMAIN request'.page /\ k \in DOMAIN copy /\ Matches(k, copy[k])
  <2>1. watermark \in 0 .. version /\ items[k].version \in 0 .. version /\ version \in Nat
    BY RowVersions DEF SyncInv
  <2>2. CASE items[k].version > watermark
    BY <1>1, <2>2, MatchesNow DEF ChangedSince, SyncInv
  <2>3. CASE items[k].version <= watermark
    <3>1. k \notin ChangedSince(watermark)
      BY <2>1, <2>3 DEF ChangedSince
    <3> QED BY <1>1, <2>3, <3>1 DEF SyncInv, CopyHoldsUnchanged
  <2> QED BY <2>1, <2>2, <2>3
<1>4. AnswerCovers'
  BY <1>1, <1>3 DEF SyncInv, AnswerCovers, vars, Live, Matches
<1> QED BY <1>2, <1>4 DEF SyncInv

\* What the answer covers, the client has once it is applied.
LEMMA ApplyStep ==
  ASSUME SyncInv, Apply
  PROVE  SyncInv'
<1>1. /\ request.at = "listed" /\ UNCHANGED vars
      /\ watermark' = request.header /\ request'.at = "idle"
      /\ copy' = [k \in DOMAIN copy \cup DOMAIN request.page |->
                   IF k \in DOMAIN request.page THEN request.page[k] ELSE copy[k]]
  BY DEF Apply, NoRequest, Header
<1>2. TypeOK' /\ AnswerCovers'
  BY <1>1, TypeStep DEF SyncInv, AnswerCovers
<1>3. watermark' \in 0 .. version'
  BY <1>1 DEF SyncInv, AnswerCovers, vars
<1>4. CopyHoldsUnchanged'
  <2> SUFFICES ASSUME NEW k \in Live, items[k].version <= request.header
               PROVE  k \in DOMAIN copy' /\ Matches(k, copy'[k])
    BY <1>1 DEF CopyHoldsUnchanged, vars, Live, Matches
  <2>1. \/ k \in DOMAIN request.page /\ Matches(k, request.page[k])
        \/ k \notin DOMAIN request.page /\ k \in DOMAIN copy /\ Matches(k, copy[k])
    BY <1>1 DEF SyncInv, AnswerCovers
  <2> QED BY <1>1, <2>1
<1> QED BY <1>2, <1>3, <1>4 DEF SyncInv

\* The invariant of the exchange survives every step of the store and of the
\* client.
LEMMA SyncStep == SyncInv /\ [SyncNext]_syncVars => SyncInv'
<1> SUFFICES ASSUME SyncInv, [SyncNext]_syncVars PROVE SyncInv'
  OBVIOUS
<1>1. CASE Next /\ UNCHANGED <<copy, watermark, request>>
  BY <1>1, StoreStep
<1>2. CASE ReadHeader
  <2>1. /\ UNCHANGED <<copy, watermark, vars>>
        /\ request'.at = "header" /\ request'.header = version
    BY <1>2 DEF ReadHeader
  <2>2. TypeOK' /\ watermark' \in 0 .. version' /\ CopyHoldsUnchanged'
    BY <2>1, TypeStep DEF SyncInv, vars, CopyHoldsUnchanged, Live, Matches
  <2>3. AnswerCovers'
    BY <2>1, RowVersions DEF SyncInv, AnswerCovers, vars
  <2> QED BY <2>2, <2>3 DEF SyncInv
<1>3. CASE ListChanged
  BY <1>3, ListStep
<1>4. CASE Apply
  BY <1>4, ApplyStep
<1>5. CASE UNCHANGED syncVars
  BY <1>5, TypeStep DEF syncVars, vars, SyncInv, CopyHoldsUnchanged, AnswerCovers, Live, Matches
<1> QED BY <1>1, <1>2, <1>3, <1>4, <1>5 DEF SyncNext

\* GET items?since=: a client that takes the header for its next since= never
\* misses an item that was stamped, whatever is written while its requests run;
\* what it has of the others is wrong at most in the names of their tags and
\* collections.
THEOREM CopyCorrect == SyncSpec => []CopyHoldsUnchanged
<1>1. SyncInit => SyncInv
  <2> SUFFICES ASSUME SyncInit PROVE SyncInv
    OBVIOUS
  <2>1. TypeOK /\ watermark = 0 /\ request.at = "idle" /\ Live = {}
    BY TypeInit DEF SyncInit, NoRequest, Init, EmptyTable, Live
  <2> QED BY <2>1, RowVersions DEF SyncInv, CopyHoldsUnchanged, AnswerCovers
<1>2. SyncInv => CopyHoldsUnchanged
  BY DEF SyncInv
<1> QED BY <1>1, <1>2, SyncStep, PTL DEF SyncSpec

-----------------------------------------------------------------------------
\* A client of the delta interface is nothing to an editor: the composition
\* implements OptimisticEdit.
THEOREM ImplementsEditing == ClientSpec => EditSpec
<1>1. ClientInit => EditInit
  BY DEF ClientInit
<1>2. [ClientNext]_clientVars => [EditNext]_editVars
  BY DEF ClientNext, clientVars, editVars, vars, ReadHeader, ListChanged, Apply
<1> QED BY <1>1, <1>2, PTL DEF ClientSpec, EditSpec

\* An editor is one more writer to a client that keeps a copy: a save that is
\* accepted is a step of the store, and the composition implements DeltaSync.
THEOREM ImplementsSyncing == ClientSpec => SyncSpec
<1>1. ClientInit => SyncInit
  BY DEF ClientInit
<1>2. EditInv /\ [ClientNext]_clientVars => [SyncNext]_syncVars
  <2> SUFFICES ASSUME EditInv, [ClientNext]_clientVars PROVE [SyncNext]_syncVars
    OBVIOUS
  <2>1. CASE EditNext /\ UNCHANGED <<copy, watermark, request>>
    <3>1. [Next]_vars
      BY <2>1, StepOfStore
    <3> QED BY <2>1, <3>1 DEF SyncNext, syncVars, vars
  <2>2. CASE (ReadHeader \/ ListChanged \/ Apply) /\ UNCHANGED draft
    BY <2>2 DEF SyncNext
  <2>3. CASE UNCHANGED clientVars
    BY <2>3 DEF clientVars, syncVars
  <2> QED BY <2>1, <2>2, <2>3 DEF ClientNext
<1> QED BY <1>1, <1>2, ImplementsEditing, EditInvariance, PTL DEF ClientSpec, SyncSpec

\* Over a store that editors and other requests write together, no accepted
\* save replaces what was not seen and no stamped change is missed by since=:
\* both but for tags and collections renamed or deleted behind the items.
THEOREM ClientsAreSafe == ClientSpec => NoLostUpdate /\ []CopyHoldsUnchanged
BY ImplementsEditing, ImplementsSyncing, SavesAreSafe, CopyCorrect, PTL

\* The same of the behaviours that are checked together with the page and the
\* document.
THEOREM LibraryIsSafe == PagesSpec => NoLostUpdate /\ []CopyHoldsUnchanged
<1>1. PagesInit => ClientInit
  BY DEF PagesInit
<1>2. [PagesNext]_<<part, clientVars, feedVars, documentVars>> => [ClientNext]_clientVars
  BY DEF PagesNext
<1> QED
  BY <1>1, <1>2, ClientsAreSafe, PTL DEF PagesSpec, ClientSpec

-----------------------------------------------------------------------------
(***************************************************************************)
(* The page.  A write it has not been told of is yet to be published, or   *)
(* to be passed on, or has it about to read; otherwise what was asked last *)
(* sees it, and what was asked before is dropped.                          *)
(***************************************************************************)
Due == timer \/ unpublished # {} \/ lagged \/ queued > 0

FeedTypes ==
  /\ feedVersion \in Nat /\ queued \in Nat /\ seq \in Nat
  /\ timer \in BOOLEAN /\ lagged \in BOOLEAN /\ open \in BOOLEAN /\ subscribed \in BOOLEAN
  /\ gap \in BOOLEAN /\ failed \in BOOLEAN
  /\ reads \subseteq Feed!Request /\ more \subseteq Feed!Request

LastSees ==
  /\ \A r \in reads \cup more : r.seq = seq => r.seen \in {0, feedVersion}
  /\ (\E r \in reads : r.seq = seq) \/ failed \/ shown = {feedVersion}

FeedInv ==
  /\ FeedTypes
  /\ \A r \in reads \cup more : r.seq <= seq
  /\ ~subscribed => queued = 0 /\ ~lagged
  /\ open /\ ~gap /\ ~Due => LastSees

LEMMA FeedInit == Feed!Init => FeedInv
<1> SUFFICES ASSUME Feed!Init PROVE FeedInv
  OBVIOUS
<1>1. FeedTypes /\ ~open
  BY DEF Feed!Init, FeedTypes
<1> QED
  BY <1>1 DEF Feed!Init, FeedInv

\* Whatever makes something due, or closes the socket, leaves the rest alone.
LEMMA EventsKeep ==
  ASSUME FeedInv, Feed!Commit \/ Feed!Subscribe \/ Feed!Receive \/ Feed!Connect \/ Feed!Disconnect
                  \/ \E v \in unpublished : Feed!Publish(v)
  PROVE  FeedInv'
<1> USE DEF FeedInv, FeedTypes, Feed!list, Feed!socket
<1>1. UNCHANGED <<seq, reads, more, failed, shown>>
  BY DEF Feed!Commit, Feed!Subscribe, Feed!Receive, Feed!Connect, Feed!Disconnect, Feed!Publish
<1>2. CASE Feed!Commit
  <2>1. Due'
    BY <1>2 DEF Feed!Commit, Due
  <2> QED
    BY <1>1, <1>2, <2>1 DEF Feed!Commit, Feed!Request
<1>3. CASE Feed!Subscribe
  <2>1. /\ ~subscribed /\ subscribed' = TRUE /\ queued' = queued /\ ~lagged /\ ~lagged'
        /\ UNCHANGED <<feedVersion, unpublished, open, timer, gap>>
    BY <1>3 DEF Feed!Subscribe
  <2>2. Due' => Due
    BY <2>1 DEF Due
  <2>3. LastSees => LastSees'
    BY <1>1, <2>1 DEF LastSees
  <2>4. FeedTypes'
    <3>1. subscribed' \in BOOLEAN /\ lagged' \in BOOLEAN
      BY <1>3 DEF Feed!Subscribe
    <3> QED
      BY <1>1, <2>1, <3>1 DEF Feed!Request
  <2>5. Due => Due'
    BY <2>1 DEF Due
  <2> QED
    BY <1>1, <2>1, <2>2, <2>3, <2>4, <2>5
<1>4. CASE Feed!Receive
  <2>1. timer' = TRUE /\ subscribed /\ UNCHANGED <<feedVersion, unpublished, subscribed, open, gap>>
    BY <1>4 DEF Feed!Receive
  <2>2. Due'
    BY <2>1 DEF Due
  <2>3. queued' \in Nat
    BY <1>4 DEF Feed!Receive
  <2>4. lagged' \in BOOLEAN
    BY <1>4 DEF Feed!Receive
  <2> QED
    BY <1>1, <2>1, <2>2, <2>3, <2>4 DEF Feed!Request
<1>5. CASE Feed!Connect
  <2>1. Due'
    BY <1>5 DEF Feed!Connect, Due
  <2> QED
    BY <1>1, <1>5, <2>1 DEF Feed!Connect, Feed!Request
<1>6. CASE Feed!Disconnect
  BY <1>1, <1>6 DEF Feed!Disconnect, Feed!Request
<1>7. ASSUME NEW v \in unpublished, Feed!Publish(v) PROVE FeedInv'
  <2>1. UNCHANGED <<feedVersion, subscribed, open, timer>>
    BY <1>7 DEF Feed!Publish
  <2>2. CASE subscribed
    <3>1. queued' \in Nat /\ queued' > 0 /\ lagged' \in BOOLEAN /\ gap' \in BOOLEAN
      BY <1>7, <2>2, FeedAssumption DEF Feed!Publish
    <3>2. Due'
      BY <3>1 DEF Due
    <3> QED
      BY <1>1, <2>1, <2>2, <3>1, <3>2 DEF Feed!Request
  <2>3. CASE ~subscribed
    <3>1. gap' \in BOOLEAN /\ (open => gap') /\ UNCHANGED <<queued, lagged>>
      BY <1>7, <2>3 DEF Feed!Publish
    <3> QED
      BY <1>1, <2>1, <3>1 DEF Feed!Request
  <2> QED
    BY <2>2, <2>3
<1> QED
  BY <1>2, <1>3, <1>4, <1>5, <1>6, <1>7

\* What is asked now will see everything, and what was asked before is not the
\* last.
LEMMA AsksKeep ==
  ASSUME FeedInv, Feed!Fire \/ Feed!Ask \/ Feed!Navigate PROVE FeedInv'
<1> DEFINE asked == [seq |-> seq + 1, seen |-> 0]
<1>1. /\ seq' = seq + 1 /\ reads' = reads \cup {asked} /\ timer' \in BOOLEAN
      /\ UNCHANGED <<feedVersion, unpublished, subscribed, queued, lagged, open, more, failed, shown, gap>>
  BY DEF FeedInv, FeedTypes, Feed!Fire, Feed!Ask, Feed!Navigate, Feed!Refresh, Feed!socket
<1>2. seq \in Nat /\ \A r \in reads \cup more : r.seq <= seq /\ r.seq \in Nat
  BY DEF FeedInv, FeedTypes, Feed!Request
<1>3. asked \in Feed!Request /\ asked.seq = seq + 1 /\ asked.seen = 0
  BY <1>2 DEF Feed!Request
<1> HIDE DEF asked
<1>4. \A r \in reads' \cup more' : r = asked \/ (r.seq <= seq /\ r.seq \in Nat)
  BY <1>1, <1>2
<1>5. LastSees'
  BY <1>1, <1>2, <1>3, <1>4 DEF LastSees
<1>6. \A r \in reads' \cup more' : r.seq <= seq'
  BY <1>1, <1>2, <1>3, <1>4
<1>7. FeedTypes'
  BY <1>1, <1>2, <1>3 DEF FeedInv, FeedTypes, Feed!Request
<1> QED
  BY <1>1, <1>5, <1>6, <1>7 DEF FeedInv

\* An answer sees the library as it is, and the last that is asked for is shown
\* unless it failed.
LEMMA AnswersKeep ==
  ASSUME FeedInv,
         Feed!LoadMore \/ \E r \in reads \cup more : Feed!See(r) \/ Feed!Answered(r) \/ Feed!MoreAnswered(r)
  PROVE  FeedInv'
<1> USE DEF Feed!socket
<1>1. /\ UNCHANGED <<feedVersion, unpublished, subscribed, queued, lagged, open, timer, seq, gap>>
      /\ Due' <=> Due
  BY DEF Feed!LoadMore, Feed!See, Feed!Answered, Feed!MoreAnswered, Due
<1>2. SUFFICES /\ reads' \subseteq Feed!Request /\ more' \subseteq Feed!Request /\ failed' \in BOOLEAN
               /\ \A r \in reads' \cup more' : r.seq <= seq
               /\ LastSees => LastSees'
  BY <1>1 DEF FeedInv, FeedTypes, Feed!Request
<1>3. seq \in Nat /\ feedVersion \in Nat /\ \A r \in reads \cup more : r \in Feed!Request /\ r.seq <= seq
  BY DEF FeedInv, FeedTypes
<1>4. CASE Feed!LoadMore
  <2>1. more' = more \cup {[seq |-> seq, seen |-> 0]} /\ UNCHANGED <<reads, failed, shown>>
    BY <1>4 DEF Feed!LoadMore
  <2> QED
    BY <1>1, <1>3, <2>1 DEF FeedInv, FeedTypes, LastSees, Feed!Request
<1>5. ASSUME NEW r \in reads \cup more, Feed!See(r)
      PROVE  /\ reads' \subseteq Feed!Request /\ more' \subseteq Feed!Request /\ failed' \in BOOLEAN
             /\ \A q \in reads' \cup more' : q.seq <= seq
             /\ LastSees => LastSees'
  <2> DEFINE seen == [r EXCEPT !.seen = feedVersion]
  <2>1. /\ \/ r \in reads /\ reads' = (reads \ {r}) \cup {seen} /\ more' = more
           \/ r \in more /\ more' = (more \ {r}) \cup {seen} /\ reads' = reads
        /\ UNCHANGED <<failed, shown>>
    BY <1>5 DEF Feed!See
  <2>2. seen \in Feed!Request /\ seen.seq = r.seq /\ seen.seen = feedVersion
    BY <1>3 DEF Feed!Request
  <2> HIDE DEF seen
  <2>3. \A q \in reads' \cup more' : q \in reads \cup more \/ q = seen
    BY <2>1
  <2>4. ASSUME LastSees PROVE LastSees'
    <3>1. \A q \in reads' \cup more' : q.seq = seq' => q.seen \in {0, feedVersion'}
      BY <1>1, <2>2, <2>3, <2>4 DEF LastSees
    <3>2. (\E q \in reads : q.seq = seq) => \E q \in reads' : q.seq = seq'
      BY <1>1, <2>1, <2>2
    <3> QED
      BY <1>1, <2>1, <2>4, <3>1, <3>2 DEF LastSees
  <2>5. reads' \subseteq Feed!Request /\ more' \subseteq Feed!Request
    BY <1>3, <2>1, <2>2
  <2> QED
    BY <1>3, <2>1, <2>2, <2>3, <2>4, <2>5 DEF FeedInv, FeedTypes
<1>6. ASSUME NEW r \in reads \cup more, Feed!Answered(r)
      PROVE  /\ reads' \subseteq Feed!Request /\ more' \subseteq Feed!Request /\ failed' \in BOOLEAN
             /\ \A q \in reads' \cup more' : q.seq <= seq
             /\ LastSees => LastSees'
  <2>1. /\ r \in reads /\ reads' = reads \ {r} /\ more' = more
        /\ \/ r.seq # seq /\ UNCHANGED <<failed, shown>>
           \/ r.seq = seq /\ r.seen # 0 /\ shown' = {r.seen} /\ failed' = FALSE
           \/ r.seq = seq /\ failed' = TRUE /\ UNCHANGED shown
    BY <1>6 DEF Feed!Answered, Feed!Current
  <2>2. ASSUME LastSees PROVE LastSees'
    <3>1. \A q \in reads' \cup more' : q.seq = seq' => q.seen \in {0, feedVersion'}
      BY <1>1, <2>1, <2>2 DEF LastSees
    <3>2. CASE r.seq # seq
      BY <1>1, <2>1, <2>2, <3>1, <3>2 DEF LastSees
    <3>3. CASE r.seq = seq
      BY <1>1, <2>1, <2>2, <3>1, <3>3 DEF LastSees
    <3> QED
      BY <3>2, <3>3
  <2> QED
    BY <1>3, <2>1, <2>2 DEF FeedInv, FeedTypes
<1>7. ASSUME NEW r \in reads \cup more, Feed!MoreAnswered(r)
      PROVE  /\ reads' \subseteq Feed!Request /\ more' \subseteq Feed!Request /\ failed' \in BOOLEAN
             /\ \A q \in reads' \cup more' : q.seq <= seq
             /\ LastSees => LastSees'
  <2>1. /\ r \in more /\ more' = more \ {r} /\ UNCHANGED <<reads, failed>>
        /\ \/ UNCHANGED shown
           \/ r.seq = seq /\ r.seen # 0 /\ shown' = shown \cup {r.seen}
    BY <1>7 DEF Feed!MoreAnswered, Feed!Current
  <2>2. LastSees => LastSees'
    BY <1>1, <2>1 DEF LastSees
  <2> QED
    BY <1>3, <2>1, <2>2 DEF FeedInv, FeedTypes
<1> QED
  BY <1>4, <1>5, <1>6, <1>7

LEMMA FeedStep == FeedInv /\ [Feed!Next]_feedVars => FeedInv'
<1> SUFFICES ASSUME FeedInv, [Feed!Next]_feedVars PROVE FeedInv'
  OBVIOUS
<1>1. CASE UNCHANGED feedVars
  BY <1>1 DEF feedVars, FeedInv, FeedTypes, LastSees, Due, Feed!Request
<1> QED
  BY <1>1, EventsKeep, AsksKeep, AnswersKeep DEF Feed!Next

\* watchEvents, refresh, stream_events: once nothing is under way, what a page
\* shows is of the library as it is, whatever was dropped, published late or
\* answered out of turn, if nothing was published between the halves' openings.
THEOREM QuietPages == PagesSpec => []QuietPageIsCurrent
<1>1. PagesInit => FeedInv
  BY FeedInit DEF PagesInit
<1>2. [PagesNext]_<<part, clientVars, feedVars, documentVars>> => [Feed!Next]_feedVars
  BY DEF PagesNext
<1>3. FeedInv => QuietPageIsCurrent
  BY DEF FeedInv, FeedTypes, LastSees, Due, QuietPageIsCurrent, Feed!QuietPageIsCurrent, Feed!Quiet
<1> QED
  BY <1>1, <1>2, <1>3, FeedStep, PTL DEF PagesSpec

-----------------------------------------------------------------------------
(***************************************************************************)
(* Documents in a word processor.  First the order of works.               *)
(***************************************************************************)

\* Every set of naturals that is not empty has a least.
LEMMA Smallest ==
  ASSUME NEW S, S \subseteq Nat, S # {}
  PROVE  \E m \in S : \A k \in S : m <= k
<1>1. IsWellFoundedOn(OpToRel(<, Nat), Nat)
  BY NatLessThanWellFounded
<1>2. \E x \in S : \A y \in S : ~ (<<y, x>> \in OpToRel(<, Nat))
  BY <1>1, WFMin
<1>3. ASSUME NEW x \in S, NEW y \in S, y < x PROVE <<y, x>> \in OpToRel(<, Nat)
  <2>1. <<y, x>> \in Nat \X Nat /\ <<y, x>>[1] = y /\ <<y, x>>[2] = x
    OBVIOUS
  <2>2. <<y, x>>[1] < <<y, x>>[2]
    BY <1>3
  <2> QED BY <2>1, <2>2 DEF OpToRel
<1>4. PICK x \in S : \A y \in S : ~ (<<y, x>> \in OpToRel(<, Nat))
  BY <1>2
<1>5. \A y \in S : ~ (y < x)
  BY <1>3, <1>4
<1>6. \A y \in S : x <= y
  BY <1>5
<1> QED BY <1>6

\* Cardinality is one operator, however it is reached.
LEMMA DocCount == ASSUME NEW S PROVE Doc!Cardinality(S) = Cardinality(S)
BY DEF Doc!Cardinality, Cardinality

\* A finite set is put in order by what comes up to each of its elements, when
\* these are a chain in which no two are the same.
LEMMA OrderedIsRight ==
  ASSUME NEW S, IsFiniteSet(S), NEW upTo \in [S -> SUBSET S],
         \A k \in S : k \in upTo[k],
         \A k, w \in S : upTo[k] \subseteq upTo[w] \/ upTo[w] \subseteq upTo[k],
         \A k, w \in S : upTo[k] = upTo[w] => k = w
  PROVE  LET s == Doc!Ordered(S, upTo) IN
         /\ s = [n \in 1 .. Cardinality(S) |-> s[n]] /\ Cardinality(S) \in Nat
         /\ \A n \in 1 .. Cardinality(S) : s[n] \in S /\ Cardinality(upTo[s[n]]) = n
         /\ \A k \in S : Cardinality(upTo[k]) \in 1 .. Cardinality(S) /\ s[Cardinality(upTo[k])] = k
<1> DEFINE rank == [k \in S |-> Cardinality(upTo[k])]
           N == Cardinality(S)
<1>1. \A k \in S : upTo[k] \subseteq S /\ IsFiniteSet(upTo[k]) /\ Cardinality(upTo[k]) \in Nat
  BY FS_Subset, FS_CardinalityType
<1>2. N \in Nat
  BY FS_CardinalityType
<1>3. \A k \in S : rank[k] \in 1 .. N
  <2> TAKE k \in S
  <2>1. Cardinality(upTo[k]) <= N
    BY <1>1, FS_Subset
  <2>2. Cardinality(upTo[k]) # 0
    BY <1>1, FS_EmptySet
  <2> QED
    BY <1>1, <1>2, <2>1, <2>2
<1>4. \A k, w \in S : rank[k] = rank[w] => k = w
  <2>1. SUFFICES ASSUME NEW k \in S, NEW w \in S, rank[k] = rank[w], upTo[k] \subseteq upTo[w] PROVE k = w
    OBVIOUS
  <2>2. upTo[k] = upTo[w]
    BY <1>1, <2>1, FS_Subset
  <2> QED
    BY <2>2
<1>5. rank \in [S -> 1 .. N]
  BY <1>3
<1> HIDE DEF rank, N
<1>6. \A n \in 1 .. N : \E k \in S : rank[k] = n
  <2> DEFINE taken == {rank[k] : k \in S}
  <2>1. taken \subseteq 1 .. N
    BY <1>5
  <2>2. IsFiniteSet(1 .. N) /\ Cardinality(1 .. N) = N
    BY <1>2, FS_Interval
  <2>3. rank \in [S -> taken] /\ (\A t \in taken : \E k \in S : rank[k] = t)
    BY <1>5
  <2> HIDE DEF taken
  <2>4. rank \in Surjection(S, taken) /\ rank \in Injection(S, taken)
    BY <1>4, <2>3, Fun_IsSurj, Fun_IsInj
  <2>6. IsFiniteSet(taken) /\ Cardinality(taken) = N
    BY <2>4, FS_Surjection DEF N
  <2>5. taken = 1 .. N
    BY <2>1, <2>2, <2>6, FS_Subset
  <2> QED
    BY <2>5 DEF taken
<1>7. \A n \in 1 .. N : Doc!Ordered(S, upTo)[n] \in S /\ rank[Doc!Ordered(S, upTo)[n]] = n
  BY <1>6, DocCount DEF Doc!Ordered, rank, N
<1>8. \A k \in S : Doc!Ordered(S, upTo)[rank[k]] = k
  BY <1>3, <1>4, <1>7
<1>9. Doc!Ordered(S, upTo) = [n \in 1 .. N |-> Doc!Ordered(S, upTo)[n]]
  BY DocCount DEF Doc!Ordered, N
<1> QED
  BY <1>2, <1>3, <1>7, <1>8, <1>9 DEF rank, N

\* Of any places one is the first.
LEMMA FirstPlace ==
  ASSUME NEW P, P \subseteq Nat \X Nat, P # {}
  PROVE  \E p \in P : \A q \in P : p = q \/ Doc!Before(p, q)
<1> DEFINE fields == {p[1] : p \in P}
<1>1. fields \subseteq Nat /\ fields # {}
  OBVIOUS
<1> HIDE DEF fields
<1>2. PICK n \in fields : \A k \in fields : n <= k
  BY <1>1, Smallest
<1> DEFINE works == {p[2] : p \in {p \in P : p[1] = n}}
<1>3. works \subseteq Nat /\ works # {}
  BY <1>2 DEF fields
<1> HIDE DEF works
<1>4. PICK m \in works : \A k \in works : m <= k
  BY <1>3, Smallest
<1>5. PICK p \in P : p[1] = n /\ p[2] = m
  BY <1>4 DEF works
<1>6. ASSUME NEW q \in P PROVE p = q \/ Doc!Before(p, q)
  <2>1. q[1] \in Nat /\ q[2] \in Nat /\ q = <<q[1], q[2]>> /\ p = <<n, m>> /\ n \in Nat /\ m \in Nat
    BY <1>5
  <2>2. n <= q[1] /\ (q[1] = n => m <= q[2])
    BY <1>2, <1>4 DEF fields, works
  <2> QED
    BY <1>5, <2>1, <2>2 DEF Doc!Before
<1> QED
  BY <1>6

\* What a request to render is about: fields, and works that exist.
Asks(fields, held) == fields \in Seq(Fields) /\ held \subseteq Works /\ cites \in [Fields -> Seq(Works)]

LEMMA PlacesAre ==
  ASSUME NEW fields, NEW held, Asks(fields, held)
  PROVE  /\ Doc!Places(fields) \subseteq Nat \X Nat
         /\ \A p \in Doc!Places(fields) : /\ p[1] \in DOMAIN fields /\ fields[p[1]] \in Fields
                                          /\ p[2] \in DOMAIN cites[fields[p[1]]]
                                          /\ Doc!Cited(fields, p) \in Works
         /\ \A n \in DOMAIN fields : \A m \in DOMAIN cites[fields[n]] :
              /\ <<n, m>> \in Doc!Places(fields)
              /\ Doc!Cited(fields, <<n, m>>) = cites[fields[n]][m]
<1>1. \A n \in DOMAIN fields : n \in Nat /\ fields[n] \in Fields
  BY DEF Asks
<1>2. \A f \in Fields : cites[f] \in Seq(Works)
  BY DEF Asks
<1>3. \A f \in Fields : \A m \in DOMAIN cites[f] : m \in Nat /\ cites[f][m] \in Works
  BY <1>2
<1> QED
  BY <1>1, <1>3 DEF Doc!Places, Doc!Cited

\* The works up to another one are a chain.
Appears(fields, k) == {p \in Doc!Places(fields) : Doc!Cited(fields, p) = k}
UpTo(fields, held) ==
  [k \in Doc!Known(fields, held) |->
     {w \in Doc!Known(fields, held) :
        \A p \in Appears(fields, k) : \E q \in Appears(fields, w) : q = p \/ Doc!Before(q, p)}]

LEMMA OrderIsOrdered ==
  ASSUME NEW fields, NEW held
  PROVE  Doc!Order(fields, held) = Doc!Ordered(Doc!Known(fields, held), UpTo(fields, held))
BY DEF Doc!Order, UpTo, Appears

LEMMA FirstsAreUpTo ==
  ASSUME NEW fields, NEW held, Asks(fields, held)
  PROVE  \E first \in [Doc!Known(fields, held) -> Doc!Places(fields)] :
           \A k \in Doc!Known(fields, held) :
             /\ Doc!Cited(fields, first[k]) = k
             /\ UpTo(fields, held)[k] =
                  {w \in Doc!Known(fields, held) : first[w] = first[k] \/ Doc!Before(first[w], first[k])}
<1> DEFINE known == Doc!Known(fields, held)
           isFirst(k, p) == p \in Appears(fields, k) /\ \A q \in Appears(fields, k) : p = q \/ Doc!Before(p, q)
           first == [k \in known |-> CHOOSE p : isFirst(k, p)]
<1>1. \A k \in known : Appears(fields, k) \subseteq Nat \X Nat /\ Appears(fields, k) # {}
  BY PlacesAre DEF Appears, Doc!Known
<1>2. \A k \in known : \E p : isFirst(k, p)
  BY <1>1, FirstPlace
<1>3. \A k \in known : isFirst(k, first[k])
  BY <1>2
<1>4. \A k \in known : first[k] \in Doc!Places(fields) /\ Doc!Cited(fields, first[k]) = k
  BY <1>3 DEF Appears
<1>5. ASSUME NEW k \in known
      PROVE  UpTo(fields, held)[k] = {w \in known : first[w] = first[k] \/ Doc!Before(first[w], first[k])}
  <2>1. UpTo(fields, held)[k] =
          {w \in known : \A p \in Appears(fields, k) : \E q \in Appears(fields, w) : q = p \/ Doc!Before(q, p)}
    BY DEF UpTo
  <2> HIDE DEF first
  <2>2. \A p, q, r \in Nat \X Nat : Doc!Before(p, q) /\ Doc!Before(q, r) => Doc!Before(p, r)
    BY DEF Doc!Before
  <2>3. ASSUME NEW w \in known, \A p \in Appears(fields, k) : \E q \in Appears(fields, w) : q = p \/ Doc!Before(q, p)
        PROVE  first[w] = first[k] \/ Doc!Before(first[w], first[k])
    <3>1. PICK q \in Appears(fields, w) : q = first[k] \/ Doc!Before(q, first[k])
      BY <1>3, <2>3
    <3>2. first[w] = q \/ Doc!Before(first[w], q)
      BY <1>3
    <3>3. q \in Nat \X Nat /\ first[w] \in Nat \X Nat /\ first[k] \in Nat \X Nat
      BY <1>1, <1>3
    <3> QED
      BY <2>2, <3>1, <3>2, <3>3
  <2>4. ASSUME NEW w \in known, first[w] = first[k] \/ Doc!Before(first[w], first[k]), NEW p \in Appears(fields, k)
        PROVE  \E q \in Appears(fields, w) : q = p \/ Doc!Before(q, p)
    <3>1. first[k] = p \/ Doc!Before(first[k], p)
      BY <1>3
    <3>2. p \in Nat \X Nat /\ first[w] \in Nat \X Nat /\ first[k] \in Nat \X Nat /\ first[w] \in Appears(fields, w)
      BY <1>1, <1>3
    <3> QED
      BY <2>2, <2>4, <3>1, <3>2
  <2> QED
    BY <2>1, <2>3, <2>4
<1>6. first \in [known -> Doc!Places(fields)]
  BY <1>4
<1> HIDE DEF first
<1> QED
  BY <1>4, <1>5, <1>6

LEMMA UpToIsChain ==
  ASSUME NEW fields, NEW held, Asks(fields, held)
  PROVE  LET known == Doc!Known(fields, held)
             upTo == UpTo(fields, held) IN
         /\ IsFiniteSet(known) /\ upTo \in [known -> SUBSET known]
         /\ \A k \in known : k \in upTo[k]
         /\ \A k, w \in known : upTo[k] \subseteq upTo[w] \/ upTo[w] \subseteq upTo[k]
         /\ \A k, w \in known : upTo[k] = upTo[w] => k = w
<1> DEFINE known == Doc!Known(fields, held)
           upTo == UpTo(fields, held)
<1>1. PICK first \in [known -> Doc!Places(fields)] :
        \A k \in known : /\ Doc!Cited(fields, first[k]) = k
                         /\ upTo[k] = {w \in known : first[w] = first[k] \/ Doc!Before(first[w], first[k])}
  BY FirstsAreUpTo
<1>2. \A k \in known : first[k] \in Nat \X Nat
  BY PlacesAre
<1>3. \A p, q, r \in Nat \X Nat : Doc!Before(p, q) /\ Doc!Before(q, r) => Doc!Before(p, r)
  BY DEF Doc!Before
<1>4. \A p, q \in Nat \X Nat : p = q \/ Doc!Before(p, q) \/ Doc!Before(q, p)
  <2> SUFFICES ASSUME NEW p \in Nat \X Nat, NEW q \in Nat \X Nat PROVE p = q \/ Doc!Before(p, q) \/ Doc!Before(q, p)
    OBVIOUS
  <2>1. p = <<p[1], p[2]>> /\ q = <<q[1], q[2]>> /\ p[1] \in Nat /\ p[2] \in Nat /\ q[1] \in Nat /\ q[2] \in Nat
    OBVIOUS
  <2> QED
    BY <2>1 DEF Doc!Before
<1>5. \A p, q \in Nat \X Nat : ~ (Doc!Before(p, q) /\ Doc!Before(q, p))
  BY DEF Doc!Before
<1>6. IsFiniteSet(known)
  BY FS_Subset, DocumentsAssumption DEF Doc!Known, Asks
<1>7. upTo \in [known -> SUBSET known]
  BY DEF UpTo
<1>8. \A k \in known : k \in upTo[k]
  BY <1>1
<1>9. \A k, w \in known : upTo[k] \subseteq upTo[w] \/ upTo[w] \subseteq upTo[k]
  BY <1>1, <1>2, <1>3, <1>4
<1>10. ASSUME NEW k \in known, NEW w \in known, upTo[k] = upTo[w] PROVE k = w
  <2>1. first[k] = first[w]
    BY <1>1, <1>2, <1>5, <1>8, <1>10
  <2> QED
    BY <1>1, <2>1
<1> QED
  BY <1>6, <1>7, <1>8, <1>9, <1>10

\* Numbers run as the works first appear.
LEMMA OrderRight ==
  ASSUME NEW fields, NEW held, Asks(fields, held)
  PROVE  LET known == Doc!Known(fields, held)
             order == Doc!Order(fields, held)
             N == Cardinality(known) IN
         /\ N \in Nat /\ DOMAIN order = 1 .. N /\ order \in [1 .. N -> known]
         /\ \A n, m \in 1 .. N : order[n] = order[m] => n = m
         /\ \A k \in known : Doc!NumberOf(order, k) \in 1 .. N /\ order[Doc!NumberOf(order, k)] = k
         /\ \A p \in Doc!Places(fields) : Doc!Cited(fields, p) \in held =>
              \/ Doc!NumberOf(order, Doc!Cited(fields, p)) = 1
              \/ \E q \in Doc!Places(fields) :
                   /\ Doc!Cited(fields, q) \in held /\ Doc!Before(q, p)
                   /\ Doc!NumberOf(order, Doc!Cited(fields, q)) + 1 = Doc!NumberOf(order, Doc!Cited(fields, p))
<1> DEFINE known == Doc!Known(fields, held)
           order == Doc!Order(fields, held)
           upTo == UpTo(fields, held)
           N == Cardinality(known)
<1>1. /\ IsFiniteSet(known) /\ upTo \in [known -> SUBSET known]
      /\ \A k \in known : k \in upTo[k]
      /\ \A k, w \in known : upTo[k] \subseteq upTo[w] \/ upTo[w] \subseteq upTo[k]
      /\ \A k, w \in known : upTo[k] = upTo[w] => k = w
  BY UpToIsChain
<1>2. order = Doc!Ordered(known, upTo)
  BY OrderIsOrdered
<1> HIDE DEF known, order, upTo
<1>3. /\ order = [n \in 1 .. N |-> order[n]] /\ N \in Nat
      /\ \A n \in 1 .. N : order[n] \in known /\ Cardinality(upTo[order[n]]) = n
      /\ \A k \in known : Cardinality(upTo[k]) \in 1 .. N /\ order[Cardinality(upTo[k])] = k
  BY <1>1, <1>2, OrderedIsRight
<1> HIDE DEF N
<1>4. DOMAIN order = 1 .. N /\ order \in [1 .. N -> known]
  BY <1>3
<1>5. \A n, m \in 1 .. N : order[n] = order[m] => n = m
  BY <1>3
<1>6. \A k \in known : Doc!NumberOf(order, k) = Cardinality(upTo[k])
  BY <1>3, <1>4 DEF Doc!NumberOf
<1>7. \A k \in known : Doc!NumberOf(order, k) \in 1 .. N /\ order[Doc!NumberOf(order, k)] = k
  BY <1>3, <1>6
<1>8. ASSUME NEW p \in Doc!Places(fields), Doc!Cited(fields, p) \in held,
             Doc!NumberOf(order, Doc!Cited(fields, p)) # 1
      PROVE  \E q \in Doc!Places(fields) :
               /\ Doc!Cited(fields, q) \in held /\ Doc!Before(q, p)
               /\ Doc!NumberOf(order, Doc!Cited(fields, q)) + 1 = Doc!NumberOf(order, Doc!Cited(fields, p))
  <2> DEFINE k == Doc!Cited(fields, p)
             n == Doc!NumberOf(order, k)
             w == order[n - 1]
  <2>1. k \in known
    BY <1>8 DEF known, Doc!Known
  <2> HIDE DEF k
  <2>2. n \in 1 .. N /\ order[n] = k /\ n - 1 \in 1 .. N
    BY <1>3, <1>7, <1>8, <2>1 DEF k
  <2>3. w \in known /\ Doc!NumberOf(order, w) = n - 1
    BY <1>3, <1>6, <2>2
  <2>4. Cardinality(upTo[w]) = n - 1 /\ Cardinality(upTo[k]) = n
    BY <1>3, <2>2
  <2>5. w \in upTo[k]
    <3>1. upTo[k] \in SUBSET known /\ upTo[w] \in SUBSET known /\ IsFiniteSet(upTo[w])
      BY <1>1, <2>1, <2>3, FS_Subset
    <3>2. ~ (upTo[k] \subseteq upTo[w])
      BY <2>2, <2>4, <3>1, FS_Subset, <1>3
    <3> QED
      BY <1>1, <2>1, <2>3, <3>2
  <2>6. p \in Appears(fields, k)
    BY DEF Appears, k
  <2>7. PICK q \in Appears(fields, w) : q = p \/ Doc!Before(q, p)
    BY <2>1, <2>5, <2>6 DEF upTo, UpTo, known
  <2>8. q \in Doc!Places(fields) /\ Doc!Cited(fields, q) = w
    BY <2>7 DEF Appears
  <2>9. w # k
    BY <2>2, <2>3
  <2>10. Doc!Before(q, p)
    BY <2>7, <2>8, <2>9 DEF k
  <2>11. w \in held
    BY <2>3 DEF known, Doc!Known
  <2> HIDE DEF w, n
  <2>12. n \in Int
    BY <2>2
  <2> QED
    BY <2>3, <2>8, <2>10, <2>11, <2>12 DEF n, k
<1> QED
  BY <1>3, <1>4, <1>5, <1>7, <1>8 DEF known, order, N

\* The references of a bibliography, sorted or numbered: each work once.
LEMMA BibliographyRight ==
  ASSUME NEW fields, NEW held, Asks(fields, held), NEW style
  PROVE  LET known == Doc!Known(fields, held)
             order == Doc!Order(fields, held)
             references == Doc!Bibliography(order, style) IN
         /\ references = <<style, references[2]>>
         /\ style \in Numeric => references[2] = order
         /\ Doc!ToSet(references[2]) = known /\ Doc!IsInjective(references[2])
<1> DEFINE known == Doc!Known(fields, held)
           order == Doc!Order(fields, held)
           N == Cardinality(known)
           number(k) == Doc!NumberOf(order, k)
           upTo == [k \in known |->
             {w \in known : Filed[w] < Filed[k] \/ (Filed[w] = Filed[k] /\ number(w) <= number(k))}]
           sorted == Doc!Ordered(known, upTo)
<1>1. /\ N \in Nat /\ DOMAIN order = 1 .. N /\ order \in [1 .. N -> known]
      /\ \A n, m \in 1 .. N : order[n] = order[m] => n = m
      /\ \A k \in known : Doc!NumberOf(order, k) \in 1 .. N /\ order[Doc!NumberOf(order, k)] = k
  BY OrderRight
<1>2. IsFiniteSet(known) /\ known \subseteq Works
  BY FS_Subset, DocumentsAssumption DEF Doc!Known, Asks
<1>3. Doc!ToSet(order) = known
  BY <1>1 DEF Doc!ToSet
<1>4. Doc!Bibliography(order, style) = <<style, IF style \in Numeric THEN order ELSE sorted>>
  BY <1>3 DEF Doc!Bibliography
<1>5. Doc!IsInjective(order)
  BY <1>1 DEF Doc!IsInjective
<1> HIDE DEF order, known, N
<1>6. \A k \in known : Filed[k] \in Nat /\ number(k) \in Nat
  BY <1>1, <1>2, DocumentsAssumption
<1>7. \A k, w \in known : number(k) = number(w) => k = w
  BY <1>1
<1> HIDE DEF number
<1>8. upTo \in [known -> SUBSET known]
  OBVIOUS
<1>9. \A k \in known : k \in upTo[k]
  BY <1>6
<1>10. \A k, w \in known : upTo[k] \subseteq upTo[w] \/ upTo[w] \subseteq upTo[k]
  BY <1>6
<1>11. ASSUME NEW k \in known, NEW w \in known, upTo[k] = upTo[w] PROVE k = w
  <2>1. k \in upTo[w] /\ w \in upTo[k]
    BY <1>9, <1>11
  <2>2. number(k) = number(w)
    BY <1>6, <2>1
  <2> QED
    BY <1>7, <2>2
<1> HIDE DEF upTo
<1>12. /\ sorted = [n \in 1 .. N |-> sorted[n]]
       /\ \A n \in 1 .. N : sorted[n] \in known /\ Cardinality(upTo[sorted[n]]) = n
       /\ \A k \in known : Cardinality(upTo[k]) \in 1 .. N /\ sorted[Cardinality(upTo[k])] = k
  BY <1>2, <1>8, <1>9, <1>10, <1>11, OrderedIsRight DEF N
<1> HIDE DEF sorted
<1>13. DOMAIN sorted = 1 .. N
  BY <1>12
<1>14. Doc!ToSet(sorted) = known
  BY <1>12, <1>13 DEF Doc!ToSet
<1>15. Doc!IsInjective(sorted)
  BY <1>12, <1>13 DEF Doc!IsInjective
<1> QED
  BY <1>3, <1>4, <1>5, <1>14, <1>15 DEF known, order, sorted

-----------------------------------------------------------------------------
\* What the document would be told if it were rendered now; and that it has
\* been told, as far as there was anything to tell.
Page == Doc!Plan(document, library, saved)
Fits ==
  /\ \A f \in Doc!ToSet(document) : Page.updated[f] # Doc!Nothing => text[f] = Page.updated[f]
  /\ list \in {Doc!Nothing, Page.bibliography}

\* It depends on what the document and the library are, not on the pane.
LEMMA SamePage ==
  ASSUME UNCHANGED <<document, cites, saved, library>>
  PROVE  Page' = Page
BY DEF Page, Doc!Plan, Doc!RenderField, Doc!Bibliography, Doc!Order, Doc!Ordered, Doc!NumberOf, Doc!Known, Doc!Places, Doc!Cited, Doc!Before

LEMMA SameFits ==
  ASSUME UNCHANGED <<document, cites, text, list, saved, library>>
  PROVE  Fits' <=> Fits
BY SamePage DEF Fits

\* A document that fits its page is rendered as it should be.
LEMMA FitsSay ==
  ASSUME Asks(document, library), Fits
  PROVE  /\ \A p \in Doc!Shown : Doc!ShownAs(p) # Doc!Nothing /\ Doc!ShownAs(p)[1] = saved
         /\ list # Doc!Nothing =>
              /\ list[1] = saved /\ Doc!IsInjective(list[2])
              /\ Doc!ToSet(list[2]) = Doc!Known(document, library)
         /\ saved \in Numeric => \A p \in Doc!Shown :
              /\ \/ Doc!ShownAs(p)[2][p[2]] = 1
                 \/ \E q \in Doc!Shown : Doc!Before(q, p) /\ Doc!ShownAs(q)[2][q[2]] + 1 >= Doc!ShownAs(p)[2][p[2]]
              /\ list # Doc!Nothing => list[2][Doc!ShownAs(p)[2][p[2]]] = Doc!Cited(document, p)
<1> DEFINE known == Doc!Known(document, library)
           order == Doc!Order(document, library)
           N == Cardinality(known)
           number(k) == Doc!NumberOf(order, k)
<1>1. /\ N \in Nat /\ DOMAIN order = 1 .. N /\ order \in [1 .. N -> known]
      /\ \A k \in known : number(k) \in 1 .. N /\ order[number(k)] = k
      /\ \A p \in Doc!Places(document) : Doc!Cited(document, p) \in library =>
           \/ number(Doc!Cited(document, p)) = 1
           \/ \E q \in Doc!Places(document) :
                /\ Doc!Cited(document, q) \in library /\ Doc!Before(q, p)
                /\ number(Doc!Cited(document, q)) + 1 = number(Doc!Cited(document, p))
  BY OrderRight
<1>2. ASSUME NEW p \in Doc!Shown
      PROVE  /\ Doc!ShownAs(p) # Doc!Nothing /\ Doc!ShownAs(p)[1] = saved
             /\ saved \in Numeric => Doc!ShownAs(p)[2][p[2]] = number(Doc!Cited(document, p))
             /\ Doc!Cited(document, p) \in known
  <2> DEFINE f == document[p[1]]
             there == {n \in DOMAIN cites[f] : cites[f][n] \in library}
             mark(k) == IF saved \in Numeric THEN Doc!NumberOf(order, k) ELSE k
  <2>1. p \in Doc!Places(document) /\ Doc!Cited(document, p) \in library
    BY DEF Doc!Shown
  <2>2. p[1] \in DOMAIN document /\ p[2] \in DOMAIN cites[f]
    BY <2>1, PlacesAre
  <2>3. f \in Doc!ToSet(document)
    BY <2>2 DEF Doc!ToSet
  <2>4. p[2] \in there /\ cites[f][p[2]] = Doc!Cited(document, p)
    BY <2>1, <2>2 DEF Doc!Cited
  <2>5. Page.updated[f] = Doc!RenderField(f, order, library, saved)
    BY <2>3 DEF Page, Doc!Plan
  <2>6. Doc!RenderField(f, order, library, saved) = <<saved, [n \in there |-> mark(cites[f][n])]>>
    BY <2>4 DEF Doc!RenderField
  <2>7. text[f] = <<saved, [n \in there |-> mark(cites[f][n])]>>
    BY <2>3, <2>5, <2>6 DEF Fits, Doc!Nothing
  <2>8. Doc!ShownAs(p) = text[f]
    BY DEF Doc!ShownAs
  <2>9. Doc!Cited(document, p) \in known
    BY <2>1 DEF Doc!Known
  <2> QED
    BY <2>4, <2>7, <2>8, <2>9 DEF Doc!Nothing
<1>3. ASSUME list # Doc!Nothing
      PROVE  /\ list[1] = saved /\ Doc!ToSet(list[2]) = known /\ Doc!IsInjective(list[2])
             /\ saved \in Numeric => list[2] = order
  <2>1. list = Doc!Bibliography(order, saved)
    BY <1>3 DEF Fits, Page, Doc!Plan
  <2> QED
    BY <2>1, BibliographyRight
<1>4. ASSUME saved \in Numeric, NEW p \in Doc!Shown
      PROVE  /\ \/ Doc!ShownAs(p)[2][p[2]] = 1
                \/ \E q \in Doc!Shown : Doc!Before(q, p) /\ Doc!ShownAs(q)[2][q[2]] + 1 >= Doc!ShownAs(p)[2][p[2]]
             /\ list # Doc!Nothing => list[2][Doc!ShownAs(p)[2][p[2]]] = Doc!Cited(document, p)
  <2>1. Doc!ShownAs(p)[2][p[2]] = number(Doc!Cited(document, p)) /\ Doc!Cited(document, p) \in known
    BY <1>2, <1>4
  <2>2. p \in Doc!Places(document) /\ Doc!Cited(document, p) \in library
    BY DEF Doc!Shown
  <2>3. ASSUME number(Doc!Cited(document, p)) # 1
        PROVE  \E q \in Doc!Shown : Doc!Before(q, p) /\ Doc!ShownAs(q)[2][q[2]] + 1 >= Doc!ShownAs(p)[2][p[2]]
    <3>1. PICK q \in Doc!Places(document) :
                /\ Doc!Cited(document, q) \in library /\ Doc!Before(q, p)
                /\ number(Doc!Cited(document, q)) + 1 = number(Doc!Cited(document, p))
      BY <1>1, <2>2, <2>3
    <3>2. q \in Doc!Shown
      BY <3>1 DEF Doc!Shown
    <3>3. Doc!ShownAs(q)[2][q[2]] = number(Doc!Cited(document, q))
      BY <1>2, <1>4, <3>2
    <3>4. number(Doc!Cited(document, p)) \in Nat
      BY <1>1, <2>1
    <3> HIDE DEF number
    <3>5. Doc!ShownAs(q)[2][q[2]] + 1 >= Doc!ShownAs(p)[2][p[2]]
      BY <2>1, <3>1, <3>3, <3>4
    <3> QED
      BY <3>1, <3>2, <3>5
  <2>4. list # Doc!Nothing => list[2][Doc!ShownAs(p)[2][p[2]]] = Doc!Cited(document, p)
    BY <1>1, <1>3, <1>4, <2>1
  <2> QED
    BY <2>1, <2>3, <2>4
<1> QED
  BY <1>2, <1>3, <1>4

-----------------------------------------------------------------------------
\* What the pane is doing, also while it opens a session in between.
Phase == IF pane.at = "opening" THEN pane.then ELSE pane.at

DocTypes ==
  /\ Asks(document, library)
  /\ text = [f \in Fields |-> text[f]]
  /\ fresh \in BOOLEAN
  /\ pane = [at |-> pane.at, then |-> pane.then, style |-> pane.style, ids |-> pane.ids, plan |-> pane.plan,
             again |-> pane.again]
  /\ pane.at \in {"opening", "idle", "reading", "asking", "answered", "restyling", "told"}
  /\ pane.then \in {"idle", "asking", "restyling"}
  /\ Phase \in {"idle", "reading"} => pane.style = Doc!None
  /\ Phase \in {"restyling", "told"} => pane.style \in Styles
  /\ Phase = "asking" => pane.style \in {Doc!None, "list"}

\* The document carries a style from the first session on, and the server knows
\* no other one, but for the moment before the document learns of a choice.
StyleInv ==
  /\ saved \in {Doc!None} \cup Styles /\ saved \in {Doc!None, chosen}
  /\ pane.at # "opening" => saved # Doc!None
  /\ pane.at \notin {"opening", "told"} => session \in {Doc!None, saved}
  /\ pane.at = "told" => session \in {Doc!None, pane.style}
  /\ pane.at = "opening" /\ saved = Doc!None =>
       session = Doc!None /\ chosen = Default /\ document = <<>> /\ list = Doc!Nothing /\ pane.then = "idle"

\* What the pane holds is of the document and the library as they are, until
\* something is edited.
SheetInv ==
  fresh =>
    /\ Phase \in {"idle", "restyling"} => Fits
    /\ Phase \in {"asking", "answered"} => pane.ids = document /\ (pane.style = "list" => Fits)
    /\ pane.at = "answered" => pane.plan = Page

DocInv == DocTypes /\ StyleInv /\ SheetInv

LEMMA NothingFits ==
  ASSUME document = <<>>, list = Doc!Nothing
  PROVE  Fits
BY DEF Fits, Doc!ToSet

LEMMA DocInit == Doc!Init => DocInv
<1> SUFFICES ASSUME Doc!Init PROVE DocInv
  OBVIOUS
<1> USE DEF Doc!Init, Doc!Idle, Doc!None, Doc!Nothing
<1>1. pane = [at |-> "opening", then |-> "idle", style |-> "none", ids |-> <<>>, plan |-> <<>>, again |-> FALSE]
  OBVIOUS
<1>2. DocTypes
  <2>1. Asks(document, library)
    BY DEF Asks
  <2>2. text = [f \in Fields |-> text[f]]
    OBVIOUS
  <2> QED
    BY <1>1, <2>1, <2>2 DEF DocTypes, Phase
<1>3. StyleInv
  BY <1>1 DEF StyleInv
<1>4. Fits
  BY NothingFits
<1>5. SheetInv
  BY <1>1, <1>4 DEF SheetInv, Phase
<1> QED
  BY <1>2, <1>3, <1>5 DEF DocInv

LEMMA DocInvSays == DocInv => Doc!DocumentsRight
<1> SUFFICES ASSUME DocInv PROVE Doc!DocumentsRight
  OBVIOUS
<1>1. Asks(document, library)
  BY DEF DocInv, DocTypes
<1>2. Doc!Settled => Fits
  BY DEF DocInv, SheetInv, Doc!Settled, Phase
<1>3. Doc!Rendered
  BY <1>1, <1>2, FitsSay DEF Doc!Rendered
<1>4. Doc!NumbersAgree
  BY <1>1, <1>2, FitsSay DEF Doc!NumbersAgree
<1>5. Doc!StyleKept
  BY DEF DocInv, StyleInv, Doc!StyleKept
<1> QED
  BY <1>3, <1>4, <1>5 DEF Doc!DocumentsRight

\* The session is opened: the document's style stays what it was, if it had one.
LEMMA OpenStep == DocInv /\ Doc!Open => DocInv'
<1> SUFFICES ASSUME DocInv, Doc!Open PROVE DocInv'
  OBVIOUS
<1> USE DEF DocInv, Doc!Open, Doc!serverVars, Doc!authorVars
<1>1. /\ pane.at = "opening" /\ pane'.at = pane.then /\ pane'.then = "idle" /\ pane'.style = pane.style
      /\ pane'.ids = pane.ids /\ pane'.plan = pane.plan /\ Phase' = Phase
      /\ pane' = [at |-> pane'.at, then |-> pane'.then, style |-> pane'.style, ids |-> pane'.ids,
                  plan |-> pane'.plan, again |-> pane'.again]
  BY DEF DocTypes, Phase
<1>2. session' = saved' /\ (saved # Doc!None => saved' = saved)
  OBVIOUS
<1>3. DocTypes'
  BY <1>1 DEF DocTypes, Asks
<1>4. StyleInv'
  BY <1>1, <1>2, DocumentsAssumption DEF StyleInv, Doc!None, DocTypes
<1>5. SheetInv'
  <2>1. CASE saved = Doc!None
    <3>1. document' = <<>> /\ list' = Doc!Nothing' /\ pane.then = "idle"
      BY <1>1, <2>1 DEF StyleInv, Doc!Nothing
    <3>2. Fits'
      BY <3>1 DEF Fits, Doc!ToSet, Doc!Nothing
    <3> QED
      BY <1>1, <3>1, <3>2 DEF SheetInv, Phase
  <2>2. CASE saved # Doc!None
    <3>1. (Fits' <=> Fits) /\ Page' = Page
      BY <1>2, <2>2, SameFits, SamePage
    <3> QED
      BY <1>1, <3>1 DEF SheetInv, DocTypes, Phase
  <2> QED
    BY <2>1, <2>2
<1> QED
  BY <1>3, <1>4, <1>5

\* The author begins something, or it is read what there is.
LEMMA BeginStep ==
  ASSUME DocInv, \/ \E f \in Fields, place \in 1 .. (Len(document) + 1), keys \in Citations : Doc!Insert(f, place, keys)
                 \/ Doc!Refresh \/ Doc!InsertBibliography \/ Doc!ReadFields
                 \/ \E s \in Styles : Doc!ChangeStyle(s)
  PROVE  DocInv'
<1> USE DEF DocInv, Doc!serverVars, Doc!authorVars, Doc!None
<1>1. ASSUME NEW f \in Fields, NEW place \in 1 .. (Len(document) + 1), NEW keys \in Citations, Doc!Insert(f, place, keys)
      PROVE  DocInv'
  <2> USE <1>1 DEF Doc!Insert
  <2>1. /\ pane' = [at |-> "reading", then |-> pane.then, style |-> pane.style, ids |-> pane.ids, plan |-> pane.plan,
                    again |-> pane.again]
        /\ Phase' = "reading"
    BY DEF DocTypes, Phase
  <2>2. Asks(document, library)'
    <3>1. document \in Seq(Fields) /\ cites \in [Fields -> Seq(Works)] /\ library \subseteq Works
      BY DEF DocTypes, Asks
    <3>2. document' = Doc!InsertAt(document, place, f)
      OBVIOUS
    <3>3. document' = SubSeq(document, 1, place - 1) \o <<f>> \o SubSeq(document, place, Len(document))
      BY <3>2 DEF Doc!InsertAt
    <3>4. SubSeq(document, 1, place - 1) \in Seq(Fields) /\ SubSeq(document, place, Len(document)) \in Seq(Fields)
      BY <3>1
    <3>5. document' \in Seq(Fields)
      BY SMTT(30), <3>3, <3>4
    <3>6. keys \in Seq(Works)
      BY DocumentsAssumption
    <3> QED
      BY <3>1, <3>5, <3>6 DEF Asks
  <2>3. text' = [g \in Fields |-> text'[g]]
    BY DEF DocTypes
  <2>4. DocTypes'
    BY <2>1, <2>2, <2>3 DEF DocTypes, Phase
  <2>5. StyleInv'
    BY <2>1 DEF StyleInv
  <2>6. SheetInv'
    BY <2>1 DEF SheetInv
  <2> QED
    BY <2>4, <2>5, <2>6
<1>2. CASE Doc!Refresh
  <2> USE <1>2 DEF Doc!Refresh
  <2>1. pane' = [at |-> "reading", then |-> pane.then, style |-> pane.style, ids |-> pane.ids, plan |-> pane.plan,
                 again |-> pane.again]
    BY DEF DocTypes
  <2>2. DocTypes' /\ StyleInv' /\ SheetInv'
    BY <2>1 DEF DocTypes, StyleInv, SheetInv, Phase, Asks
  <2> QED
    BY <2>2
<1>3. CASE Doc!InsertBibliography
  <2> USE <1>3 DEF Doc!InsertBibliography
  <2>1. pane' = [at |-> "asking", then |-> pane.then, style |-> "list", ids |-> document, plan |-> pane.plan,
                 again |-> pane.again]
    BY DEF DocTypes
  <2>2. Fits' <=> Fits
    BY SameFits
  <2>3. DocTypes' /\ StyleInv'
    BY <2>1 DEF DocTypes, StyleInv, Phase, Asks
  <2>4. SheetInv'
    BY <2>1, <2>2 DEF SheetInv, Phase
  <2> QED
    BY <2>3, <2>4
<1>4. CASE Doc!ReadFields
  <2> USE <1>4 DEF Doc!ReadFields
  <2>1. pane' = [at |-> "asking", then |-> pane.then, style |-> pane.style, ids |-> document, plan |-> pane.plan,
                 again |-> pane.again]
    BY DEF DocTypes
  <2>2. DocTypes' /\ StyleInv'
    BY <2>1 DEF DocTypes, StyleInv, Phase, Asks
  <2>3. pane.style = "none"
    BY DEF DocTypes, Phase
  <2>4. SheetInv'
    BY <2>1, <2>3 DEF SheetInv, Phase
  <2> QED
    BY <2>2, <2>4
<1>5. ASSUME NEW s \in Styles, Doc!ChangeStyle(s) PROVE DocInv'
  <2> USE <1>5 DEF Doc!ChangeStyle
  <2>1. pane' = [at |-> "restyling", then |-> pane.then, style |-> s, ids |-> pane.ids, plan |-> pane.plan,
                 again |-> pane.again]
    BY DEF DocTypes
  <2>2. Fits' <=> Fits
    BY SameFits
  <2>3. DocTypes' /\ StyleInv'
    BY <2>1 DEF DocTypes, StyleInv, Phase, Asks
  <2>4. SheetInv'
    BY <2>1, <2>2 DEF SheetInv, Phase
  <2> QED
    BY <2>3, <2>4
<1> QED
  BY <1>1, <1>2, <1>3, <1>4, <1>5

\* The server answers, and the pane writes what it is told.
LEMMA RenderStep ==
  ASSUME DocInv, Doc!Answer \/ Doc!ApplyPlan \/ Doc!SetPrefs \/ Doc!SavePrefs
  PROVE  DocInv'
<1> USE DEF DocInv, Doc!serverVars, Doc!authorVars, Doc!None
<1>1. ASSUME UNCHANGED <<document, library, cites>> PROVE Asks(document, library)'
  BY <1>1 DEF DocTypes, Asks
<1>2. CASE Doc!Answer
  <2>0. pane.at = "asking" /\ UNCHANGED <<document, cites, text, list, saved, library, session, chosen>>
    BY <1>2 DEF Doc!Answer
  <2>6. pane' = IF session = "none" THEN Doc!Retry
                ELSE [pane EXCEPT !.at = "answered", !.plan = Doc!Plan(pane.ids, library, session)]
    BY <1>2 DEF Doc!Answer
  <2>5. fresh' \in BOOLEAN /\ (fresh' => fresh) /\ (fresh' /\ pane'.at = "idle" => pane.style = "list")
    BY <1>2 DEF Doc!Answer, DocTypes
  <2> USE <2>0
  <2>1. (Fits' <=> Fits) /\ Page' = Page
    BY SameFits, SamePage
  <2>2. CASE session = "none" /\ pane.again
    <3>1. pane' = [at |-> "idle", then |-> "idle", style |-> "none", ids |-> <<>>, plan |-> <<>>, again |-> FALSE]
      BY <2>2, <2>6 DEF Doc!Retry, Doc!Idle, Doc!Nothing
    <3>2. DocTypes'
      BY <1>1, <2>5, <3>1 DEF DocTypes, Phase
    <3>3. StyleInv'
      BY <3>1 DEF StyleInv
    <3>4. fresh' => fresh /\ pane.style = "list"
      BY <2>5, <3>1
    <3>5. fresh' => Fits'
      BY <2>1, <3>4 DEF SheetInv, Phase
    <3>6. SheetInv'
      BY <3>1, <3>5 DEF SheetInv, Phase
    <3> QED
      BY <3>2, <3>3, <3>6
  <2>3. CASE session = "none" /\ ~pane.again
    <3>1. pane' = [at |-> "opening", then |-> "asking", style |-> pane.style, ids |-> pane.ids, plan |-> pane.plan,
                   again |-> TRUE]
      BY <2>3, <2>6 DEF Doc!Retry, DocTypes
    <3>3. DocTypes'
      BY <1>1, <2>5, <3>1 DEF DocTypes, Phase
    <3>4. StyleInv'
      BY <3>1 DEF StyleInv
    <3>5. SheetInv'
      BY <2>1, <2>5, <3>1 DEF SheetInv, Phase
    <3> QED
      BY <3>3, <3>4, <3>5
  <2>4. CASE session # "none"
    <3>1. pane' = [at |-> "answered", then |-> pane.then, style |-> pane.style, ids |-> pane.ids,
                   plan |-> Doc!Plan(pane.ids, library, session), again |-> pane.again]
      BY <2>4, <2>6 DEF DocTypes
    <3>3. session = saved
      BY <2>4 DEF StyleInv
    <3>4. DocTypes'
      BY <1>1, <2>5, <3>1 DEF DocTypes, Phase
    <3>5. StyleInv'
      BY <3>1 DEF StyleInv
    <3>6. fresh => pane'.plan = Page'
      BY <2>1, <3>1, <3>3 DEF SheetInv, Phase, Page
    <3>7. SheetInv'
      BY <2>1, <2>5, <3>1, <3>6 DEF SheetInv, Phase
    <3> QED
      BY <3>4, <3>5, <3>7
  <2> QED
    BY <2>2, <2>3, <2>4
<1>3. CASE Doc!ApplyPlan
  <2> USE <1>3 DEF Doc!ApplyPlan
  <2>1. pane' = [at |-> "idle", then |-> "idle", style |-> "none", ids |-> <<>>, plan |-> <<>>, again |-> FALSE]
    BY DEF Doc!Idle, Doc!Nothing
  <2>2. text' = [f \in Fields |-> text'[f]]
    BY DEF DocTypes
  <2>3. DocTypes'
    BY <1>1, <2>1, <2>2 DEF DocTypes, Phase
  <2>4. StyleInv'
    BY <2>1 DEF StyleInv
  <2>5. ASSUME fresh PROVE Fits'
    <3>1. pane.ids = document /\ pane.plan = Page /\ (pane.style = "list" => Fits)
      BY <2>5 DEF SheetInv, Phase
    <3>2. Page' = Page
      BY SamePage
    <3>3. list' \in {Doc!Nothing, Page.bibliography}
      BY <3>1 DEF Fits
    <3>4. \A f \in Doc!ToSet(document) : f \in Fields /\ f \in DOMAIN Page.updated
      BY DEF DocTypes, Asks, Doc!ToSet, Page, Doc!Plan
    <3>5. \A f \in Doc!ToSet(document) : Page.updated[f] # Doc!Nothing => text'[f] = Page.updated[f]
      BY <3>1, <3>4 DEF Fits, Doc!Told
    <3>6. (\A f \in Doc!ToSet(document) : Page.updated[f] # Doc!Nothing => text[f] = Page.updated[f])'
      BY <3>2, <3>5 DEF Doc!ToSet, Doc!Nothing
    <3> QED
      BY <3>2, <3>3, <3>6 DEF Fits, Doc!Nothing
  <2>6. SheetInv'
    BY <2>1, <2>5 DEF SheetInv, Phase
  <2> QED
    BY <2>3, <2>4, <2>6
<1>4. CASE Doc!SetPrefs
  <2> USE <1>4 DEF Doc!SetPrefs
  <2>1. Fits' <=> Fits
    BY SameFits
  <2>2. pane.style \in Styles /\ Phase = "restyling"
    BY DEF DocTypes, Phase
  <2>3. CASE session = "none" /\ pane.again
    <3>1. pane' = [at |-> "idle", then |-> "idle", style |-> "none", ids |-> <<>>, plan |-> <<>>, again |-> FALSE]
      BY <2>3 DEF Doc!Retry, Doc!Idle, Doc!Nothing
    <3>2. DocTypes'
      BY <1>1, <3>1 DEF DocTypes, Phase
    <3>3. StyleInv' /\ SheetInv'
      BY <2>1, <2>2, <2>3, <3>1 DEF StyleInv, SheetInv, Phase
    <3> QED
      BY <3>2, <3>3
  <2>4. CASE session = "none" /\ ~pane.again
    <3>1. pane' = [at |-> "opening", then |-> "restyling", style |-> pane.style, ids |-> pane.ids, plan |-> pane.plan,
                   again |-> TRUE]
      BY <2>4 DEF Doc!Retry, DocTypes
    <3>2. DocTypes'
      BY <1>1, <2>2, <3>1 DEF DocTypes, Phase
    <3>3. StyleInv' /\ SheetInv'
      BY <2>1, <2>2, <2>4, <3>1 DEF StyleInv, SheetInv, Phase
    <3> QED
      BY <3>2, <3>3
  <2>5. CASE session # "none"
    <3>1. pane' = [at |-> "told", then |-> pane.then, style |-> pane.style, ids |-> pane.ids, plan |-> pane.plan,
                   again |-> pane.again]
      BY <2>5 DEF DocTypes
    <3>2. DocTypes'
      BY <1>1, <2>2, <3>1 DEF DocTypes, Phase
    <3>3. StyleInv' /\ SheetInv'
      BY <2>5, <3>1 DEF StyleInv, SheetInv, Phase
    <3> QED
      BY <3>2, <3>3
  <2> QED
    BY <2>3, <2>4, <2>5
<1>5. CASE Doc!SavePrefs
  <2>1. pane' = [at |-> "reading", then |-> "idle", style |-> "none", ids |-> <<>>, plan |-> <<>>, again |-> FALSE]
    BY <1>5 DEF Doc!SavePrefs, Doc!Idle, Doc!Nothing
  <2>5. /\ ~fresh' /\ fresh' \in BOOLEAN /\ pane.at = "told" /\ saved' = pane.style /\ chosen' = pane.style
        /\ UNCHANGED <<document, cites, text, list, library, session>>
    BY <1>5 DEF Doc!SavePrefs
  <2>2. pane.style \in Styles
    BY <2>5 DEF DocTypes, Phase
  <2>3. DocTypes'
    BY <1>1, <2>1, <2>5 DEF DocTypes, Phase
  <2>4. StyleInv' /\ SheetInv'
    BY <2>1, <2>2, <2>5, DocumentsAssumption DEF StyleInv, SheetInv, Phase
  <2> QED
    BY <2>3, <2>4
<1> QED
  BY <1>2, <1>3, <1>4, <1>5

\* The author works meanwhile, the server forgets, the pane is closed.
LEMMA MeanwhileStep ==
  ASSUME DocInv, \/ \E n \in 1 .. Cardinality(Fields) : Doc!Erase(n) \/ Doc!Move(n)
                 \/ \E k \in Works : Doc!Library(k)
                 \/ Doc!Forget \/ Doc!Reload
  PROVE  DocInv'
<1> USE DEF DocInv, Doc!serverVars, Doc!authorVars, Doc!None
<1>1. ASSUME Doc!Edited, UNCHANGED <<pane, text, list, cites, saved, session>>,
             document' \in Seq(Fields), library' \subseteq Works, document = <<>> => document' = <<>>
      PROVE  DocInv'
  <2>1. DocTypes'
    BY <1>1 DEF DocTypes, Asks, Phase, Doc!Edited
  <2>2. StyleInv' /\ SheetInv'
    BY <1>1 DEF StyleInv, SheetInv, Doc!Edited, Doc!Nothing
  <2> QED
    BY <2>1, <2>2
<1>2. document \in Seq(Fields) /\ library \subseteq Works
  BY DEF DocTypes, Asks
<1>3. ASSUME NEW n \in 1 .. Cardinality(Fields), Doc!Erase(n) PROVE DocInv'
  <2>1. document' = SubSeq(document, 1, n - 1) \o SubSeq(document, n + 1, Len(document)) /\ n \in DOMAIN document
    BY <1>3 DEF Doc!Erase, Doc!RemoveAt
  <2>2. SubSeq(document, 1, n - 1) \in Seq(Fields) /\ SubSeq(document, n + 1, Len(document)) \in Seq(Fields)
    BY <1>2, <2>1
  <2> QED
    BY <1>1, <1>2, <1>3, <2>1, <2>2 DEF Doc!Erase
<1>4. ASSUME NEW n \in 1 .. Cardinality(Fields), Doc!Move(n) PROVE DocInv'
  <2>1. n + 1 \in DOMAIN document
    BY <1>4 DEF Doc!Move
  <2>2. document' \in Seq(Fields)
    BY <1>2, <1>4, <2>1 DEF Doc!Move
  <2> QED
    BY <1>1, <1>2, <1>4, <2>1, <2>2 DEF Doc!Move
<1>5. ASSUME NEW k \in Works, Doc!Library(k) PROVE DocInv'
  BY <1>1, <1>2, <1>5 DEF Doc!Library
<1>6. CASE Doc!Forget
  <2> USE <1>6 DEF Doc!Forget
  <2>1. DocTypes'
    BY DEF DocTypes, Asks, Phase
  <2>2. (Fits' <=> Fits) /\ Page' = Page
    BY SameFits, SamePage
  <2>3. StyleInv' /\ SheetInv'
    BY <2>2 DEF StyleInv, SheetInv, Phase
  <2> QED
    BY <2>1, <2>3
<1>7. CASE Doc!Reload
  <2>1. pane' = [at |-> "opening", then |-> "idle", style |-> "none", ids |-> <<>>, plan |-> <<>>, again |-> FALSE]
    BY <1>7 DEF Doc!Reload, Doc!Idle, Doc!Nothing
  <2>2. fresh' \in BOOLEAN /\ (fresh' => fresh /\ pane.at = "idle")
    BY <1>7 DEF Doc!Reload, DocTypes
  <2>7. pane.at # "opening" /\ UNCHANGED <<document, cites, text, list, saved, library, session, chosen>>
    BY <1>7 DEF Doc!Reload
  <2>3. DocTypes'
    BY <2>1, <2>2, <2>7 DEF DocTypes, Asks, Phase
  <2>4. Fits' <=> Fits
    BY <2>7, SameFits
  <2>5. StyleInv'
    BY <2>1, <2>7 DEF StyleInv
  <2>6. SheetInv'
    BY <2>1, <2>2, <2>4 DEF SheetInv, Phase
  <2> QED
    BY <2>3, <2>5, <2>6
<1> QED
  BY <1>3, <1>4, <1>5, <1>6, <1>7

LEMMA DocStep == DocInv /\ [Doc!Next]_Doc!vars => DocInv'
<1> SUFFICES ASSUME DocInv, [Doc!Next]_Doc!vars PROVE DocInv'
  OBVIOUS
<1>1. CASE Doc!Next
  BY <1>1, DocCount, OpenStep, BeginStep, RenderStep, MeanwhileStep DEF Doc!Next
<1>2. CASE UNCHANGED Doc!vars
  <2> USE <1>2 DEF Doc!vars, Doc!serverVars, Doc!authorVars
  <2>1. (Fits' <=> Fits) /\ Page' = Page
    BY SameFits, SamePage
  <2>2. DocTypes' /\ StyleInv' /\ SheetInv'
    BY <2>1 DEF DocInv, DocTypes, StyleInv, SheetInv, Phase, Asks, Doc!Nothing, Doc!None
  <2> QED
    BY <2>2 DEF DocInv
<1> QED
  BY <1>1, <1>2

\* What a citation shows is replaced, never taken away.
LEMMA DocKeeps == DocInv /\ [Doc!Next]_Doc!vars => Doc!NoneIsBlanked
<1> SUFFICES ASSUME DocInv, [Doc!Next]_Doc!vars, NEW f \in Fields,
                    f \in Doc!ToSet(document), text[f] # Doc!Nothing
             PROVE  text'[f] # Doc!Nothing
  BY DEF Doc!NoneIsBlanked, Doc!Nothing
<1> USE DEF Doc!Next, Doc!serverVars, Doc!authorVars
<1>1. ASSUME NEW g \in Fields, NEW place \in 1 .. (Len(document) + 1), NEW keys \in Citations, Doc!Insert(g, place, keys)
      PROVE  text'[f] # Doc!Nothing
  BY <1>1 DEF Doc!Insert, DocInv, DocTypes
<1>2. CASE Doc!ApplyPlan
  BY <1>2 DEF Doc!ApplyPlan, Doc!Told
<1>3. CASE UNCHANGED text
  BY <1>3
<1>4. \/ \E g \in Fields, place \in 1 .. (Len(document) + 1), keys \in Citations : Doc!Insert(g, place, keys)
      \/ Doc!ApplyPlan \/ UNCHANGED text
  BY DEF Doc!vars, Doc!Open, Doc!Refresh, Doc!InsertBibliography, Doc!ReadFields, Doc!Answer, Doc!SetPrefs, Doc!SavePrefs,
         Doc!Forget, Doc!Reload, Doc!ChangeStyle, Doc!Erase, Doc!Move, Doc!Library
<1> QED
  BY <1>1, <1>2, <1>3, <1>4

\* document::plan, taskpane.js: once a document was rendered and nothing was
\* edited since, each citation and the bibliography show what is cited, as
\* numbered or sorted, in the style its author chose last, whatever the server
\* forgot and whenever the pane was closed.
THEOREM DocumentsAreRight == PagesSpec => []DocumentsRight
<1>1. PagesInit => DocInv
  BY DocInit DEF PagesInit
<1>2. [PagesNext]_<<part, clientVars, feedVars, documentVars>> => [Doc!Next]_Doc!vars
  BY DEF PagesNext, documentVars, Doc!vars, Doc!serverVars, Doc!authorVars
<1>3. DocInv => DocumentsRight
  BY DocInvSays DEF DocumentsRight
<1> QED
  BY <1>1, <1>2, <1>3, DocStep, PTL DEF PagesSpec

\* update_item, applyPlan: no save that was accepted replaces what its editor
\* was not shown, but for tags and collections renamed or deleted behind the
\* version, and no citation that shows something is blanked.
THEOREM NothingIsLost == PagesSpec => NothingLost
<1>1. PagesInit => DocInv
  BY DocInit DEF PagesInit
<1>2. [PagesNext]_<<part, clientVars, feedVars, documentVars>> => [Doc!Next]_Doc!vars
  BY DEF PagesNext, documentVars, Doc!vars, Doc!serverVars, Doc!authorVars
<1>3. PagesInit => ClientInit
  BY DEF PagesInit
<1>4. [PagesNext]_<<part, clientVars, feedVars, documentVars>> => [ClientNext]_clientVars
  BY DEF PagesNext
<1>5. PagesSpec => ClientSpec
  BY <1>3, <1>4, PTL DEF PagesSpec, ClientSpec
<1>6. EditInv => [SavesWhatWasSeen]_<<clientVars, documentVars>>
  BY SavesSee
<1>7. PagesSpec => [][SavesWhatWasSeen]_<<clientVars, documentVars>>
  BY <1>5, <1>6, ImplementsEditing, EditInvariance, PTL
<1>8. /\ DocInv /\ [Doc!Next]_Doc!vars /\ [SavesWhatWasSeen]_<<clientVars, documentVars>>
      => [SavesWhatWasSeen /\ Doc!NoneIsBlanked]_<<clientVars, documentVars>>
  BY DocKeeps
<1> QED
  BY <1>1, <1>2, <1>7, <1>8, DocStep, PTL DEF PagesSpec, NothingLost
=============================================================================
