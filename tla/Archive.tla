------------------------------- MODULE Archive -------------------------------
(***************************************************************************)
(* Exporting a library as one archive                                      *)
(* (crates/yk-server/src/maintenance/export.rs) and merging an archive     *)
(* into a library (restore.rs), while the library is in use and the server *)
(* may stop.                                                               *)
(***************************************************************************)
EXTENDS Integers, FiniteSets

CONSTANTS
  Keys, NoKey,
  Page,       \* how many items are restored at a time
  MaxAdded,   \* bound on the items that are created
  MaxEdits,   \* bound on the other writes of users
  MaxStops    \* bound on the stops of the server

VARIABLES
  items,      \* the items of the library: parent, trashed, date_added
  files,      \* the version of the file on the disk, 0 without one
  archive,    \* what has been exported: its items and its files
  exporting,  \* where the export is
  left,       \* directories it has not visited
  restoring,  \* where the restore is
  page,       \* the keys in hand
  handled,    \* the archived keys it has been through
  present,    \* those of the page that were in the library
  added, edits, stops,
  steady,     \* history: files that were there since before the snapshot
  touched     \* history: what users changed, and what could not be created,
              \* since the restore began

library == <<items, files>>
export == <<archive, exporting, left>>
restore == <<restoring, page, handled, present>>
vars == <<library, export, restore, added, edits, stops, steady, touched>>

None == [parent |-> NoKey, trashed |-> FALSE, added |-> 0]
Row(parent, trashed, at) == [parent |-> parent, trashed |-> trashed, added |-> at]
Here == {k \in Keys : items[k] # None}
Archived == {k \in Keys : archive.items[k] # None}
NoArchive == [items |-> [k \in Keys |-> None], files |-> [k \in Keys |-> 0]]

Children(S) == {k \in Here : items[k].parent \in S}
Below(S) == {k \in Here : \A T \in SUBSET Here : S \cap Here \subseteq T /\ Children(T) \subseteq T => k \in T}

-----------------------------------------------------------------------------
(***************************************************************************)
(* Users.                                                                  *)
(***************************************************************************)

Edit(S) ==
  /\ edits < MaxEdits /\ edits' = edits + 1
  /\ touched' = IF restoring = "idle" THEN {} ELSE touched \cup S
  /\ UNCHANGED <<export, restore, stops>>

Create(k, p) ==
  /\ k \notin Here /\ p \in Here \cup {NoKey} /\ added < MaxAdded
  /\ added' = added + 1
  /\ items' = [items EXCEPT ![k] = Row(p, FALSE, added + 1)]
  /\ touched' = IF restoring = "idle" THEN {} ELSE touched \cup {k}
  /\ UNCHANGED <<files, export, restore, edits, stops, steady>>

SetTrashed(k, trashed) ==
  LET S == {k} \cup Children({k}) IN
  /\ k \in Here
  /\ items' = [h \in Keys |-> IF h \in S THEN [items[h] EXCEPT !.trashed = trashed] ELSE items[h]]
  /\ Edit(S) /\ UNCHANGED <<files, added, steady>>

\* An item that is deleted takes what is below it, and their files.
Delete(k) ==
  LET S == Below({k}) IN
  /\ k \in Here
  /\ items' = [h \in Keys |-> IF h \in S THEN None ELSE items[h]]
  /\ files' = [h \in Keys |-> IF h \in S THEN 0 ELSE files[h]]
  /\ steady' = steady \ S
  /\ Edit(S) /\ UNCHANGED added

\* The children of the other go to the master.
Merge(master, other) ==
  LET S == Children({other}) IN
  /\ master \in Here /\ other \in Here \ {master}
  /\ items' = [h \in Keys |-> IF h \in S THEN [items[h] EXCEPT !.parent = master]
                              ELSE IF h = other THEN [items[h] EXCEPT !.trashed = TRUE]
                              ELSE items[h]]
  /\ Edit(S \cup {master, other}) /\ UNCHANGED <<files, added, steady>>

PutFile(k) ==
  /\ k \in Here /\ files[k] < 2
  /\ files' = [files EXCEPT ![k] = @ + 1]
  /\ Edit({k}) /\ UNCHANGED <<items, added, steady>>

\* Another machine, with a library that is empty.
Move ==
  /\ exporting = "done" /\ restoring = "idle" /\ Here # {}
  /\ items' = [k \in Keys |-> None] /\ files' = [k \in Keys |-> 0]
  /\ steady' = {}
  /\ Edit({}) /\ UNCHANGED added

-----------------------------------------------------------------------------
(***************************************************************************)
(* export::run: a snapshot of the database, then the directories, one at a *)
(* time.                                                                   *)
(***************************************************************************)

Snapshot ==
  /\ exporting = "idle"
  /\ archive' = [items |-> items, files |-> [k \in Keys |-> 0]]
  /\ exporting' = "copying"
  /\ left' = {k \in Keys : files[k] # 0}
  /\ steady' = {k \in Here : files[k] # 0}
  /\ UNCHANGED <<library, restore, added, edits, stops, touched>>

\* A directory that was made since may be met or not.
CopyFile(k) ==
  /\ exporting = "copying" /\ k \in left \cup {h \in Keys : files[h] # 0 /\ archive.files[h] = 0}
  /\ archive' = [archive EXCEPT !.files[k] = files[k]]
  /\ left' = left \ {k}
  /\ UNCHANGED <<library, exporting, restore, added, edits, stops, steady, touched>>

\* Mutant of the next: the walk ends early.
Anyhow == TRUE

Walked == left = {}

Exported ==
  /\ exporting = "copying" /\ Walked
  /\ exporting' = "done"
  /\ UNCHANGED <<library, archive, left, restore, added, edits, stops, steady, touched>>

-----------------------------------------------------------------------------
(***************************************************************************)
(* restore::run.                                                           *)
(***************************************************************************)

Restore(where) == restoring' = where

Begin ==
  /\ exporting = "done" /\ restoring = "idle"
  /\ Restore("paging") /\ handled' = {} /\ page' = {} /\ present' = {}
  /\ touched' = {}
  /\ UNCHANGED <<library, export, added, edits, stops, steady>>

\* Items in the order they were added, and which of them are here.
ReadPage ==
  /\ restoring = "paging"
  /\ LET rest == Archived \ handled
         next == {k \in rest : Cardinality({h \in rest :
                    archive.items[h].added < archive.items[k].added}) < Page}
     IN /\ page' = next
        /\ present' = next \cap Here
        /\ IF next = {} THEN Restore("filing") /\ handled' = {}
           ELSE Restore("creating") /\ UNCHANGED handled
  /\ UNCHANGED <<library, export, added, edits, stops, steady, touched>>

\* Which drafts are created: those with a parent that is here, or was created
\* before them; in all, the least set that has these.
TakesIn(S, T) ==
  LET row == archive.items
      before(k) == {p \in T : row[p].added < row[k].added}
  IN \A k \in S : row[k].parent \in {NoKey} \cup Here \cup before(k) => k \in T

Created(S) ==
  LET drafts == S \ Here
  IN {k \in drafts : \A T \in SUBSET drafts : TakesIn(drafts, T) => k \in T}

\* In one transaction, alive.
CreatePage ==
  /\ restoring = "creating"
  /\ LET new == Created(page \ present) IN
     /\ items' = [k \in Keys |-> IF k \in new THEN [archive.items[k] EXCEPT !.trashed = FALSE]
                                 ELSE items[k]]
     /\ touched' = touched \cup (page \ (present \cup new))
  /\ Restore("binning")
  /\ UNCHANGED <<files, export, page, handled, present, added, edits, stops, steady>>

\* Mutant of the next: those that were here already are left alone.
BinnedNew == {k \in page \ present : archive.items[k].trashed}

\* What the archive had in the trash.
Binned == {k \in page : archive.items[k].trashed}

BinPage ==
  /\ restoring = "binning"
  /\ LET S == (Binned \cap Here) \cup Children(Binned) IN
     items' = [k \in Keys |-> IF k \in S THEN [items[k] EXCEPT !.trashed = TRUE] ELSE items[k]]
  /\ handled' = handled \cup page /\ Restore("paging")
  /\ UNCHANGED <<files, export, page, present, added, edits, stops, steady, touched>>

\* A file replaces what is there, whether or not its item is.
RestoreFile(k) ==
  /\ restoring = "filing" /\ k \notin handled /\ archive.files[k] # 0
  /\ handled' = handled \cup {k}
  /\ \/ files' = [files EXCEPT ![k] = archive.files[k]] /\ UNCHANGED touched
     \/ touched' = touched \cup {k} /\ UNCHANGED files
  /\ UNCHANGED <<items, export, restoring, page, present, added, edits, stops, steady>>

Restored ==
  /\ restoring = "filing" /\ \A k \in Keys : archive.files[k] # 0 => k \in handled
  /\ Restore("done")
  /\ UNCHANGED <<library, export, page, handled, present, added, edits, stops, steady, touched>>

\* Between two pages or two files the job is stopped; a restore that has ended
\* can be followed by another.
Leave ==
  /\ restoring \in {"paging", "filing", "done"}
  /\ Restore("idle") /\ page' = {} /\ handled' = {} /\ present' = {} /\ touched' = {}
  /\ UNCHANGED <<library, export, added, edits, stops, steady>>

Stop ==
  /\ stops < MaxStops /\ stops' = stops + 1
  /\ Restore("idle") /\ page' = {} /\ handled' = {} /\ present' = {} /\ touched' = {}
  /\ IF exporting = "done" THEN UNCHANGED export
     ELSE archive' = NoArchive /\ exporting' = "idle" /\ left' = {}
  /\ UNCHANGED <<library, added, edits, steady>>

-----------------------------------------------------------------------------
Init ==
  /\ items = [k \in Keys |-> None] /\ files = [k \in Keys |-> 0]
  /\ archive = NoArchive /\ exporting = "idle" /\ left = {}
  /\ restoring = "idle" /\ page = {} /\ handled = {} /\ present = {}
  /\ added = 0 /\ edits = 0 /\ stops = 0 /\ steady = {} /\ touched = {}

Next ==
  \/ \E k \in Keys :
       \/ \E p \in Keys \cup {NoKey} : Create(k, p)
       \/ \E t \in BOOLEAN : SetTrashed(k, t)
       \/ \E h \in Keys : Merge(k, h)
       \/ Delete(k) \/ PutFile(k) \/ CopyFile(k) \/ RestoreFile(k)
  \/ Move \/ Snapshot \/ Exported
  \/ Begin \/ ReadPage \/ CreatePage \/ BinPage \/ Restored \/ Leave \/ Stop

Spec == Init /\ [][Next]_vars

-----------------------------------------------------------------------------
\* "A library being written to while it is exported still arrives whole": the
\* file of an archived item that had it all along is in the archive (export).
FilesTravel ==
  exporting = "done" => \A k \in steady \cap Archived : archive.files[k] # 0

\* When a restore has ended, whatever was cut off before, each archived item
\* that no user has touched meanwhile, and whose parent had arrived, is there,
\* in the trash if the archive had it there, with its archived file (restore).
ArchiveComesBack ==
  restoring = "done" =>
    \A k \in Archived \ touched :
      /\ k \in Here
      /\ archive.items[k].trashed => items[k].trashed
      /\ archive.files[k] # 0 => files[k] = archive.files[k]

\* "Anything already present, by key, is left exactly as it is" (restore): a
\* page changes no item that was there when it was read.
PresentIsLeftAlone ==
  [][BinPage => \A k \in present : items'[k] = items[k]]_vars
=============================================================================
