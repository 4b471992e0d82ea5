------------------------------ MODULE Importing ------------------------------
(***************************************************************************)
(* Bringing a Zotero library across: what is read of it                    *)
(* (crates/yk-import/src/zotero.rs) and the task that merges it into this  *)
(* library (crates/yk-server/src/routes/import.rs), one write at a time,   *)
(* over and over.  Zotero's keys are kept, so what is here already is      *)
(* brought up to date.  The user goes on working in both programs, and may *)
(* stop the task.  A text is a number that grows as it is edited in        *)
(* Zotero, and Mine is what was written here.                              *)
(***************************************************************************)
EXTENDS Integers, Sequences, SequencesExt, FiniteSets

CONSTANTS
  Papers, Notes, Files, Marks,  \* Zotero's items, notes, attachments and annotations
  ParentOf,      \* the paper of a note or file, the file of an annotation, or Nobody
  Nobody,
  ShelfOrder,    \* Zotero's collections in the order of its table
  ShelfParent,   \* the parent of each, or Nobody
  Shelved,       \* which papers are in which: pairs
  Linked,        \* the attachments that are only links
  MaxText, MaxRuns, MaxEdits

VARIABLES
  text, binned,        \* Zotero's texts, and the papers in its trash
  here, trash, shelves, filed, stored,
                       \* ours: a text for each key that is here, the binned, the
                       \* collections, who is in them, the keys with bytes on disk
  task,                \* the import under way
  runs, edits, quiet   \* completed runs; edits; nobody has edited here since the task began

ours == <<here, trash, shelves, filed, stored>>
vars == <<text, binned, ours, task, runs, edits, quiet>>

Mine == 0 - 1
Keys == Papers \cup Notes \cup Files \cup Marks
Shelves == ToSet(ShelfOrder)
Is(k) == k \in DOMAIN here

\* Changed the way a bug would, to see that the properties notice:
\* collections are made in the order of Zotero's table;
TableOrder == ShelfOrder

\* Collections with a parent come after those without, in the order of the
\* table otherwise: a collection two levels down may come before its parent.
Ordered ==
  SelectSeq(ShelfOrder, LAMBDA c : ShelfParent[c] = Nobody) \o
  SelectSeq(ShelfOrder, LAMBDA c : ShelfParent[c] # Nobody)

\* What is read of Zotero: nothing that is in its trash itself, but what hangs
\* on a paper in its trash is read; a note may stand alone, a file may not.
ReadPapers == [k \in Papers \ binned |-> text[k]]
ReadNotes  == [k \in Notes \ binned |-> text[k]]
ReadFiles  == {k \in Files \ binned : ParentOf[k] # Nobody}
ReadMarks  == [k \in Marks \ binned |-> text[k]]
ReadMembership == [k \in Papers |-> {c \in Shelves : <<k, c>> \in Shelved}]
Read ==
  [papers |-> ReadPapers, notes |-> ReadNotes, files |-> ReadFiles, marks |-> ReadMarks,
   membership |-> ReadMembership]

Resting == [at |-> "rest", left |-> {}, library |-> Read, shelves |-> <<>>, stopped |-> FALSE]

Init ==
  /\ text = [k \in Keys |-> 1] /\ binned \in {{}, {CHOOSE p \in Papers : \E f \in Files : ParentOf[f] = p}}
  /\ here = [k \in {} |-> 0] /\ trash = {} /\ shelves = {} /\ filed = {} /\ stored = {}
  /\ task = Resting /\ runs = 0 /\ edits = 0 /\ quiet = TRUE

\* The whole of Zotero's library is read at once, then the work begins.
Start ==
  /\ task.at \in {"rest", "done"} /\ runs < MaxRuns
  /\ task' = [Resting EXCEPT !.at = "shelves", !.library = Read, !.shelves = Ordered]
  /\ quiet' = TRUE
  /\ UNCHANGED <<text, binned, ours, runs, edits>>

\* A collection whose parent is not here is refused, one that is here already
\* too; neither stops the import.
FileShelf ==
  /\ task.at = "shelves" /\ task.shelves # <<>>
  /\ LET c == Head(task.shelves)
     IN shelves' = IF ShelfParent[c] \in shelves \cup {Nobody} THEN shelves \cup {c} ELSE shelves
  /\ task' = [task EXCEPT !.shelves = Tail(@)]
  /\ UNCHANGED <<text, binned, here, trash, filed, stored, runs, edits, quiet>>

After(stage) ==
  CASE stage = "papers" -> DOMAIN task.library.papers
    [] stage = "files" -> task.library.files
    [] stage = "notes" -> DOMAIN task.library.notes
    [] stage = "marks" -> {m \in DOMAIN task.library.marks : ParentOf[m] \in task.library.files}
    [] stage = "done" -> {}
NextStage == [shelves |-> "papers", papers |-> "files", files |-> "notes", notes |-> "marks", marks |-> "done"]

\* Between batches a stop is heeded, and only what is left of the papers is
\* left out.
Advance ==
  /\ task.at \notin {"rest", "done"} /\ task.shelves = <<>>
  /\ task.left = {} \/ (task.at = "papers" /\ task.stopped)
  /\ LET stage == NextStage[task.at]
     IN task' = [task EXCEPT !.at = stage, !.left = After(stage)]
  /\ runs' = IF task.at = "marks" THEN runs + 1 ELSE runs
  /\ UNCHANGED <<text, binned, ours, edits, quiet>>

Put(k, t) == [j \in DOMAIN here \cup {k} |-> IF j = k THEN t ELSE here[j]]
Hangs(k) == ParentOf[k] = Nobody \/ Is(ParentOf[k])

\* A batch of papers, here of one: created, or brought up to date whatever was
\* written here meanwhile, and filed in the collections that are here.
BringPaper(k) ==
  /\ task.at = "papers" /\ k \in task.left /\ ~task.stopped
  /\ here' = Put(k, task.library.papers[k])
  /\ filed' = filed \cup {<<k, c>> : c \in shelves \cap task.library.membership[k]}
  /\ task' = [task EXCEPT !.left = @ \ {k}]
  /\ UNCHANGED <<text, binned, trash, shelves, stored, runs, edits, quiet>>

\* The record of an attachment is made if it can be; its bytes are copied
\* whether there is a record or not, unless it is only a link.
BringFile(k) ==
  /\ task.at = "files" /\ k \in task.left
  /\ here' = IF Is(k) \/ ~Hangs(k) THEN here ELSE Put(k, 1)
  /\ stored' = IF k \in Linked THEN stored ELSE stored \cup {k}
  /\ task' = [task EXCEPT !.left = @ \ {k}]
  /\ UNCHANGED <<text, binned, trash, shelves, filed, runs, edits, quiet>>

\* A note or an annotation is created under what it hangs on, or written over.
BringWriting(k) ==
  /\ task.at \in {"notes", "marks"} /\ k \in task.left
  /\ LET words == IF task.at = "notes" THEN task.library.notes[k] ELSE task.library.marks[k]
     IN here' = IF Is(k) \/ Hangs(k) THEN Put(k, words) ELSE here
  /\ task' = [task EXCEPT !.left = @ \ {k}]
  /\ UNCHANGED <<text, binned, trash, shelves, filed, stored, runs, edits, quiet>>

Stop ==
  /\ task.at \in {"shelves", "papers"} /\ ~task.stopped
  /\ task' = [task EXCEPT !.stopped = TRUE]
  /\ UNCHANGED <<text, binned, ours, runs, edits, quiet>>

-----------------------------------------------------------------------------
\* The user writes in Zotero, or moves a paper to its trash or out of it.
InZotero ==
  /\ edits < MaxEdits /\ edits' = edits + 1
  /\ \/ \E k \in Keys : text[k] < MaxText /\ text' = [text EXCEPT ![k] = @ + 1] /\ UNCHANGED binned
     \/ \E p \in Papers : binned' = (IF p \in binned THEN binned \ {p} ELSE binned \cup {p}) /\ UNCHANGED text
  /\ UNCHANGED <<ours, task, runs, quiet>>

Under(k) == {j \in Keys : ParentOf[j] = k \/ (ParentOf[j] # Nobody /\ ParentOf[ParentOf[j]] = k)}

\* The user writes here, bins an item or deletes one with what hangs on it.
InOurs ==
  /\ edits < MaxEdits /\ edits' = edits + 1 /\ quiet' = FALSE
  /\ \E k \in DOMAIN here :
       \/ here' = Put(k, Mine) /\ UNCHANGED <<trash, filed, stored>>
       \/ trash' = trash \cup {k} /\ UNCHANGED <<here, filed, stored>>
       \/ LET gone == {k} \cup Under(k)
          IN /\ here' = [j \in DOMAIN here \ gone |-> here[j]]
             /\ trash' = trash \ gone
             /\ filed' = {m \in filed : m[1] \notin gone}
             /\ stored' = stored \ (gone \cap DOMAIN here)
  /\ UNCHANGED <<text, binned, shelves, task, runs>>

Next ==
  \/ Start \/ FileShelf \/ Advance \/ Stop \/ InZotero \/ InOurs
  \/ \E k \in Papers : BringPaper(k)
  \/ \E k \in Files : BringFile(k)
  \/ \E k \in Notes \cup Marks : BringWriting(k)

Spec == Init /\ [][Next]_vars

-----------------------------------------------------------------------------
RECURSIVE Depth(_)
Depth(c) == IF ShelfParent[c] = Nobody THEN 1 ELSE 1 + Depth(ShelfParent[c])

\* Everything hangs on something that is here, whatever was deleted while the
\* import ran and wherever it was stopped.
NothingHangsInTheAir ==
  /\ \A k \in DOMAIN here : Hangs(k)
  /\ \A c \in shelves : ShelfParent[c] \in shelves \cup {Nobody}
  /\ \A m \in filed : Is(m[1]) /\ m[2] \in shelves
  /\ trash \subseteq DOMAIN here

\* A run that nobody stopped and during which nobody worked here brought every
\* paper, with its files, notes and annotations, as they were in Zotero when
\* it began, into every collection of it that is here.
BroughtAcross ==
  (task.at = "done" /\ ~task.stopped /\ quiet) =>
    LET z == task.library
        brought(k) == ParentOf[k] = Nobody \/ Is(ParentOf[k])
    IN /\ \A k \in DOMAIN z.papers :
            /\ Is(k) /\ here[k] = z.papers[k]
            /\ \A c \in shelves : <<k, c>> \in Shelved => <<k, c>> \in filed
       /\ \A k \in z.files : brought(k) => Is(k) /\ (k \in stored \/ k \in Linked)
       /\ \A k \in DOMAIN z.notes : brought(k) => Is(k) /\ here[k] = z.notes[k]
       /\ \A k \in DOMAIN z.marks : brought(k) => Is(k) /\ here[k] = z.marks[k]

\* A collection that hangs d levels down is here after d - 1 runs at the latest.
ShelvesArrive == \A c \in Shelves : Depth(c) <= runs + 1 /\ runs > 0 => c \in shelves

ImportedRight == NothingHangsInTheAir /\ BroughtAcross /\ ShelvesArrive

\* What the user put in the bin stays there, and no run throws away an item:
\* only the user does.
StepTakesNothing ==
  edits' = edits => DOMAIN here \subseteq DOMAIN here' /\ trash \subseteq trash' /\ filed \subseteq filed'
ImportTakesNothing == [][StepTakesNothing]_vars
=============================================================================
