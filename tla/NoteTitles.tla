----------------------------- MODULE NoteTitles -----------------------------
(***************************************************************************)
(* The titles of notes (crates/yk-store/src/items.rs: retitle_note,        *)
(* apply_patch, create_numbered_note; crates/yk-core/src/text.rs:          *)
(* note_title).  A note is titled by the first line of its text until      *)
(* somebody types a title; a note gathered from highlights is numbered     *)
(* within its paper, by a counter in the settings and by what the titles   *)
(* of the paper's notes already are.                                       *)
(*                                                                         *)
(* Numbers up to Highest stand for what fits a u64; Untitled is the empty  *)
(* title and the title of a text that has none.                            *)
(***************************************************************************)
EXTENDS Integers, Sequences, FiniteSetsExt

CONSTANTS
  Papers, Notes,
  Words, Untitled,   \* titles that are no numbers, the empty one apart
  Texts, TitleOf,    \* what a note may say, and the title that implies
  Highest            \* at least one

Titles == Words \cup 1..Highest
NoNote == [paper |-> "none"]
Blank == CHOOSE t \in Texts : TitleOf[t] = Untitled

VARIABLES
  note,      \* the row of a note: its paper, title, text, whether in the trash; NoNote
  counter,   \* the highest number given, by the key of the paper (settings)
  given      \* history: the numbers given to notes of a paper, in their order

vars == <<note, counter, given>>

Live == {n \in Notes : note[n] # NoNote}
NotesOf(p) == {n \in Live : note[n].paper = p}

NotesTypeOK ==
  /\ note \in [Notes -> {NoNote} \cup
       [paper : Papers, title : Titles \cup {Untitled}, text : Texts, trashed : BOOLEAN]]
  /\ counter \in [Papers -> 0..Highest]
  /\ given \in [Papers -> Seq(1..Highest)]

NotesInit ==
  /\ note = [n \in Notes |-> NoNote]
  /\ counter = [p \in Papers |-> 0]
  /\ given = [p \in Papers |-> <<>>]

\* The title the text implies, when there is none or it is what the text
\* before this change implied.
Ours(title, was) == title = TitleOf[was]
\* Changed the way a bug would, to see that the properties notice:
\* a title that was cleared is left empty;
OnlyOurs(title, was, text) ==
  IF TitleOf[text] # Untitled /\ Ours(title, was) THEN TitleOf[text] ELSE title

Retitled(title, was, text) ==
  IF TitleOf[text] # Untitled /\ (title = Untitled \/ Ours(title, was)) THEN TitleOf[text] ELSE title

Stored(n, p, title, text) ==
  note' = [note EXCEPT ![n] =
    [paper |-> p, title |-> Retitled(title, Blank, text), text |-> text, trashed |-> FALSE]]

\* A note written by hand, imported or restored, with a title or without.
Write(n, p, title, text) ==
  /\ n \notin Live
  /\ Stored(n, p, title, text)
  /\ UNCHANGED <<counter, given>>

\* The numbers that the titles of a paper's notes are, those in the trash too.
NumbersIn(p) == {note[n].title : n \in NotesOf(p)} \cap 1..Highest
\* the counter in the settings is not asked;
FromTitles(p) == Max({0} \cup NumbersIn(p))

LastNumber(p) == Max({counter[p]} \cup NumbersIn(p))

\* A note gathered from the highlights of a paper; refused when the numbers
\* are exhausted.
Gather(n, p, text) ==
  /\ n \notin Live /\ LastNumber(p) < Highest
  /\ LET number == LastNumber(p) + 1 IN
       /\ Stored(n, p, number, text)
       /\ counter' = [counter EXCEPT ![p] = number]
       /\ given' = [given EXCEPT ![p] = Append(@, number)]

\* A change of the title, of the text, or of both; a title that is cleared is
\* not an explicit one.
PatchedTitle(n, changes, title, text) ==
  IF changes /\ title # Untitled THEN title
  ELSE Retitled(IF changes THEN Untitled ELSE note[n].title, note[n].text, text)

Patch(n, changes, title, text) ==
  /\ n \in Live
  /\ note' = [note EXCEPT ![n].title = PatchedTitle(n, changes, title, text), ![n].text = text]
  /\ UNCHANGED <<counter, given>>

Trash(n) ==
  /\ n \in Live
  /\ note' = [note EXCEPT ![n].trashed = ~@]
  /\ UNCHANGED <<counter, given>>

Remove(S) ==
  /\ S # {} /\ S \subseteq Live
  /\ note' = [n \in Notes |-> IF n \in S THEN NoNote ELSE note[n]]
  /\ UNCHANGED <<counter, given>>

\* Merging one paper into another moves its notes there.
Move(p, q) ==
  /\ p # q /\ NotesOf(p) # {}
  /\ note' = [n \in Notes |-> IF n \in NotesOf(p) THEN [note[n] EXCEPT !.paper = q] ELSE note[n]]
  /\ UNCHANGED <<counter, given>>

NotesNext ==
  \/ \E n \in Notes, text \in Texts :
       \/ \E p \in Papers, title \in Titles \cup {Untitled} : Write(n, p, title, text)
       \/ \E p \in Papers : Gather(n, p, text)
       \/ \E changes \in BOOLEAN, title \in Titles \cup {Untitled} : Patch(n, changes, title, text)
  \/ \E n \in Notes : Trash(n) \/ Remove({n})
  \/ \E p \in Papers : Remove(NotesOf(p)) \/ \E q \in Papers : Move(p, q)

NotesSpec == NotesInit /\ [][NotesNext]_vars

(***************************************************************************)
(* Properties.                                                             *)
(***************************************************************************)

\* A number is given once in a paper, whatever is renamed, trashed, deleted or
\* moved in between, and never to a note while another one of the paper is
\* called so (create_numbered_note).
NumberIsNew ==
  \A p \in Papers : given'[p] # given[p] =>
    LET number == given'[p][Len(given'[p])]
    IN number \notin NumbersIn(p) /\ \A i \in DOMAIN given[p] : given[p][i] < number
NumbersAreNew == [][NumberIsNew]_vars

\* A note that has a text with a first line has a title, however it came about
\* (retitle_note: a blank row in every list).
NoBlankRows == \A n \in Live : note[n].title = Untitled => TitleOf[note[n].text] = Untitled
=============================================================================
