----------------------------- MODULE MCCatalogue -----------------------------
(***************************************************************************)
(* Totals of listings under two requests and two questions, of which one   *)
(* searches for a phrase, with room in the cache for one; collections and  *)
(* their list; tags edited by two requests at a time; the list of tags     *)
(* under two readers and one editor; references; the titles of two notes   *)
(* of two papers; and the duplicates of three papers under one request:    *)
(* each checked on its own.  A behaviour is of one part, the others stay   *)
(* where they began.                                                       *)
(***************************************************************************)
EXTENDS CountCache, Sequences, TLC

CONSTANTS
  Shelves, Papers, Callers,             \* Shelves
  Tagged, Tags, Editors, Readers,       \* TagEdits
  MaxWrites,                            \* Shelves, TagEdits
  Keys, Works, NoWork, Fingerprint, Lists, Bringers, Limit, Wanted, MaxRow, MaxDrift, \* CitedWorks
  NotedPapers, Notes, Words, Untitled, Texts, TitleOf, Highest, \* NoteTitles
  Doubles, Records, Identifier, Written, None, Scanners, Limits, MaxRewrites \* Duplicates

\* The places where a collection may hang, and the refresh, are nobody's names;
\* there are finitely many papers, items and readers; some text has no title.
ASSUME CatalogueAssumption ==
  /\ Shelves \cap {"top", "gone"} = {} /\ "refresh" \notin Callers
  /\ IsFiniteSet(Papers) /\ IsFiniteSet(Keys)
  /\ NoWork \notin Works /\ Fingerprint \in [Keys -> Works \cup {NoWork}]
  /\ Lists \subseteq Seq(Works \cup {NoWork})
  /\ MaxRow \in Nat
  /\ Highest \in Nat \ {0} /\ TitleOf \in [Texts -> (Words \cup 1..Highest) \cup {Untitled}]
  /\ \E t \in Texts : TitleOf[t] = Untitled
  /\ IsFiniteSet(Doubles) /\ Limits \subseteq Nat /\ MaxRewrites \in Nat

VARIABLES
  part,
  shelfVersion, parent, filed, trash, search, entry, slow, claimed, shelfAt, asked, held, stale, moments,
  tagVersion, known, tagged, tagList, refreshing, tagAt, tagAsked, tagHeld, change, read, due,
  row, binned, list, fetched, votes, task, drift,
  note, counter, given,
  twinVersion, twin, kept, twinAt, twinAsked, scans, grouped

shelfVars == <<shelfVersion, parent, filed, trash, search, entry, slow, claimed,
               shelfAt, asked, held, stale, moments>>
tagVars == <<tagVersion, known, tagged, tagList, refreshing,
             tagAt, tagAsked, tagHeld, change, read, due>>
workVars == <<row, binned, list, fetched, votes, task, drift>>
noteVars == <<note, counter, given>>
twinVars == <<twinVersion, twin, kept, twinAt, twinAsked, scans, grouped>>

Shelf == INSTANCE Shelves WITH
  Items <- Papers, Requests <- Callers, MaxVersion <- MaxWrites, version <- shelfVersion, at <- shelfAt

Edits == INSTANCE TagEdits WITH
  Items <- Tagged, MaxVersion <- MaxWrites,
  version <- tagVersion, entry <- tagList, at <- tagAt, asked <- tagAsked, held <- tagHeld

\* Two editors and no reader, or one editor, that only adds tags, and all readers.
EditorsOnly == \A r \in Readers : tagAt'[r] = "idle"
OneEditor == CHOOSE e \in Editors : TRUE
OneEdits == \A e \in Editors :
  /\ e # OneEditor => tagAt'[e] = "idle"
  /\ ~change'[e].removing

Work == INSTANCE CitedWorks WITH Requests <- Bringers, trash <- binned

\* One paper that is one of the works; a list with a work twice and an entry
\* without an identifier.
OnePaper == CHOOSE k \in Keys : TRUE
OneWork == CHOOSE w \in Works : TRUE
Other == CHOOSE w \in Works : w # OneWork
OneIsHeld == [k \in Keys |-> IF k = OnePaper THEN OneWork ELSE NoWork]
FourLists == {<<>>, <<OneWork>>, <<Other, NoWork, Other>>, <<Other, OneWork>>}

Titling == INSTANCE NoteTitles WITH Papers <- NotedPapers

Twin == INSTANCE Duplicates WITH
  Papers <- Doubles, Requests <- Scanners, MaxVersion <- MaxRewrites,
  version <- twinVersion, paper <- twin, cache <- kept, at <- twinAt, asked <- twinAsked,
  sets <- scans, answer <- grouped

\* A text without a title, one with a word for a title and one that is titled
\* by a number.
TitleIs == [t \in Texts |-> IF t = "blank" THEN Untitled ELSE IF t = "number" THEN 2 ELSE CHOOSE w \in Words : TRUE]
\* Four records that meet in an identifier or in what is written: "ax" and "a"
\* in the one, "ax", "bx" and "by" in the other; "bx" has no identifier.
IdentifierIs == [n \in Records |-> CASE n \in {"ax", "a"} -> "a" [] n = "by" -> "b" [] OTHER -> None]
WrittenIs == [n \in Records |-> CASE n \in {"ax", "bx", "by"} -> "x" [] OTHER -> None]

CatalogueInit ==
  /\ part \in {"counts", "shelves", "edits", "list", "works", "notes", "duplicates"}
  /\ Init
  /\ \A r, s \in Requests : question[r] = question[s] /\ question[r] \in Phrases /\ total[r] = 0
  /\ part # "counts" => \A q \in Questions : holds[q] = 0
  /\ Shelf!Init /\ Edits!Init /\ Work!Init /\ Titling!NotesInit /\ Twin!DuplicatesInit
  /\ part # "duplicates" =>
       /\ \A p \in Doubles : twin[p] = Twin!Gone
       /\ \A r \in Scanners : twinAsked[r].limit = CHOOSE l \in Limits : TRUE

CatalogueNext ==
  /\ UNCHANGED part
  /\ \/ part = "counts" /\ Next /\ UNCHANGED <<shelfVars, tagVars, workVars, noteVars, twinVars>>
     \/ part = "shelves" /\ Shelf!Next /\ UNCHANGED <<vars, tagVars, workVars, noteVars, twinVars>>
     \/ part = "edits" /\ Edits!Next /\ EditorsOnly /\ UNCHANGED <<vars, shelfVars, workVars, noteVars, twinVars>>
     \/ part = "list" /\ Edits!Next /\ OneEdits /\ UNCHANGED <<vars, shelfVars, workVars, noteVars, twinVars>>
     \/ part = "works" /\ Work!Next /\ UNCHANGED <<vars, shelfVars, tagVars, noteVars, twinVars>>
     \/ part = "notes" /\ Titling!NotesNext /\ UNCHANGED <<vars, shelfVars, tagVars, workVars, twinVars>>
     \/ part = "duplicates" /\ Twin!DuplicatesNext /\ UNCHANGED <<vars, shelfVars, tagVars, workVars, noteVars>>

Symmetry == Permutations(Readers) \cup Permutations(Tags)

CatalogueSpec == CatalogueInit /\ [][CatalogueNext]_<<part, vars, shelfVars, tagVars, workVars, noteVars, twinVars>>

\* The total of a listing was right at some moment since it was asked for, and
\* a remembered one of the present version is right now (CountCache).
TotalsAreRight == CurrentEntryIsExact /\ AnsweredInTime

\* Every collection can be reached from the top, and a refresh that is claimed
\* is in flight (Shelves).
EveryShelfHangs == Shelf!EveryShelfHangs /\ Shelf!ClaimIsHeld

\* Neither list hands out counts that were never right, unless it says nothing
\* of when they were (Shelves, TagEdits).
ListedInTime == Shelf!ListedInTime /\ Edits!TagsExact

\* The list of tags does not go back (TagEdits), and no number is given to two
\* notes of a paper (NoteTitles).
NeverGoesBack == [][Edits!Advances /\ Titling!NumberIsNew]_<<tagVars, noteVars>>

\* A tag that was added stays until it is taken away (TagEdits).
AddedTagsStay == Edits!AddedTagsStay

\* Votes are the papers that cite, and what is missing is not held (CitedWorks).
CitationsAgree == Work!CitationsAgree

\* No note that begins with something is without a title (NoteTitles); no paper
\* is in two groups of duplicates, and what is remembered for the present
\* version is every group there is (Duplicates).
TitledAndGrouped ==
  /\ Titling!NotesTypeOK /\ Titling!NoBlankRows
  /\ Twin!DuplicatesTypeOK /\ Twin!RememberedIsExact /\ Twin!InOneGroup
=============================================================================
