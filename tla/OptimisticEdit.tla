---------------------------- MODULE OptimisticEdit ----------------------------
(***************************************************************************)
(* Editors of items over the item store: an editor reads an item, and      *)
(* later saves it with the version it read in If-Unmodified-Since-Version, *)
(* while everything else in LibraryStore goes on.                          *)
(***************************************************************************)
EXTENDS LibraryStore

CONSTANT Editors

VARIABLE draft   \* what each editor holds: nothing, or an item as it read it

editVars == <<vars, draft>>

Closed == [open |-> FALSE]

\* GET items/:key.
Open(e, k) ==
  /\ k \in Live
  /\ draft' = [draft EXCEPT ![e] = [open |-> TRUE, key |-> k, base |-> items[k]]]
  /\ UNCHANGED vars

\* Mutant of the next: it is enough that the item is still there.
StillThere(e) == draft[e].key \in Live

\* apply_update: the expected version against the stored one.
Unmodified(e) ==
  /\ draft[e].key \in Live
  /\ items[draft[e].key].version = draft[e].base.version

\* PATCH items/:key with the expected version, accepted.
Save(e, text) ==
  /\ draft[e].open
  /\ Unmodified(e)
  /\ Update({draft[e].key}, text, items[draft[e].key].deleted)
  /\ draft' = [draft EXCEPT ![e] = Closed]

\* The same, refused: VersionConflict or NotFound rolls the transaction back,
\* the version with it.
Refuse(e) ==
  /\ draft[e].open
  /\ ~Unmodified(e)
  /\ draft' = [draft EXCEPT ![e] = Closed]
  /\ UNCHANGED vars

EditInit == Init /\ draft = [e \in Editors |-> Closed]

EditNext ==
  \/ Next /\ UNCHANGED draft
  \/ \E e \in Editors, k \in Keys : Open(e, k)
  \/ \E e \in Editors, t \in Texts : Save(e, t)
  \/ \E e \in Editors : Refuse(e)

EditSpec == EditInit /\ [][EditNext]_editVars

-----------------------------------------------------------------------------
\* No lost update: a save that is accepted replaces exactly the item its
\* editor was shown, even when the item was trashed, moved, merged, or deleted
\* and created again under the same key in between (apply_update).  Only a tag
\* or collection renamed or deleted meanwhile goes unseen, and is overwritten.
SavesWhatWasSeen ==
  \A e \in Editors, t \in Texts : Save(e, t) => Matches(draft[e].key, draft[e].base)
NoLostUpdate == [][SavesWhatWasSeen]_editVars
=============================================================================
