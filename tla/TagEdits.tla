------------------------------- MODULE TagEdits -------------------------------
(***************************************************************************)
(* Tags: the routes that add tags to items and take them away              *)
(* (crates/yk-server/src/routes/items.rs), renaming, deleting and          *)
(* colouring a tag (crates/yk-store/src/collections.rs), and the list of   *)
(* tags with their counts, remembered against the library version and      *)
(* recomputed behind a request when that is slow                           *)
(* (crates/yk-store/src/cache.rs).                                         *)
(*                                                                         *)
(* A tag and its name are one: renaming moves items from name to name.     *)
(***************************************************************************)
EXTENDS Integers, FiniteSets

CONSTANTS
  Items, Tags,
  Editors,        \* requests that change the tags of items
  Readers,        \* requests for the list, and the refreshes they leave
  MaxVersion      \* bound on the writes

VARIABLES
  version,    \* libraries.version
  known,      \* the rows of tags
  tagged,     \* the tags of each item (item_tags)
  entry,      \* the remembered list: its version, its counts, what they cost
  refreshing, \* a refresh is in flight
  at,         \* where each request is
  asked,      \* the version a reader read
  held,       \* the counts it took
  change,     \* what an editor does: a tag, and whether it takes it away
  read,       \* the tags it read of the item
  due         \* history: tags that nobody took from an item since they were added

tables == <<version, known, tagged>>
cache == <<entry, refreshing>>
local == <<at, asked, held, change, read>>
vars == <<tables, cache, local, due>>

Unknown == -1
Counts == [t \in Tags |-> IF t \in known
                          THEN Cardinality({i \in Items : t \in tagged[i]}) ELSE Unknown]
NoCounts == [t \in Tags |-> Unknown]
Empty == [stamp |-> -1, counts |-> NoCounts, slow |-> FALSE]
NoChange == [item |-> "none", tag |-> "none", removing |-> FALSE]
Goes(r, where) == at' = [at EXCEPT ![r] = where]

-----------------------------------------------------------------------------
(***************************************************************************)
(* change_tags, in its two steps.                                          *)
(***************************************************************************)

ReadTags(e) ==
  /\ at[e] = "idle"
  /\ \E i \in Items, t \in Tags, removing \in BOOLEAN :
       /\ change' = [change EXCEPT ![e] = [item |-> i, tag |-> t, removing |-> removing]]
       /\ read' = [read EXCEPT ![e] = tagged[i]]
  /\ Goes(e, "read")
  /\ UNCHANGED <<tables, cache, asked, held, due>>

\* Mutant of the next: the tags that were asked for, and no others.
OnlyAsked(e) == IF change[e].removing THEN {} ELSE {change[e].tag}

Changed(e) == IF change[e].removing THEN read[e] \ {change[e].tag}
                ELSE read[e] \cup {change[e].tag}

\* The whole list is written, with no version expected of the item: what others
\* changed since the read is lost.
WriteTags(e) ==
  /\ at[e] = "read" /\ version < MaxVersion
  /\ LET i == change[e].item
         next == Changed(e)
     IN IF next = read[e] THEN UNCHANGED <<tables, due>>
        ELSE /\ version' = version + 1
             /\ known' = known \cup next
             /\ tagged' = [tagged EXCEPT ![i] = next]
             /\ due' = [due EXCEPT ![i] =
                  IF change[e].removing THEN (@ \cap read[e]) \ {change[e].tag}
                  ELSE (@ \cap read[e]) \cup {change[e].tag}]
  /\ Goes(e, "idle")
  /\ change' = [change EXCEPT ![e] = NoChange] /\ read' = [read EXCEPT ![e] = {}]
  /\ UNCHANGED <<cache, asked, held>>

-----------------------------------------------------------------------------
(***************************************************************************)
(* Tags themselves.                                                        *)
(***************************************************************************)

Write ==
  /\ version < MaxVersion /\ version' = version + 1
  /\ UNCHANGED <<cache, local>>

\* Mutant of the next: items that hold both keep neither.
Lost(s, from, to) == IF from \in s /\ to \in s THEN s \ {from, to} ELSE
                     IF from \in s THEN (s \ {from}) \cup {to} ELSE s

\* UPDATE OR IGNORE, and the rows that stay go with the tag.
Moved(s, from, to) == IF from \in s THEN (s \ {from}) \cup {to} ELSE s

\* Into a new name, or into a tag that exists.
Rename(from, to) ==
  /\ from \in known
  /\ known' = Moved(known, from, to)
  /\ tagged' = [i \in Items |-> Moved(tagged[i], from, to)]
  /\ due' = [i \in Items |-> IF from \in due[i] THEN (due[i] \ {from}) \cup {to} ELSE due[i]]
  /\ Write

Delete(t) ==
  /\ known' = known \ {t}
  /\ tagged' = [i \in Items |-> tagged[i] \ {t}]
  /\ due' = [i \in Items |-> due[i] \ {t}]
  /\ Write

SetColor(t) ==
  /\ known' = known \cup {t}
  /\ UNCHANGED <<tagged, due>> /\ Write

-----------------------------------------------------------------------------
(***************************************************************************)
(* The list.                                                               *)
(***************************************************************************)

Library == UNCHANGED <<tables, change, read, due>>

ReadVersion(r) ==
  /\ at[r] = "idle"
  /\ asked' = [asked EXCEPT ![r] = version]
  /\ Goes(r, "asking")
  /\ UNCHANGED <<held, cache>> /\ Library

Ends(r) ==
  /\ Goes(r, "idle")
  /\ asked' = [asked EXCEPT ![r] = 0] /\ held' = [held EXCEPT ![r] = NoCounts]

Fresh(r) == entry # Empty /\ entry.stamp = asked[r]
Superseded(r) == entry # Empty /\ entry.stamp # asked[r] /\ entry.slow

\* A fresh answer is handed out, and so is a superseded one while it is refreshed.
HandOut(r) ==
  /\ at[r] = "asking"
  /\ Fresh(r) \/ (Superseded(r) /\ refreshing)
  /\ Ends(r)
  /\ UNCHANGED cache /\ Library

\* The reader has its answer, and its place is taken by the refresh it leaves.
Defer(r) ==
  /\ at[r] = "asking" /\ Superseded(r) /\ ~refreshing
  /\ refreshing' = TRUE
  /\ Goes(r, "refreshing")
  /\ UNCHANGED <<asked, held, entry>> /\ Library

Compute(r) ==
  /\ at[r] = "refreshing" \/ (at[r] = "asking" /\ ~Fresh(r) /\ ~Superseded(r))
  /\ held' = [held EXCEPT ![r] = Counts]
  /\ Goes(r, IF at[r] = "refreshing" THEN "putting" ELSE "waiting")
  /\ UNCHANGED <<asked, cache>> /\ Library

\* Mutant of the next: the last to finish wins.
Always(stamp) == TRUE

\* A newer answer is not overwritten by one that was computed before it.
Newer(stamp) == entry.stamp <= stamp

Put(r) ==
  /\ at[r] \in {"putting", "waiting"}
  /\ \E slow \in BOOLEAN :
       entry' = IF Newer(asked[r])
                THEN [stamp |-> asked[r], counts |-> held[r], slow |-> slow] ELSE entry
  /\ IF at[r] = "putting" THEN Goes(r, "releasing") /\ UNCHANGED <<asked, held>> ELSE Ends(r)
  /\ UNCHANGED refreshing /\ Library

\* The entries are cleared when there are too many of them.
Clear ==
  /\ entry' = Empty
  /\ UNCHANGED <<refreshing, asked, held, at>> /\ Library

Release(r) ==
  /\ at[r] = "releasing"
  /\ refreshing' = FALSE /\ Ends(r)
  /\ UNCHANGED entry /\ Library

-----------------------------------------------------------------------------
Init ==
  /\ version = 0 /\ known = {} /\ tagged = [i \in Items |-> {}]
  /\ entry = Empty /\ refreshing = FALSE
  /\ at = [r \in Editors \cup Readers |-> "idle"]
  /\ asked = [r \in Readers |-> 0] /\ held = [r \in Readers |-> NoCounts]
  /\ change = [e \in Editors |-> NoChange] /\ read = [e \in Editors |-> {}]
  /\ due = [i \in Items |-> {}]

Next ==
  \/ \E e \in Editors : ReadTags(e) \/ WriteTags(e)
  \/ \E t \in Tags : Delete(t) \/ SetColor(t) \/ \E to \in Tags : Rename(t, to)
  \/ \E r \in Readers :
       ReadVersion(r) \/ HandOut(r) \/ Defer(r) \/ Compute(r) \/ Put(r) \/ Release(r)
  \/ Clear

Spec == Init /\ [][Next]_vars

-----------------------------------------------------------------------------
\* What was added to an item stays on it, under its present name, until it is
\* taken away, or until a change that read the item before writes after
\* (change_tags, rename).
AddedTagsStay == \A i \in Items : due[i] \subseteq tagged[i] /\ tagged[i] \subseteq known

\* "A refresh that finishes after a newer write must not overwrite the newer
\* answer": the version of the remembered list never goes back (put).
Advances == entry' = Empty \/ entry'.stamp >= entry.stamp
NeverGoesBack == [][Advances]_entry

\* A list that is remembered under the present version has the present counts
\* (answer, put).
TagsExact == entry.stamp = version => entry.counts = Counts
=============================================================================
