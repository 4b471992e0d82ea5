------------------------------ MODULE Documents ------------------------------
(***************************************************************************)
(* The citations of a document in a word processor: the pane               *)
(* (crates/yk-server/src/addin/assets/taskpane.js), which keeps what each  *)
(* field cites and the style in the document, and the server               *)
(* (integration/mod.rs, integration/document.rs), which renders the whole  *)
(* document for it and holds a session only as a cache.  The author edits  *)
(* the document and the library while the pane waits.                      *)
(***************************************************************************)
EXTENDS Naturals, Sequences, SequencesExt, FiniteSets

CONSTANTS
  Works,       \* what can be cited
  Filed,       \* Filed[k]: where the reference of k comes when references are sorted
  Fields,      \* the citation fields the document may have
  Citations,   \* what a field may cite: lists of works; <<>> for a field pasted in
  Styles, Numeric, Default,  \* neither "list" nor "none" is a style
  MaxEdits, MaxRestarts

VARIABLES
  document,    \* its fields in document order
  cites,       \* what each field cites
  text,        \* what each field shows: a style and marks, or nothing
  list,        \* the bibliography: a style and works, or nothing
  saved,       \* the style the document carries, or none
  library,     \* the works that exist
  session,     \* the style the server remembers for the document, or none
  pane,        \* what the pane is doing
  edits, restarts,
  chosen,      \* the style the author chose last
  fresh        \* nothing was edited since the fields were read

serverVars == <<library, session, restarts>>
authorVars == <<edits, chosen>>
vars == <<document, cites, text, list, saved, serverVars, pane, authorVars, fresh>>

None == "none"
Nothing == <<>>
Idle == [at |-> "idle", then |-> "idle", style |-> None, ids |-> <<>>, plan |-> Nothing, again |-> FALSE]

-----------------------------------------------------------------------------
\* What the server answers to the fields it is sent.

\* Where the fields cite something, and what: the m-th work of the n-th field.
Places(fields) == UNION {{n} \X DOMAIN cites[fields[n]] : n \in DOMAIN fields}
Cited(fields, p) == cites[fields[p[1]]][p[2]]
Before(p, q) == p[1] < q[1] \/ (p[1] = q[1] /\ p[2] < q[2])

\* Mutant of the next: works that the library does not have are numbered too.
CitedAtAll(fields, items) == {Cited(fields, p) : p \in Places(fields)}

\* What is numbered and listed; not what the library does not have.
Known(fields, items) == {Cited(fields, p) : p \in Places(fields)} \cap items

\* A set as a sequence, when upTo[k] is what comes before k, and k.
Ordered(S, upTo) == [n \in 1..Cardinality(S) |-> CHOOSE k \in S : Cardinality(upTo[k]) = n]

\* Works are numbered by first appearance: before k come those that appear
\* before every place of k.
Order(fields, items) ==
  LET appears(k) == {p \in Places(fields) : Cited(fields, p) = k}
      known == Known(fields, items)
  IN Ordered(known, [k \in known |->
       {w \in known : \A p \in appears(k) : \E q \in appears(w) : q = p \/ Before(q, p)}])

NumberOf(order, k) == CHOOSE n \in DOMAIN order : order[n] = k

\* The text of a field, nothing when none of its works is in the library.
RenderField(f, order, items, style) ==
  LET known == {n \in DOMAIN cites[f] : cites[f][n] \in items}
      mark(k) == IF style \in Numeric THEN NumberOf(order, k) ELSE k
  IN IF known = {} THEN Nothing ELSE <<style, [n \in known |-> mark(cites[f][n])]>>

\* In the order of appearance when numbered, else as the references sort.
Bibliography(order, style) ==
  LET works == ToSet(order)
      sorted == Ordered(works, [k \in works |->
        {w \in works : Filed[w] < Filed[k] \/ (Filed[w] = Filed[k] /\ NumberOf(order, w) <= NumberOf(order, k))}])
  IN <<style, IF style \in Numeric THEN order ELSE sorted>>

Plan(fields, items, style) ==
  LET order == Order(fields, items)
  IN [updated |-> [f \in ToSet(fields) |-> RenderField(f, order, items, style)],
      bibliography |-> Bibliography(order, style)]

-----------------------------------------------------------------------------
Init ==
  /\ document = <<>> /\ cites = [f \in Fields |-> <<>>]
  /\ text = [f \in Fields |-> Nothing] /\ list = Nothing
  /\ saved = None /\ library = Works /\ session = None
  /\ pane = [Idle EXCEPT !.at = "opening"]
  /\ edits = 0 /\ restarts = 0 /\ chosen = Default /\ fresh = TRUE

\* Open a session: the document's own style counts, else the one the session
\* has, else the default; the document then carries it.
Open ==
  /\ pane.at = "opening"
  /\ LET style == IF saved # None THEN saved ELSE IF session # None THEN session ELSE Default
     IN session' = style /\ saved' = style
  /\ pane' = [pane EXCEPT !.at = pane.then, !.then = "idle"]
  /\ UNCHANGED <<document, cites, text, list, library, restarts, authorVars, fresh>>

\* The author puts a citation in: the pane makes the field and keeps what it
\* cites, and everything is rendered again.
Insert(f, place, keys) ==
  /\ pane.at = "idle" /\ edits < MaxEdits /\ f \notin ToSet(document)
  /\ document' = InsertAt(document, place, f)
  /\ cites' = [cites EXCEPT ![f] = keys]
  /\ text' = [text EXCEPT ![f] = Nothing]
  /\ pane' = [pane EXCEPT !.at = "reading"]
  /\ edits' = edits + 1
  /\ UNCHANGED <<list, saved, serverVars, chosen, fresh>>

Refresh ==
  /\ pane.at = "idle" /\ ~fresh
  /\ pane' = [pane EXCEPT !.at = "reading"]
  /\ UNCHANGED <<document, cites, text, list, saved, serverVars, authorVars, fresh>>

\* The bibliography is made from an answer of its own.
InsertBibliography ==
  /\ pane.at = "idle" /\ list = Nothing /\ document # <<>>
  /\ pane' = [pane EXCEPT !.at = "asking", !.ids = document, !.style = "list"]
  /\ UNCHANGED <<document, cites, text, list, saved, serverVars, authorVars, fresh>>

ReadFields ==
  /\ pane.at = "reading"
  /\ pane' = [pane EXCEPT !.at = "asking", !.ids = document]
  /\ fresh' = TRUE
  /\ UNCHANGED <<document, cites, text, list, saved, serverVars, authorVars>>

\* A call that finds no session opens one and is made once more; then the pane
\* gives up, and what it was rendering is not rendered.
Retry == IF pane.again THEN Idle
         ELSE [pane EXCEPT !.at = "opening", !.then = pane.at, !.again = TRUE]

\* The server renders in the session's style.
Answer ==
  /\ pane.at = "asking"
  /\ pane' = IF session = None THEN Retry
             ELSE [pane EXCEPT !.at = "answered", !.plan = Plan(pane.ids, library, session)]
  /\ fresh' = (fresh /\ (pane'.at = "idle" => pane.style = "list"))
  /\ UNCHANGED <<document, cites, text, list, saved, serverVars, authorVars>>

\* a field is written whatever there is to write.
Everywhere(f) == f \in DOMAIN pane.plan.updated /\ f \in ToSet(document)
Told(f) == f \in DOMAIN pane.plan.updated /\ f \in ToSet(document) /\ pane.plan.updated[f] # Nothing

\* Fields that are gone are skipped; a bibliography is written where there is one.
ApplyPlan ==
  /\ pane.at = "answered"
  /\ LET plan == pane.plan
         onlyList == pane.style = "list"
     IN /\ text' = IF onlyList THEN text
                   ELSE [f \in Fields |-> IF Told(f) THEN plan.updated[f] ELSE text[f]]
        /\ list' = IF list # Nothing \/ onlyList THEN plan.bibliography ELSE list
  /\ pane' = Idle
  /\ UNCHANGED <<document, cites, saved, serverVars, authorVars, fresh>>

ChangeStyle(s) ==
  /\ pane.at = "idle" /\ edits < MaxEdits /\ s # saved
  /\ pane' = [pane EXCEPT !.at = "restyling", !.style = s]
  /\ edits' = edits + 1
  /\ UNCHANGED <<document, cites, text, list, saved, serverVars, chosen, fresh>>

\* Tell the server; then the document carries the style and is rendered again.
SetPrefs ==
  /\ pane.at = "restyling"
  /\ IF session = None
     THEN /\ pane' = Retry
          /\ UNCHANGED session
     ELSE /\ session' = pane.style
          /\ pane' = [pane EXCEPT !.at = "told"]
  /\ UNCHANGED <<document, cites, text, list, saved, library, restarts, authorVars, fresh>>
SavePrefs ==
  /\ pane.at = "told"
  /\ saved' = pane.style /\ chosen' = pane.style
  /\ pane' = [Idle EXCEPT !.at = "reading"]
  /\ fresh' = FALSE
  /\ UNCHANGED <<document, cites, text, list, serverVars, edits>>

-----------------------------------------------------------------------------
\* The author works in the document and in the library meanwhile.
Edited == edits < MaxEdits /\ edits' = edits + 1 /\ fresh' = FALSE /\ UNCHANGED chosen

Erase(n) ==
  /\ Edited /\ n \in DOMAIN document
  /\ document' = RemoveAt(document, n)
  /\ UNCHANGED <<cites, text, list, saved, serverVars, pane>>

Move(n) ==
  /\ Edited /\ n + 1 \in DOMAIN document
  /\ document' = [document EXCEPT ![n] = document[n + 1], ![n + 1] = document[n]]
  /\ UNCHANGED <<cites, text, list, saved, serverVars, pane>>

\* An item leaves the library, or comes back from the trash.
Library(k) ==
  /\ Edited
  /\ library' = IF k \in library THEN library \ {k} ELSE library \cup {k}
  /\ UNCHANGED <<document, cites, text, list, saved, session, restarts, pane>>

\* Sessions are in memory: the server starts again, or somebody closes it.
Forget ==
  /\ session # None /\ restarts < MaxRestarts
  /\ session' = None /\ restarts' = restarts + 1
  /\ UNCHANGED <<document, cites, text, list, saved, library, pane, authorVars, fresh>>

\* The pane is closed in whatever it does, and opened again.
Reload ==
  /\ restarts < MaxRestarts /\ pane.at # "opening"
  /\ pane' = [Idle EXCEPT !.at = "opening"]
  /\ restarts' = restarts + 1
  /\ fresh' = (fresh /\ pane.at = "idle")
  /\ UNCHANGED <<document, cites, text, list, saved, library, session, authorVars>>

Next ==
  \/ Open \/ Refresh \/ InsertBibliography \/ ReadFields \/ Answer \/ ApplyPlan
  \/ SetPrefs \/ SavePrefs \/ Forget \/ Reload
  \/ \E f \in Fields, place \in 1..(Len(document) + 1), keys \in Citations : Insert(f, place, keys)
  \/ \E s \in Styles : ChangeStyle(s)
  \/ \E n \in 1..Cardinality(Fields) : Erase(n) \/ Move(n)
  \/ \E k \in Works : Library(k)

Spec == Init /\ [][Next]_vars

-----------------------------------------------------------------------------
Settled == pane.at = "idle" /\ fresh
Shown == {p \in Places(document) : Cited(document, p) \in library}
ShownAs(p) == text[document[p[1]]]

\* When the document was rendered and nothing changed since, every citation is
\* in the style the document carries, and the bibliography, where there is one,
\* lists each work that is cited once.
Rendered ==
  Settled =>
    /\ \A p \in Shown : ShownAs(p) # Nothing /\ ShownAs(p)[1] = saved
    /\ list # Nothing =>
         /\ list[1] = saved /\ IsInjective(list[2])
         /\ ToSet(list[2]) = Known(document, library)

\* The numbers run 1, 2, 3 as the works first appear, and each is the number of
\* its entry in the bibliography (document::plan).
NumbersAgree ==
  LET number(p) == ShownAs(p)[2][p[2]] IN
  Settled /\ saved \in Numeric => \A p \in Shown :
    /\ number(p) = 1 \/ \E q \in Shown : Before(q, p) /\ number(q) + 1 >= number(p)
    /\ list # Nothing => list[2][number(p)] = Cited(document, p)

\* The style is the author's last choice, whatever the server forgot and
\* whatever the pane was doing when it was closed.
StyleKept ==
  /\ saved \in {None, chosen}
  /\ pane.at \in {"idle", "asking", "answered"} => session \in {None, chosen}

DocumentsRight == Rendered /\ NumbersAgree /\ StyleKept

\* A citation is never blanked: what it shows stays until it is rendered.
NoneIsBlanked ==
  \A f \in Fields : f \in ToSet(document) /\ f \in ToSet(document') /\ text[f] # Nothing => text'[f] # Nothing
NeverBlanked == [][NoneIsBlanked]_vars
=============================================================================
