------------------------------ MODULE Queries ------------------------------
(***************************************************************************)
(* What the search box and the address of a listing ask for               *)
(* (crates/yk-search/src/parse.rs; ListParams in crates/yk-server/src/     *)
(* routes/mod.rs), as a filter (crates/yk-core/src/query.rs) and as the    *)
(* clauses of one statement (crates/yk-store/src/filter.rs).  The name of  *)
(* a tag is taken not to begin with a dash: one that does is read as an    *)
(* exclusion (Predicate::build), and cannot be asked for.                  *)
(*                                                                         *)
(* A token is what lies between two blanks outside quotes: its dash, the   *)
(* name before its colon, and its value.  Only tags can be excluded; a     *)
(* dash before any other operator is dropped (classify).  Within stands    *)
(* for the clauses that come with the request alone: its collection, its   *)
(* keys and its since.                                                     *)
(***************************************************************************)
EXTENDS Integers, Sequences, FiniteSets, SequencesExt, FiniteSetsExt

CONSTANTS
  Items,           \* records: tags, type, author, year, says, within, top, trashed
  Vocabulary,      \* the tokens that can be typed
  Requests,        \* filters that a request comes with
  MaxTokens,
  YearsOf,         \* the value of a year: its form and its bounds
  NoYear, MaxYear  \* no year; the largest i32

VARIABLES
  request,   \* the filter of the address: what the sidebar has selected
  tokens,    \* what has been typed
  filter,    \* both, as one filter
  rows,      \* the items it selects
  found      \* what is shown

vars == <<request, tokens, filter, rows, found>>

-----------------------------------------------------------------------------
Blank == [tags |-> {}, types |-> {}, authors |-> {}, phrases |-> {},
          from |-> NoYear, to |-> NoYear, text |-> <<>>]

\* A colon with something on both sides makes an operator, anything else is a
\* word as it stands.
IsOperator(token) == token.colon /\ token.name # "" /\ token.value # ""

\* The next and the previous year, in 32 bits.
After(y)  == IF y = NoYear THEN NoYear ELSE IF y = MaxYear THEN -MaxYear - 1 ELSE y + 1
Before(y) == IF y = NoYear THEN NoYear ELSE IF y = -MaxYear - 1 THEN MaxYear ELSE y - 1

\* A year that is no number is no bound; a bound that a form does not mention
\* stays as an earlier token has set it.
ApplyYear(q, v) ==
  CASE v.form = "range"    -> [q EXCEPT !.from = v.from, !.to = v.to]
    [] v.form = "at least" -> [q EXCEPT !.from = v.from]
    [] v.form = "at most"  -> [q EXCEPT !.to = v.to]
    [] v.form = "after"    -> [q EXCEPT !.from = After(v.from)]
    [] v.form = "before"   -> [q EXCEPT !.to = Before(v.to)]
    [] v.form = "exactly"  -> IF v.from = NoYear THEN q ELSE [q EXCEPT !.from = v.from, !.to = v.from]

\* Changed the way a bug would, to see that the properties notice:
\* the dash before a tag is dropped too;
Undashed(token) == <<FALSE, token.value>>

Tagged(token) == <<token.dash, token.value>>

Read(q, token) ==
  CASE token.kind = "phrase" ->
         [q EXCEPT !.phrases = @ \cup {token.value}, !.text = Append(@, token.value)]
    [] token.kind = "token" /\ ~IsOperator(token) -> [q EXCEPT !.text = Append(@, token)]
    [] OTHER ->
         CASE token.name = "tag"    -> [q EXCEPT !.tags = @ \cup {Tagged(token)}]
           [] token.name = "type"   -> [q EXCEPT !.types = @ \cup {token.value}]
           [] token.name = "author" -> [q EXCEPT !.authors = @ \cup {token.value}]
           [] token.name = "year"   -> ApplyYear(q, YearsOf[token.value])
           [] OTHER                 -> [q EXCEPT !.text = Append(@, token)]

Parse(s) == FoldLeft(Read, Blank, s)

\* The later of two lower bounds, the earlier of two upper ones.
Later(a, b)   == IF a = NoYear THEN b ELSE IF b = NoYear THEN a ELSE Max({a, b})
Earlier(a, b) == IF a = NoYear THEN b ELSE IF b = NoYear THEN a ELSE Min({a, b})

\* the tags that are typed take the place of those of the request;
Retagged(f, q) ==
  [f EXCEPT !.tags = IF q.tags = {} THEN @ ELSE q.tags, !.types = @ \cup q.types,
            !.authors = @ \cup q.authors, !.phrases = @ \cup q.phrases,
            !.from = Later(@, q.from), !.to = Earlier(@, q.to)]

Apply(f, q) ==
  [f EXCEPT !.tags = @ \cup q.tags, !.types = @ \cup q.types, !.authors = @ \cup q.authors,
            !.phrases = @ \cup q.phrases,
            !.from = Later(@, q.from), !.to = Earlier(@, q.to)]

-----------------------------------------------------------------------------
InScope(f, i) ==
  /\ f.trash = "exclude" => ~i.trashed
  /\ f.trash = "only" => i.trashed
  /\ f.top => i.top

HasTag(t, i) == (t[2] \in i.tags) # t[1]

\* An item without a year is within no bound.
Rows(f) ==
  {i \in Items :
     /\ InScope(f, i)
     /\ f.within \subseteq i.within
     /\ f.types = {} \/ i.type \in f.types
     /\ f.authors \subseteq i.authors
     /\ f.from # NoYear => i.year # NoYear /\ i.year >= f.from
     /\ f.to # NoYear => i.year # NoYear /\ i.year <= f.to
     /\ f.phrases \subseteq i.says
     /\ \A t \in f.tags : HasTag(t, i)}

\* How the statement is written is decided by counting its clauses.
One(yes) == IF yes THEN 1 ELSE 0
\* clauses of authors and phrases are not counted.
FewerClauses(f) ==
  1 + One(f.trash # "include") + One(f.top) + Cardinality(f.within) + One(f.types # {})
    + One(f.from # NoYear) + One(f.to # NoYear) + Cardinality(f.tags)

Clauses(f) ==
  1 + One(f.trash # "include") + One(f.top) + Cardinality(f.within) + One(f.types # {})
    + Cardinality(f.authors) + One(f.from # NoYear) + One(f.to # NoYear)
    + Cardinality(f.phrases) + Cardinality(f.tags)
BaseClauses(f) == 2 + One(f.top)
BaseOnly(f) == Clauses(f) <= BaseClauses(f)
Positive(f) == {t \in f.tags : ~t[1]}
TagsOnly(f) ==
  /\ Positive(f) # {} /\ f.tags = Positive(f)
  /\ Clauses(f) = BaseClauses(f) + Cardinality(Positive(f))

\* Whether a query without words says anything at all; nothing is searched
\* when it does not.
Constrained(f) ==
  \/ f.within # {} \/ f.tags # {} \/ f.types # {} \/ f.authors # {} \/ f.phrases # {}
  \/ f.from # NoYear \/ f.to # NoYear \/ f.top \/ f.trash # "exclude"

Answer(q) ==
  /\ filter' = Apply(request, q)
  /\ rows' = Rows(filter')
  /\ found' = IF q.text = <<>> /\ ~Constrained(filter') THEN {} ELSE rows'

QueriesInit ==
  /\ request \in Requests /\ tokens = <<>>
  /\ filter = request /\ rows = Rows(request)
  /\ found = IF Constrained(request) THEN rows ELSE {}

Type(token) ==
  /\ Len(tokens) < MaxTokens
  /\ tokens' = Append(tokens, token)
  /\ Answer(Parse(tokens'))
  /\ UNCHANGED request

QueriesNext == \E token \in Vocabulary : Type(token)

(***************************************************************************)
(* Properties.                                                             *)
(***************************************************************************)

\* Every token narrows what is shown, but a second type, and a second year,
\* which may take the place of the first (apply_to, build_with).
Repeats(s, name) ==
  \E i \in DOMAIN s : IsOperator(s[i]) /\ s[i].name = name
TokenNarrows ==
  LET token == tokens'[Len(tokens')]
      again == IsOperator(token)
                 /\ \/ token.name = "type" /\ (Repeats(tokens, "type") \/ request.types # {})
                    \/ token.name = "year" /\ Repeats(tokens, "year")
  IN ~again => rows' \subseteq rows
Narrower == [][TokenNarrows]_vars

\* What is typed first does not matter, but for years (parse).
OrderIsFree ==
  ~(\E i, j \in DOMAIN tokens : i # j /\ tokens[i].name = "year" /\ tokens[j].name = "year")
  => filter = Apply(request, Parse(Reverse(tokens)))

\* The plan is chosen for the filter it is made for: where only the base is
\* asked for the whole of it is shown, and where only tags are asked for it is
\* what carries them (base_only, tags_only: every clause is counted).  The rows
\* are the same whichever statement is written; this is about which one is.
Plain(f) == [f EXCEPT !.within = {}, !.types = {}, !.authors = {}, !.phrases = {},
                      !.from = NoYear, !.to = NoYear]
PlansFit ==
  filter.trash # "include" =>
    /\ BaseOnly(filter) => rows = {i \in Items : InScope(filter, i)}
    /\ TagsOnly(filter) => rows = Rows(Plain(filter))
    /\ ~BaseOnly(filter) => Plain(filter) # filter \/ filter.tags # {}

\* A box that says nothing is answered with nothing; any other is answered
\* with what it asks for, and nothing excluded or in the trash is shown unasked.
NothingHidden ==
  /\ found # rows => rows = {i \in Items : ~i.trashed}
  /\ \A i \in found : i.trashed => filter.trash # "exclude"
  /\ \A t \in DOMAIN tokens : IsOperator(tokens[t]) /\ tokens[t].name = "tag"
       => \A i \in found : (tokens[t].value \in i.tags) = ~tokens[t].dash

QueriesAnswered == OrderIsFree /\ PlansFit /\ NothingHidden
=============================================================================
