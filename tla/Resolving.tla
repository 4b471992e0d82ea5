------------------------------ MODULE Resolving ------------------------------
(***************************************************************************)
(* Pasting anything and getting a paper: the identifiers in a text, the    *)
(* sources asked about each (crates/yk-scrape/src/lib.rs, resolver.rs),    *)
(* what is made of their answers (mapping.rs, meta.rs), the folding of     *)
(* several records of one work, and quick_add (routes/scrape.rs), which    *)
(* files what is not in the library yet.  The identifiers are asked about  *)
(* at the same time, and a source may refuse or be down.  Records are      *)
(* abstracted to a few fields; the sources' own words are left out.        *)
(***************************************************************************)
EXTENDS Integers, Sequences, SequencesExt, FiniteSets, TLC

CONSTANTS
  Texts,        \* sequences of words: which identifiers each is, and whether
                \* it is a bare number, which only arXiv's could be
  Limits,       \* how many may be resolved
  World,        \* [source -> [identifier known to it -> its record]]
  Shelf,        \* the fingerprints that may be in the library
  MaxFaults

VARIABLES
  taken,        \* the identifiers asked about, in order
  asking,       \* how far each has come
  faults,
  outcome,      \* [results, unresolved], once all have answered
  library, atFirst, \* the fingerprints in the library, now and when it was asked
  looked,       \* how many results quick_add has looked up
  drafts, duplicates, created

vars == <<taken, asking, faults, outcome, library, atFirst, looked, drafts, duplicates, created>>

Kinds == <<"doi", "arxiv", "pmcid", "pmid", "isbn", "url">>

\* What the words are, of one kind; an address may be a DOI as well.
Said(words, kind) == FlattenSeq([n \in DOMAIN words |-> SelectSeq(words[n].is, LAMBDA i : i.kind = kind)])

\* A bare number is taken for one of arXiv's when no other of them is named.
Scanned(text, kind) ==
  LET marked == Said(SelectSeq(text, LAMBDA w : ~w.bare), kind)
  IN IF marked = <<>> THEN Said(text, kind) ELSE marked

\* Most specific first, each once, in the order they were found within a kind.
Detected(text) ==
  LET once(s) == SelectSeq([n \in 1..Len(s) |-> IF \E m \in 1..(n - 1) : s[m] = s[n] THEN <<>> ELSE <<s[n]>>],
                           LAMBDA x : x # <<>>)
      flat == FlattenSeq([k \in 1..Len(Kinds) |-> once(Scanned(text, Kinds[k]))])
  IN FlattenSeq(flat)

\* In order of preference.
Resolvers ==
  << [id |-> "crossref", supports |-> {"doi"}], [id |-> "datacite", supports |-> {"doi"}],
     [id |-> "arxiv", supports |-> {"arxiv"}], [id |-> "pubmed", supports |-> {"pmid"}],
     [id |-> "openalex", supports |-> {"doi", "arxiv", "pmid"}],
     [id |-> "semanticscholar", supports |-> {"doi", "arxiv", "pmid"}],
     [id |-> "openlibrary", supports |-> {"isbn"}], [id |-> "webpage", supports |-> {"url"}] >>
Chain(i) == SelectSeq(Resolvers, LAMBDA r : i.kind \in r.supports)

\* What each source's mapping takes over of a record.
ArxivFills == {"title", "date", "url", "arXiv", "DOI"}
SemanticScholarFills == {"title", "date", "DOI", "url"}
Fills ==
  [crossref |-> {"title", "DOI", "url", "ISBN", "date"}, datacite |-> {"title", "DOI", "url", "date"},
   arxiv |-> ArxivFills, openlibrary |-> {"title", "date", "url"},
   pubmed |-> {"title", "date", "DOI"}, openalex |-> {"title", "date", "url", "DOI"},
   semanticscholar |-> SemanticScholarFills]

\* Two of them answer without the identifier they were asked about.
Own(source, i) ==
  CASE source = "pubmed" -> "PMID" :> i.value
    [] source = "openlibrary" -> "ISBN" :> i.value
    [] OTHER -> <<>>

\* Which of a page's descriptions is believed for a field, first to last; the
\* schema.org one only fills gaps.
Believed ==
  [title |-> <<"citation", "dc", "og", "ld">>, DOI |-> <<"citation", "dc", "ld">>,
   date |-> <<"citation", "dc", "og", "ld">>, ISBN |-> <<"citation", "ld">>]
Says(page, field) == SelectSeq(Believed[field], LAMBDA f : field \in DOMAIN page.said[f])

\* A page without bibliographic tags whose title announces a wall is no record.
OfPage(page, i) ==
  LET said == {f \in DOMAIN Believed : Says(page, f) # <<>>}
      tagged == \/ \E f \in {"citation", "dc", "ld"} : "title" \in DOMAIN page.said[f]
                \/ Says(page, "DOI") # <<>>
      named == IF "title" \in said THEN <<>> ELSE "title" :> page.name
  IN IF page.wall /\ ~tagged THEN <<>>
     ELSE << [fields |-> [f \in said |-> page.said[Says(page, f)[1]][f]] @@ named @@ ("url" :> i.value),
              tags |-> {}, creators |-> page.creators] >>

OfRecord(source, r, i) ==
  << [fields |-> [f \in DOMAIN r.fields \cap Fills[source] |-> r.fields[f]] @@ Own(source, i),
      tags |-> IF source \in {"crossref", "arxiv", "openlibrary"} THEN r.tags ELSE {},
      creators |-> r.creators] >>

\* What a source that answers makes of an identifier: a draft, or nothing.
Answer(source, i) ==
  IF i \notin DOMAIN World[source] THEN <<>>
  ELSE IF source = "webpage" THEN OfPage(World[source][i], i)
  ELSE OfRecord(source, World[source][i], i)

Rank == [none |-> 0, notFound |-> 1, unavailable |-> 2, blocked |-> 3]
LastWord(p, q) == IF q = "none" THEN p ELSE q
Worse(p, q) == IF Rank[q] > Rank[p] THEN q ELSE p

Asking(i) == [about |-> i, at |-> 1, worst |-> "none", heard |-> {}, page |-> <<>>, hit |-> <<>>, ended |-> FALSE]
Resolution(i, source, draft) == [identifier |-> i, source |-> source, draft |-> draft, of |-> {i}]

Init ==
  /\ \E t \in Texts, n \in Limits : LET d == Detected(t) IN taken = SubSeq(d, 1, IF n < Len(d) THEN n ELSE Len(d))
  /\ asking = [k \in 1..Len(taken) |-> Asking(taken[k])]
  /\ faults = 0 /\ outcome = <<>> /\ library \in SUBSET Shelf /\ atFirst = library
  /\ looked = 0 /\ drafts = <<>> /\ duplicates = {} /\ created = {}

\* What comes of an answer: a hit ends it, unless it is a page that names a
\* DOI, which is looked up instead, keeping the page's address; a miss goes on
\* to the next source, and the page itself serves if none knows the DOI.
Better(a, draft) == draft
Upgraded(a, draft) ==
  IF a.page = <<>> THEN draft
  ELSE [draft EXCEPT !.fields = ("url" :> a.page[1].draft.fields.url) @@ draft.fields]
Hit(a, source, draft) ==
  LET r == Resolution(a.about, source, Upgraded(a, draft))
  IN IF a.about.kind = "url" /\ "DOI" \in DOMAIN draft.fields
     THEN [Asking([kind |-> "doi", value |-> draft.fields.DOI]) EXCEPT !.page = <<r>>, !.heard = a.heard]
     ELSE [a EXCEPT !.hit = <<r>>, !.ended = TRUE]
Missed(a, p) ==
  LET b == [a EXCEPT !.at = @ + 1, !.worst = Worse(@, p), !.heard = @ \cup {p}]
  IN IF b.at <= Len(Chain(a.about)) THEN b
     ELSE [b EXCEPT !.hit = b.page, !.ended = TRUE]
Heard(a, source) ==
  LET d == Answer(source, a.about)
  IN IF d # <<>> THEN Hit(a, source, d[1]) ELSE Missed(a, "notFound")

Answered(k) ==
  LET a == asking[k]
      at == Chain(a.about)[a.at].id
  IN /\ outcome = <<>> /\ ~a.ended /\ Chain(a.about) # <<>>
     /\ \/ asking' = [asking EXCEPT ![k] = Heard(a, at)] /\ UNCHANGED faults
        \/ /\ faults < MaxFaults /\ faults' = faults + 1
           /\ \E p \in {"unavailable", "blocked"} : asking' = [asking EXCEPT ![k] = Missed(a, p)]
     /\ UNCHANGED <<taken, outcome, library, atFirst, looked, drafts, duplicates, created>>

\* No source claims the kind: not found, and nobody was asked.
Unclaimed(k) ==
  /\ outcome = <<>> /\ ~asking[k].ended /\ Chain(asking[k].about) = <<>>
  /\ asking' = [asking EXCEPT ![k].ended = TRUE, ![k].worst = "notFound"]
  /\ UNCHANGED <<taken, faults, outcome, library, atFirst, looked, drafts, duplicates, created>>

\* The strongest identifier both carry decides, an arXiv number without its
\* version; the title only where they share none.
StrongIds == <<"DOI", "arXiv", "ISBN", "PMID">>
Ident(draft, key) == IF key = "arXiv" THEN draft.fields[key][1] ELSE draft.fields[key]
Firsts(a, b) ==
  LET f(d) == SelectSeq(StrongIds, LAMBDA k : k \in DOMAIN d.fields)
      g(d) == IF f(d) = <<>> THEN <<"title", d.fields.title>> ELSE <<f(d)[1], Ident(d, f(d)[1])>>
  IN g(a) = g(b)
SameWork(a, b) ==
  LET both == SelectSeq(StrongIds, LAMBDA k : k \in DOMAIN a.fields \cap DOMAIN b.fields)
  IN IF both # <<>> THEN Ident(a, both[1]) = Ident(b, both[1]) ELSE a.fields.title = b.fields.title

\* The one that is kept has its say first.
Absorb(keeper, other) ==
  [keeper EXCEPT !.of = @ \cup other.of,
     !.draft = [fields |-> keeper.draft.fields @@ other.draft.fields, tags |-> keeper.draft.tags \cup other.draft.tags,
                creators |-> IF keeper.draft.creators = <<>> THEN other.draft.creators ELSE keeper.draft.creators]]
InTurn(results, hit) ==
  LET same == SelectInSeq(results, LAMBDA r : SameWork(r.draft, hit.draft))
  IN IF same = 0 THEN Append(results, hit) ELSE [results EXCEPT ![same] = Absorb(hit, @)]
Folded(results, hit) ==
  LET same == SelectInSeq(results, LAMBDA r : SameWork(r.draft, hit.draft))
  IN IF same = 0 THEN Append(results, hit) ELSE [results EXCEPT ![same] = Absorb(@, hit)]

\* In the order of the text, whoever answered first.
InOrder == [k \in 1..Len(taken) |-> k]
Outcome ==
  LET hits == SelectSeq(InOrder, LAMBDA k : asking[k].hit # <<>>)
  IN [results |-> FoldLeft(LAMBDA rs, k : Folded(rs, asking[k].hit[1]), <<>>, hits),
      unresolved |-> [k \in {j \in 1..Len(taken) : asking[j].hit = <<>>} |-> asking[k].worst]]
Fold ==
  /\ outcome = <<>> /\ \A k \in 1..Len(taken) : asking[k].ended
  /\ outcome' = <<Outcome>>
  /\ UNCHANGED <<taken, asking, faults, library, atFirst, looked, drafts, duplicates, created>>

\* The store's fingerprint of a draft: the first identifier in another order,
\* an arXiv number with its version; the title otherwise.
Fingerprint(draft) ==
  LET ids == SelectSeq(<<"DOI", "ISBN", "PMID", "arXiv">>, LAMBDA k : k \in DOMAIN draft.fields)
  IN IF ids = <<>> THEN <<"title", draft.fields.title>> ELSE <<ids[1], draft.fields[ids[1]]>>

\* quick_add: each result is looked up, one read each, then all that were not
\* found are created in one write.
LookUp ==
  /\ outcome # <<>> /\ looked < Len(outcome[1].results) /\ created = {}
  /\ LET r == outcome[1].results[looked + 1]
     IN IF Fingerprint(r.draft) \in library
        THEN duplicates' = duplicates \cup {looked + 1} /\ UNCHANGED drafts
        ELSE drafts' = Append(drafts, looked + 1) /\ UNCHANGED duplicates
  /\ looked' = looked + 1
  /\ UNCHANGED <<taken, asking, faults, outcome, library, atFirst, created>>
Create ==
  /\ outcome # <<>> /\ looked = Len(outcome[1].results) /\ drafts # <<>> /\ created = {}
  /\ created' = ToSet(drafts)
  /\ library' = library \cup {Fingerprint(outcome[1].results[k].draft) : k \in ToSet(drafts)}
  /\ UNCHANGED <<taken, asking, faults, outcome, atFirst, looked, drafts, duplicates>>

\* Somebody else files a work meanwhile.
Other ==
  /\ outcome # <<>> /\ \E f \in Shelf \ library : library' = library \cup {f}
  /\ UNCHANGED <<taken, asking, faults, outcome, atFirst, looked, drafts, duplicates, created>>

Next == \/ \E k \in 1..Len(taken) : Answered(k) \/ Unclaimed(k)
        \/ Fold \/ LookUp \/ Create \/ Other

-----------------------------------------------------------------------------
\* Every identifier that was asked about is in one result or is accounted for,
\* with the most telling of what its sources said.
EachAccountedFor ==
  outcome # <<>> =>
    /\ \A k \in 1..Len(taken) :
         LET in == {n \in 1..Len(outcome[1].results) : asking[k].hit # <<>> /\ asking[k].hit[1].of \subseteq outcome[1].results[n].of}
         IN Cardinality(in) = IF k \in DOMAIN outcome[1].unresolved THEN 0 ELSE 1
    /\ \A k \in DOMAIN outcome[1].unresolved :
         \A p \in asking[k].heard : Rank[outcome[1].unresolved[k]] >= Rank[p]

\* What a result says of a field is what the first of its records in the text
\* that has the field says, whoever answered first; no record's tag is lost.
FirstHasItsSay ==
  outcome # <<>> =>
    \A n \in 1..Len(outcome[1].results) :
      LET r == outcome[1].results[n].draft
          mine == {k \in 1..Len(taken) : asking[k].hit # <<>> /\ asking[k].hit[1].of \subseteq outcome[1].results[n].of}
          said(k) == asking[k].hit[1].draft
      IN /\ \A k \in mine : said(k).tags \subseteq r.tags /\ DOMAIN said(k).fields \subseteq DOMAIN r.fields
         /\ \A f \in DOMAIN r.fields : \E k \in mine :
              /\ f \in DOMAIN said(k).fields /\ r.fields[f] = said(k).fields[f]
              /\ \A j \in mine : j < k => f \notin DOMAIN said(j).fields

\* Two records with the same DOI are one result, and two with the same title
\* that share no kind of identifier; of three or more, a record that comes
\* later may make two results one work, and the code does not look again.
OneResultEach ==
  outcome # <<>> /\ Len(taken) <= 2 =>
    \A m, n \in 1..Len(outcome[1].results) : m # n =>
      LET a == outcome[1].results[m].draft.fields
          b == outcome[1].results[n].draft.fields
          both == DOMAIN a \cap DOMAIN b \cap ToSet(StrongIds)
      IN IF "DOI" \in both THEN a.DOI # b.DOI ELSE both = {} => a.title # b.title

\* A page keeps the address that was pasted, however it was looked up.
AddressIsKept ==
  \A k \in 1..Len(taken) :
    taken[k].kind = "url" /\ asking[k].hit # <<>> => asking[k].hit[1].draft.fields.url = taken[k].value

\* What was in the library when it was asked is reported, never added again,
\* and every result is one or the other once the request is over.
NothingAddedTwice ==
  outcome # <<>> =>
    /\ \A n \in created : Fingerprint(outcome[1].results[n].draft) \notin atFirst
    /\ duplicates \cap created = {}
    /\ looked = Len(outcome[1].results) /\ (created # {} \/ drafts = <<>>) =>
         duplicates \cup created = 1..looked

ResolvedRight == EachAccountedFor /\ FirstHasItsSay /\ OneResultEach /\ AddressIsKept /\ NothingAddedTwice
=============================================================================
