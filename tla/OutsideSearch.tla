---------------------------- MODULE OutsideSearch ----------------------------
(***************************************************************************)
(* Searching the outside world (crates/yk-scrape/src/search/mod.rs,        *)
(* sources.rs, parse.rs; search_external in routes/scrape.rs): services    *)
(* are asked together, each may fail, and what they found is merged rank   *)
(* by rank.  A work is what a service says of it: a title, and a DOI, an   *)
(* arXiv number and an address where it has them ("" where not).           *)
(***************************************************************************)
EXTENDS Integers, Sequences, SequencesExt, FiniteSets

CONSTANTS
  Asked,     \* the sets of services a search may name; none is all of them
  Offers,    \* what a service may come back with: sequences of works
  Limit

VARIABLES only, answer, out

vars == <<only, answer, out>>

\* In this order.
Services == <<"arxiv", "crossref", "pubmed", "openalex">>
Chosen == SelectSeq(Services, LAMBDA s : only = {} \/ s \in only)
Unknown == only # {} /\ Chosen = <<>>

\* The best name a service gives for a work.
Best(doi, arxiv, url) == IF doi # "" THEN doi ELSE IF arxiv # "" THEN arxiv ELSE url
Named(service, w) ==
  CASE service = "arxiv" -> Best(w.doi, w.arxiv, w.url)
    [] service = "pubmed" -> Best(w.doi, "", w.url)
    [] OTHER -> w.doi

\* A service's answer, read: a work without a title is passed over.
Found(service, works) ==
  LET first == SubSeq(works, 1, IF Len(works) < Limit THEN Len(works) ELSE Limit)
      titled == SelectSeq(first, LAMBDA w : w.title # "")
  IN [n \in 1..Len(titled) |-> [title |-> titled[n].title, identifier |-> Named(service, titled[n])]]

Init ==
  /\ only \in Asked /\ out = <<>>
  /\ answer = [s \in {} |-> [is |-> "found", found |-> <<>>]]

Answer(s, is, found) ==
  answer' = [t \in DOMAIN answer \cup {s} |-> IF t = s THEN [is |-> is, found |-> found] ELSE answer[t]]
Waiting(s) == out = <<>> /\ s \in ToSet(Chosen) \ DOMAIN answer

\* PubMed finds first and describes what it found with a second request, which
\* is not made when nothing was found.
Describing(s) == s = "pubmed" /\ s \in DOMAIN answer /\ answer[s].is = "ids"
Finds == /\ Waiting("pubmed") /\ Answer("pubmed", "ids", <<>>) /\ UNCHANGED <<only, out>>
Describes ==
  /\ Describing("pubmed")
  /\ \E works \in Offers \ {<<>>} : Answer("pubmed", "found", Found("pubmed", works))
  /\ UNCHANGED <<only, out>>
Answers(s) ==
  /\ Waiting(s)
  /\ \E works \in Offers : (s = "pubmed" => works = <<>>) /\ Answer(s, "found", Found(s, works))
  /\ UNCHANGED <<only, out>>

\* Not reached, refused, or not understood, at either request.
Fails(s) ==
  /\ Waiting(s) \/ Describing(s)
  /\ Answer(s, "failed", <<>>)
  /\ UNCHANGED <<only, out>>

\* One paper of two services.
SameAs(a, b) == (a.identifier # "" /\ a.identifier = b.identifier) \/ a.title = b.title

\* The copy that can be added wins, in the place of the one that was there.
FirstStays(results, hit) ==
  IF \E r \in ToSet(results) : SameAs(r, hit) THEN results ELSE Append(results, hit)
Merged(results, hit) ==
  LET same == SelectInSeq(results, LAMBDA r : SameAs(r, hit))
  IN IF same = 0 THEN Append(results, hit)
     ELSE IF results[same].identifier = "" THEN [results EXCEPT ![same] = hit]
     ELSE results

\* Every service's best, then every service's second.
Lists == LET ok == SelectSeq(Chosen, LAMBDA s : answer[s].is = "found") IN [n \in 1..Len(ok) |-> answer[ok[n]].found]
BySource == FlattenSeq(Lists)
ByRank ==
  FlattenSeq([rank \in 1..Limit |->
    LET those == SelectSeq(Lists, LAMBDA l : rank <= Len(l)) IN [n \in 1..Len(those) |-> those[n][rank]]])
Merge ==
  /\ out = <<>>
  /\ \A s \in ToSet(Chosen) : s \in DOMAIN answer /\ ~Describing(s)
  /\ out' = << [results |-> FoldLeft(Merged, <<>>, ByRank),
                failed |-> IF Unknown THEN only ELSE {s \in ToSet(Chosen) : answer[s].is = "failed"}] >>
  /\ UNCHANGED <<only, answer>>

Next == Finds \/ Describes \/ Merge \/ \E s \in ToSet(Services) : Answers(s) \/ Fails(s)

-----------------------------------------------------------------------------
\* Whatever an answering service found is in the results, under an identifier
\* if it had one, and no result is from nowhere.
NothingLost ==
  out # <<>> =>
    /\ \A n \in 1..Len(Lists) : \A k \in 1..Len(Lists[n]) :
         \E r \in ToSet(out[1].results) :
           SameAs(r, Lists[n][k]) /\ (Lists[n][k].identifier # "" => r.identifier # "")
    /\ \A r \in ToSet(out[1].results) : \E n \in 1..Len(Lists) : r \in ToSet(Lists[n])

\* The best of each service is among the first, one for each service that
\* answered; the next best among the next, whatever the order of services.
BestComeFirst ==
  out # <<>> =>
    \A n \in 1..Len(Lists) : \A k \in 1..Len(Lists[n]) :
      \E p \in 1..Len(out[1].results) : p <= k * Len(Lists) /\ SameAs(out[1].results[p], Lists[n][k])

\* A search that left a service out says so: nothing found and nobody named
\* means that all who were asked answered.
GapsAreNamed ==
  out # <<>> => /\ \A s \in ToSet(Chosen) : answer[s].is = "found" \/ s \in out[1].failed
                /\ Unknown => out[1].failed # {}

FoundOutside == NothingLost /\ BestComeFirst /\ GapsAreNamed
=============================================================================
