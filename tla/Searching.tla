------------------------------ MODULE Searching ------------------------------
(***************************************************************************)
(* A search for words (SearchEngine::search in crates/yk-search/src/       *)
(* lib.rs, with lexical.rs, vector.rs and fusion.rs), while items are      *)
(* edited, and the items that are sent back with its hits (list in         *)
(* crates/yk-server/src/routes/items.rs).                                  *)
(*                                                                         *)
(* Candidates are read in one transaction and ranked by rowid; the         *)
(* vectors are those in memory at the moment of ranking; what is shown is  *)
(* read later, by rowid and then by key.  A rowid is given out again when  *)
(* the last row is deleted.  The blocking work of a search outlives the    *)
(* request that asked for it.                                              *)
(*                                                                         *)
(* A text says how much weight each word has in it.  Scores are kept in    *)
(* the order they put things in, and weights in hundredths.                *)
(***************************************************************************)
EXTENDS Integers, Sequences, FiniteSets, SequencesExt, FiniteSetsExt

CONSTANTS
  Callers,    \* requests
  Texts,      \* [word -> weight]
  Tables,     \* what the library may hold at first
  Questions,  \* records: words, scope, lexical, semantic
  Alike(_, _),\* two words that fuzzy matching takes for each other
  Begins(_, _),\* the first word is a beginning of the second
  MaxId, MaxEdits,
  Permits,    \* searches at a time
  Candidates, \* CANDIDATES: how many each retriever may bring
  PageSize

VARIABLES
  items,     \* the table, by rowid: key, text, filed, deleted
  version,   \* of the library
  vectors,   \* what is held in memory: the text each rowid was embedded with
  eligible,  \* the remembered set of live rows
  search,    \* what each request knows
  task       \* the blocking work it has started: reading and ranking

vars == <<items, version, vectors, eligible, search, task>>

Rows(scope) ==
  {i \in DOMAIN items :
     CASE scope = "live"  -> ~items[i].deleted
       [] scope = "filed" -> ~items[i].deleted /\ items[i].filed
       [] scope = "bin"   -> items[i].deleted}

-----------------------------------------------------------------------------
(***************************************************************************)
(* The retrievers.  Each asks for rows that are not deleted, and for those *)
(* of the filter among them.                                               *)
(***************************************************************************)
Searchable(scope) == {i \in Rows(scope) : ~items[i].deleted}

\* The last word of a query is the beginning of one.
Matches(words, n, text) ==
  {w \in DOMAIN text : /\ text[w] > 0
                       /\ w = words[n] \/ (n = Len(words) /\ Begins(words[n], w))}
Weight(words, text) ==
  MapThenSumSet(LAMBDA n : MapThenSumSet(LAMBDA w : text[w], Matches(words, n, text)), DOMAIN words)

\* Best first, and in the order of rowids among equals.
Ranked(score) ==
  SetToSortSeq(DOMAIN score, LAMBDA i, j : score[i] > score[j] \/ (score[i] = score[j] /\ i < j))
Best(score) ==
  LET all == Ranked(score) IN SubSeq(all, 1, Min({Len(all), Candidates}))

AllWords(q) == {i \in Searchable(q.scope) : \A n \in DOMAIN q.words : Matches(q.words, n, items[i].text) # {}}
AnyWord(q)  == {i \in Searchable(q.scope) : \E n \in DOMAIN q.words : Matches(q.words, n, items[i].text) # {}}

\* Any word will do when no item has them all.
Keyword(q) ==
  LET found == IF AllWords(q) # {} THEN AllWords(q) ELSE AnyWord(q)
  IN IF q.lexical THEN Best([i \in found |-> Weight(q.words, items[i].text)]) ELSE <<>>

\* The first n of a statement without an order.
FirstOf(S, n) == LET all == SetToSortSeq(S, <) IN SubSeq(all, 1, Min({Len(all), n}))

\* The query as it stands, and, when that finds few, one word after the other
\* until there are enough.
Fuzzy(q) ==
  LET exact == FirstOf(AllWords(q), Candidates)
      like(w) == FirstOf({i \in Searchable(q.scope) :
                            \E v \in DOMAIN items[i].text : items[i].text[v] > 0 /\ Alike(w, v)},
                         2 * Candidates)
      more(out, w) == IF Len(out) >= Candidates THEN out
                      ELSE out \o SelectSeq(like(w), LAMBDA i : i \notin Range(out))
  IN IF ~q.lexical THEN <<>>
     ELSE IF Len(exact) >= Min({Candidates, 8}) THEN exact
     ELSE FoldLeft(more, exact, q.words)

\* What the fuzzy candidates are kept for and ranked by: the words they are
\* close to, at least half of them.
Close(q, text) ==
  Cardinality({n \in DOMAIN q.words : \E v \in DOMAIN text : text[v] > 0 /\ Alike(q.words[n], v)})
FuzzyRanked(q, texts) ==
  Best([i \in {j \in DOMAIN texts : 2 * Close(q, texts[j]) >= Len(q.words)} |-> Close(q, texts[i])])

\* Every vector of an allowed row has some similarity.
Semantic(q, allowed) ==
  Best([i \in DOMAIN vectors \cap allowed |-> Weight(q.words, vectors[i])])

\* Changed the way a bug would, to see that the properties notice:
\* the remembered set is believed whatever was written since;
Remembered(scope) ==
  IF scope = "live" /\ eligible.version # -1 THEN eligible.rows ELSE Rows(scope)

\* The set of live rows is remembered for a version; others are read each time.
Eligible(scope) ==
  IF scope = "live" /\ eligible.version = version THEN eligible.rows ELSE Rows(scope)

\* fuse: the sum over the lists of weight / (60 + rank), ties by rowid.
ListWeights == <<100, 90, 55>>
Share(list, weight, i) ==
  MapThenSumSet(LAMBDA n : IF list[n] = i THEN (weight * 1000000) \div (60 + n) ELSE 0, DOMAIN list)
Fuse(lists) ==
  Ranked([i \in UNION {Range(lists[l]) : l \in DOMAIN lists} |->
            MapThenSumSet(LAMBDA l : Share(lists[l], ListWeights[l], i), DOMAIN lists)])

\* a list that is just full is taken for all there is;
Overfull(lists) == \E l \in DOMAIN lists : Len(lists[l]) > Candidates

\* A retriever that brought all it may had more to give.
Capped(lists) == \E l \in DOMAIN lists : Len(lists[l]) >= Candidates

-----------------------------------------------------------------------------
Nothing == [at |-> "idle"]
Idle == [reading |-> "none", ranking |-> "none"]

SearchInit ==
  /\ items \in Tables /\ vectors = [i \in DOMAIN items |-> items[i].text] /\ version = 0
  /\ eligible = [version |-> -1, rows |-> {}]
  /\ search = [c \in Callers |-> Nothing] /\ task = [c \in Callers |-> Idle]

\* The work a request has started keeps its permit.
Working(c) == task[c].reading = "running" \/ task[c].ranking = "running"
\* a permit ends with the request, not with its work.
WhileAsked(c) == search[c].at \in {"started", "read"}

HasPermit(c) == search[c].at \in {"started", "read"} \/ Working(c)

Ask(c, q) ==
  /\ search[c].at = "idle" /\ ~Working(c)
  /\ search' = [search EXCEPT ![c] = [at |-> "waiting", q |-> q]]
  /\ UNCHANGED <<items, version, vectors, eligible, task>>

Start(c) ==
  /\ search[c].at = "waiting" /\ Cardinality({d \in Callers : HasPermit(d)}) < Permits
  /\ search' = [search EXCEPT ![c].at = "started"]
  /\ task' = [task EXCEPT ![c].reading = "running"]
  /\ UNCHANGED <<items, version, vectors, eligible>>

\* One read snapshot: the allowed rows and the fuzzy candidates, which are
\* handed over at once, and the keyword hits, which are not.
Read(c) ==
  LET q == search[c].q
      allowed == IF q.semantic THEN Eligible(q.scope) ELSE {}
  IN /\ search[c].at = "started" /\ task[c].reading = "running"
     /\ eligible' = IF q.semantic /\ q.scope = "live"
                    THEN [version |-> version, rows |-> allowed] ELSE eligible
     /\ search' = [search EXCEPT ![c] =
          [at |-> "read", q |-> q, rows |-> Rows(q.scope), whole |-> AllWords(q),
           named |-> [i \in DOMAIN items |-> items[i].key],
           embedded |-> FALSE, nearest |-> <<>>, closest |-> <<>>,
           allowed |-> allowed, keyword |-> Keyword(q),
           fuzzy |-> [i \in Range(Fuzzy(q)) |-> items[i].text]]]
     /\ UNCHANGED <<items, version, vectors, task>>

\* Nobody waits for the candidates any more: the transaction is given up.
GiveUp(c) ==
  /\ search[c].at = "idle" /\ task[c].reading = "running"
  /\ task' = [task EXCEPT ![c].reading = "none"]
  /\ UNCHANGED <<items, version, vectors, eligible, search>>

ReadDone(c) ==
  /\ search[c].at = "read" /\ task[c].reading = "running"
  /\ task' = [task EXCEPT ![c].reading = "none"]
  /\ UNCHANGED <<items, version, vectors, eligible, search>>

\* The question may have no vector: it is not asked for, or the provider failed.
Embed(c, embedded) ==
  /\ search[c].at = "read" /\ task[c].ranking = "none"
  /\ embedded => search[c].q.semantic
  /\ search' = [search EXCEPT ![c].embedded = embedded]
  /\ task' = [task EXCEPT ![c].ranking =
                IF embedded \/ search[c].fuzzy # <<>> THEN "running" ELSE "done"]
  /\ UNCHANGED <<items, version, vectors, eligible>>

\* The vectors are those of this moment, the allowed rows those of the snapshot.
Rank(c) ==
  /\ task[c].ranking = "running"
  /\ task' = [task EXCEPT ![c].ranking = IF search[c].at = "read" THEN "done" ELSE "none"]
  /\ LET s == search[c] IN
     search' = IF s.at # "read" THEN search ELSE
       [search EXCEPT ![c].closest = FuzzyRanked(s.q, s.fuzzy),
                      ![c].nearest = IF s.embedded THEN Semantic(s.q, s.allowed) ELSE <<>>]
  /\ UNCHANGED <<items, version, vectors, eligible>>

Lists(s) == <<s.keyword, s.nearest, s.closest>>
Page(s, offset) == SubSeq(s, offset + 1, Min({Len(s), offset + PageSize}))

\* The page is named by what its rowids hold by now.
Present(c, offset) ==
  LET fused == Fuse(Lists(search[c]))
      held == SelectSeq(Page(fused, offset), LAMBDA i : i \in DOMAIN items)
  IN /\ search[c].at = "read" /\ task[c] = [reading |-> "none", ranking |-> "done"]
     /\ search' = [search EXCEPT ![c] =
          [at |-> "found", q |-> @.q, lists |-> Lists(@), fused |-> fused, capped |-> Capped(Lists(@)),
           rows |-> @.rows, whole |-> @.whole, named |-> @.named,
           hits |-> [n \in DOMAIN held |-> [id |-> held[n], key |-> items[held[n]].key]]]]
     /\ task' = [task EXCEPT ![c] = Idle]
     /\ UNCHANGED <<items, version, vectors, eligible>>

\* What is sent are the hits whose key is still there, in their order.
Send(c) ==
  /\ search[c].at = "found"
  /\ search' = [search EXCEPT ![c].at = "sent",
       ![c].hits = SelectSeq(@, LAMBDA h : \E i \in DOMAIN items : items[i].key = h.key)]
  /\ UNCHANGED <<items, version, vectors, eligible, task>>

\* The answer is read, or the client goes away.
Leave(c) ==
  /\ search[c].at # "idle"
  /\ search' = [search EXCEPT ![c] = Nothing]
  /\ task' = [task EXCEPT ![c].ranking = IF @ = "running" THEN @ ELSE "none"]
  /\ UNCHANGED <<items, version, vectors, eligible>>

-----------------------------------------------------------------------------
(***************************************************************************)
(* What happens to the items meanwhile.                                    *)
(***************************************************************************)
Write(table) ==
  /\ version < MaxEdits
  /\ version' = version + 1 /\ items' = table
  /\ UNCHANGED <<vectors, eligible, search, task>>

Rewrite(i, text) == Write([items EXCEPT ![i].text = text])
Bin(i)           == Write([items EXCEPT ![i].deleted = ~@])
Delete(i)        == Write([j \in DOMAIN items \ {i} |-> items[j]])
Create(i, text)  ==
  /\ i = 1 + Max(DOMAIN items \cup {0})
  /\ Write([j \in DOMAIN items \cup {i} |-> IF j # i THEN items[j] ELSE
            [key |-> MaxId + version + 1, text |-> text, filed |-> FALSE, deleted |-> FALSE]])

\* The embedding worker catches up with a row, or drops the vectors of rows
\* that are gone.
Catch(i) ==
  /\ vectors' = [j \in DOMAIN vectors \cup {i} |-> IF j = i THEN items[i].text ELSE vectors[j]]
  /\ UNCHANGED <<items, version, eligible, search, task>>
Prune ==
  /\ vectors' = [j \in DOMAIN vectors \cap DOMAIN items |-> vectors[j]]
  /\ UNCHANGED <<items, version, eligible, search, task>>

SearchNext ==
  \/ \E c \in Callers :
       \/ \E q \in Questions : Ask(c, q)
       \/ Start(c) \/ Read(c) \/ ReadDone(c) \/ GiveUp(c)
       \/ \E embedded \in BOOLEAN : Embed(c, embedded)
       \/ Rank(c)
       \/ \E offset \in {0, PageSize} : Present(c, offset)
       \/ Send(c) \/ Leave(c)
  \/ \E i \in DOMAIN items :
       (\E text \in Texts : Rewrite(i, text)) \/ Bin(i) \/ Delete(i) \/ Catch(i)
  \/ \E i \in 1 .. MaxId, text \in Texts : Create(i, text)
  \/ Prune

(***************************************************************************)
(* Properties.                                                             *)
(***************************************************************************)
Answers == {search[c] : c \in {d \in Callers : search[d].at \in {"found", "sent"}}}

\* What is sent was within the filter at the one moment of the snapshot, under
\* the key it is sent with; a rowid that was given out again since may name a
\* younger item (search, load_display).
SentWasFound ==
  \A a \in Answers : \A n \in DOMAIN a.hits :
    LET h == a.hits[n]
    IN h.id \in a.rows /\ (h.key = a.named[h.id] \/ h.key > MaxId)

\* An item outside the bin with every word of the query is among the results,
\* unless they say that there are more (search, keyword_filtered).
NothingMissed ==
  \A a \in Answers : a.q.lexical /\ ~a.capped => a.whole \subseteq Range(a.fused)

\* An item that every retriever puts before another, or has alone, comes before
\* it (fuse).
Before(list, i, j) ==
  i \in Range(list) /\ (j \in Range(list) => SelectInSeq(list, LAMBDA k : k = i) < SelectInSeq(list, LAMBDA k : k = j))
AgreedOrder ==
  \A a \in Answers : \A m, n \in DOMAIN a.fused :
    (\A l \in DOMAIN a.lists : a.fused[n] \in Range(a.lists[l]) => Before(a.lists[l], a.fused[m], a.fused[n]))
      => m <= n

\* The work of searches that nobody waits for counts too (permit in search).
WorkIsBounded == Cardinality({c \in Callers : Working(c)}) <= Permits

\* The remembered set of live rows is never of another moment (eligible).
EligibleIsExact == eligible.version = version => eligible.rows = Rows("live")

SearchedRight == SentWasFound /\ NothingMissed /\ AgreedOrder /\ WorkIsBounded /\ EligibleIsExact
=============================================================================
