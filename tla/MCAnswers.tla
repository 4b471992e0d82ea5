------------------------------ MODULE MCAnswers ------------------------------
(***************************************************************************)
(* What is asked, what comes in and what goes out, each part checked on    *)
(* its own: questions typed over a library, searches by word and by        *)
(* meaning, papers that are related, identifiers looked up, services       *)
(* searched; references carried to other formats and back, references      *)
(* printed, a library brought across from Zotero, and files that come to   *)
(* papers.  A behaviour is of one part.                                    *)
(***************************************************************************)
EXTENDS Attaching

VARIABLES
  part,
  request, tokens, filter, rows, found,                           \* Queries
  stock, stamp, vectors, eligible, search, work,                  \* Searching
  binned, gone, edits, touched, focus, got, picture,              \* Related
  original, list, passed,                                         \* RoundTrips
  style, has, authors,                                            \* Citing
  text, zoteroBin, here, trash, shelves, filed, stored, task, runs, amends, quiet, \* Importing
  taken, asking, faults, outcome, held, atFirst, looked, drafts, again, created, \* Resolving
  only, heard, out                                                \* OutsideSearch

queriesVars == <<request, tokens, filter, rows, found>>
searchingVars == <<stock, stamp, vectors, eligible, search, work>>
relatedVars == <<binned, gone, edits, touched, focus, got, picture>>
roundTripsVars == <<original, list, passed>>
citingVars == <<style, has, authors>>
importingVars == <<text, zoteroBin, here, trash, shelves, filed, stored, task, runs, amends, quiet>>
resolvingVars == <<taken, asking, faults, outcome, held, atFirst, looked, drafts, again, created>>
outsideVars == <<only, heard, out>>
answersVars == <<part, vars, queriesVars, searchingVars, relatedVars, roundTripsVars, citingVars,
                 importingVars, resolvingVars, outsideVars>>

-----------------------------------------------------------------------------
\* Questions: items that differ in each way a token can ask for, and up to
\* three tokens on top of what the sidebar has selected.
NoYear == 99
LastYear == 3
AskedItem(tags, type, names, year, says, within, top, trashed) ==
  [tags |-> tags, type |-> type, authors |-> names, year |-> year, says |-> says, within |-> within,
   top |-> top, trashed |-> trashed]
AskedItems ==
  {AskedItem(t, k, a, y, s, w, TRUE, FALSE) : t \in {{}, {"x"}, {"x", "y"}}, k \in {"book", "article"},
     a \in {{}, {"a"}}, y \in {NoYear, 1, 2}, s \in {{}, {"p"}}, w \in {{}, {"keys"}}}
  \cup {AskedItem({"x"}, "book", {"a"}, 1, {"p"}, {"keys"}, top, binnedToo) : top, binnedToo \in BOOLEAN}
Token(dash, colon, name, value) ==
  [kind |-> "token", dash |-> dash, colon |-> colon, name |-> name, value |-> value]
Year(form, from, to) == [form |-> form, from |-> from, to |-> to]
Years ==
  "1.." :> Year("range", 1, NoYear) @@ ">=2" :> Year("at least", 2, NoYear) @@ "<=1" :> Year("at most", NoYear, 1)
  @@ ">1" :> Year("after", 1, NoYear) @@ ">3" :> Year("after", LastYear, NoYear) @@ "<2" :> Year("before", NoYear, 2)
  @@ "1" :> Year("exactly", 1, 1) @@ "nd" :> Year("exactly", NoYear, NoYear)
Typed ==
  {Token(FALSE, TRUE, "tag", "x"), Token(TRUE, TRUE, "tag", "y"), Token(TRUE, TRUE, "tag", "x"),
   Token(FALSE, TRUE, "type", "book"), Token(TRUE, TRUE, "type", "article"), Token(FALSE, TRUE, "author", "a"),
   Token(TRUE, FALSE, "", "word"), Token(FALSE, TRUE, "wat", "ever"), Token(FALSE, TRUE, "tag", ""),
   [Token(FALSE, FALSE, "", "p") EXCEPT !.kind = "phrase"]}
  \cup {Token(FALSE, TRUE, "year", v) : v \in DOMAIN Years}
Everything ==
  [within |-> {}, tags |-> {}, types |-> {}, authors |-> {}, phrases |-> {}, from |-> NoYear, to |-> NoYear,
   top |-> FALSE, trash |-> "exclude"]
Sidebar ==
  {Everything, [Everything EXCEPT !.top = TRUE, !.trash = "only"], [Everything EXCEPT !.trash = "include"],
   [Everything EXCEPT !.within = {"keys"}], [Everything EXCEPT !.types = {"book"}, !.tags = {<<FALSE, "y">>}]}
Query == INSTANCE Queries WITH
  Items <- AskedItems, Vocabulary <- Typed, Requests <- Sidebar, MaxTokens <- 3, YearsOf <- Years,
  NoYear <- NoYear, MaxYear <- LastYear

-----------------------------------------------------------------------------
\* Searches: three rows of two words, two requests, one permit; the second
\* request asks by word only, of the library as it was.
Weights(x, y) == [w \in {"a", "ab"} |-> IF w = "a" THEN x ELSE y]
Row(k, t, f) == [key |-> k, text |-> t, filed |-> f, deleted |-> FALSE]
Question(words, scope, lexical, semantic) ==
  [words |-> words, scope |-> scope, lexical |-> lexical, semantic |-> semantic]
Searcher == INSTANCE Searching WITH
  Callers <- {"c1", "c2"}, Texts <- {Weights(2, 0), Weights(0, 1)},
  Tables <- {<<Row(1, Weights(2, 0), TRUE), Row(2, Weights(1, 1), FALSE), Row(3, Weights(0, 1), TRUE)>>},
  Questions <- {Question(<<"a">>, "live", TRUE, TRUE), Question(<<"ab", "a">>, "filed", TRUE, TRUE),
                Question(<<"ab", "a">>, "live", TRUE, FALSE), Question(<<"a">>, "bin", FALSE, TRUE)},
  Alike <- LAMBDA v, w : v = w, Begins <- LAMBDA v, w : v = "a" \/ v = w,
  MaxId <- 3, MaxEdits <- 2, Permits <- 1, Candidates <- 2, PageSize <- 2,
  items <- stock, version <- stamp, task <- work
SecondIsModest ==
  search'["c2"].at # "idle" \/ work'["c2"].ranking # "none" \/ work'["c2"].reading # "none" =>
    stamp' = 0 /\ vectors' = vectors /\ (search'["c2"].at # "idle" => ~search'["c2"].q.semantic)

-----------------------------------------------------------------------------
\* Related papers: two that share tags, an author, a shelf and cited works, one
\* that they cite, and a note.
RelatedPaper(n, tags, author, on, citing, own, top) ==
  [at |-> n, tags |-> tags, author |-> author, shelves |-> on, cites |-> citing, work |-> own, year |-> n % 2, top |-> top]
Shelved4 == [k \in {"p", "q", "r", "n"} |->
  CASE k = "p" -> RelatedPaper(1, {"x", "y"}, "A", {"s"}, <<"v", "w", "", "wq">>, "wp", TRUE)
    [] k = "q" -> RelatedPaper(2, {"x", "y"}, "A", {"s"}, <<"v", "w">>, "wq", TRUE)
    [] k = "r" -> RelatedPaper(3, {"x"}, "", {}, <<"wp", "wq", "w">>, "", TRUE)
    [] k = "n" -> RelatedPaper(4, {"y"}, "", {"s"}, <<"wp", "wq">>, "wp", FALSE)]
Relation == INSTANCE Related WITH
  Papers <- Shelved4, NoWork <- "", NoAuthor <- "", Close <- LAMBDA j, k : Shelved4[j].at * Shelved4[k].at,
  TagCeiling <- 2, WorkCeiling <- 2, MinShared <- 2, Limit <- 1, MaxEdits <- 2

-----------------------------------------------------------------------------
\* References carried elsewhere and back: two at a time, the first of every
\* type in every kind of container, with all sorts of titles, people, dates,
\* pages and tags.
Trip == INSTANCE RoundTrips WITH Originals <- {}
RefTypes == {"journalArticle", "magazineArticle", "newspaperArticle", "book", "bookSection", "conferencePaper",
  "thesis", "report", "manuscript", "preprint", "webpage", "document"}
Person(kind, name, family, first) == [kind |-> kind, name |-> name, last |-> family, first |-> first]
Zhang == Person("author", <<>>, <<"zhang">>, <<"wei">>)
RefPeople ==
  {<<>>, <<Zhang>>, <<Person("editor", <<"who">>, <<>>, <<>>), Zhang, Person("author", <<>>, <<"li">>, <<>>)>>,
   <<Person("author", <<"sun", "and", "sons">>, <<>>, <<>>)>>, <<Person("author", <<"sun", ",", "inc">>, <<>>, <<>>)>>,
   <<Person("author", <<>>, <<>>, <<"plato">>)>>, <<[Zhang EXCEPT !.kind = "translator"]>>,
   <<Person("author", <<"who">>, <<"who">>, <<>>)>>}
RefDates == {<<>>, <<2019, 0, 0>>, <<2019, 3, 0>>, <<2019, 3, 4>>, <<2019, TRUE>>, <<0, FALSE>>, <<0, TRUE>>}
RefPages == {<<>>, <<<<"10">>, <<>>, "">>, <<<<"10">>, <<>>, "-">>, <<<<"10">>, <<"20">>, "-">>, <<<<"10">>, <<"20">>, "en">>}
RefTags == {<<>>, <<<<"a">>, <<"b">>>>, <<<<"a", ",", "b">>>>}
RefTitles == {<<>>, <<"plain">>, <<"quote", "plain", "quote">>, <<"quote", "a", "quote", "b">>}
RefFields(title, date, pages) == Trip!Present([title |-> title, date |-> date, pages |-> pages, DOI |-> <<"10.1">>])
PlainReport == Trip!Draft("report", RefFields(<<"plain">>, <<>>, <<>>), <<Zhang>>, <<>>)
Placed(type, container, issuers, serials) ==
  Trip!Draft(type,
    Trip!Present([title |-> <<"plain">>, DOI |-> <<"10.1">>])
      @@ Trip!Present(container :> IF container = "nowhere" THEN <<>> ELSE <<"nature">>)
      @@ [n \in issuers |-> <<n>>] @@ [n \in serials |-> <<n>>],
    <<Zhang>>, <<<<"a">>>>)
References ==
  {Placed(t, c, i, s) : t \in RefTypes, c \in {"nowhere", "publicationTitle", "bookTitle", "proceedingsTitle", "websiteTitle"},
     i \in {{}, {"publisher"}, {"university"}, {"institution"}, {"publisher", "institution"}},
     s \in {{}, {"ISSN"}, {"ISBN"}, {"ISSN", "ISBN"}}}
  \cup {Trip!Draft("journalArticle", RefFields(t, <<>>, <<>>), p, g) : t \in RefTitles, p \in RefPeople, g \in RefTags}
  \cup {Trip!Draft("journalArticle", RefFields(<<"plain">>, d, p), <<Zhang>>, <<>>) : d \in RefDates, p \in RefPages}
RoundTrip == INSTANCE RoundTrips WITH Originals <- {<<r, PlainReport>> : r \in References}

-----------------------------------------------------------------------------
\* Printed references: every combination of pieces, up to 21 authors.
Printed == INSTANCE Citing WITH
  Pieces <- {"Year", "Title", "Stop", "Container", "Issue", "Doi", "Url"}, Counts <- {0, 1, 2, 3, 4, 7, 11, 20, 21}

-----------------------------------------------------------------------------
\* A library with a paper that has a note, a file and an annotation, a paper
\* without, a note on its own, and collections three deep, brought twice.
Brought == {"a", "b", "na", "ns", "fa", "x"}
Import == INSTANCE Importing WITH
  Papers <- {"a", "b"}, Notes <- {"na", "ns"}, Files <- {"fa"}, Marks <- {"x"}, Nobody <- "nobody",
  ParentOf <- [k \in Brought |-> CASE k \in {"na", "fa"} -> "a" [] k = "x" -> "fa" [] OTHER -> "nobody"],
  ShelfOrder <- <<"c3", "c2", "c1">>, ShelfParent <- [c1 |-> "nobody", c2 |-> "c1", c3 |-> "c2"],
  Shelved <- {<<"a", "c1">>, <<"a", "c3">>}, Linked <- {},
  MaxText <- 2, MaxRuns <- 2, MaxEdits <- 1, binned <- zoteroBin, edits <- amends

-----------------------------------------------------------------------------
\* Identifiers: one of every kind but a second arXiv number and three pages,
\* of which one is a wall; up to three answers that fail.
Id(kind, value) == [kind |-> kind, value |-> value]
Record(fields, tags, creators) == [fields |-> fields, tags |-> tags, creators |-> creators]
Page(citation, og, ld, name, wall) ==
  [said |-> [citation |-> citation, dc |-> <<>>, og |-> og, ld |-> ld], name |-> name, wall |-> wall, creators |-> <<>>]
World ==
  [crossref |-> Id("doi", "d") :> Record([title |-> "t", DOI |-> "d", url |-> "doi", date |-> "crossref"], {"x"}, <<"n">>),
   datacite |-> <<>>,
   arxiv |-> Id("arxiv", "a") :> Record([title |-> "pre", arXiv |-> <<"a", 1>>, url |-> "abs", date |-> "arxiv"], {"cs"}, <<"n">>)
          @@ Id("arxiv", "a2") :> Record([title |-> "pre", arXiv |-> <<"a", 2>>, DOI |-> "d", url |-> "abs"], {"lg"}, <<>>),
   pubmed |-> Id("pmid", "p") :> Record([title |-> "t", date |-> "pubmed"], {}, <<>>),
   openalex |-> Id("arxiv", "a") :> Record([title |-> "t", DOI |-> "d", date |-> "openalex"], {}, <<>>)
             @@ Id("doi", "d") :> Record([title |-> "t", DOI |-> "d", date |-> "openalex"], {}, <<>>),
   semanticscholar |-> Id("pmid", "p") :> Record([title |-> "t", DOI |-> "d"], {}, <<"m">>),
   openlibrary |-> Id("isbn", "b") :> Record([title |-> "book", date |-> "openlibrary"], {"s"}, <<"k">>),
   webpage |-> Id("url", "u") :> Page([title |-> "t", ISBN |-> "b"], <<>>, [DOI |-> "d", title |-> "other", date |-> "ld"], "site", FALSE)
            @@ Id("url", "v") :> Page(<<>>, [title |-> "pre", date |-> "og"], <<>>, "site", FALSE)
            @@ Id("url", "w") :> Page(<<>>, [date |-> "og"], <<>>, "just a moment", TRUE)]
Word(ids) == [is |-> ids, bare |-> FALSE]
Bare(i) == [is |-> <<i>>, bare |-> TRUE]
DoiAddress == Word(<<Id("doi", "d"), Id("url", "u")>>)
Arxiv == Id("arxiv", "a")
Pasted ==
  {<<Word(<<Arxiv>>), Word(<<Id("doi", "d")>>)>>, <<Word(<<Id("doi", "d")>>), DoiAddress>>,
   <<Word(<<Id("arxiv", "a2")>>), Bare(Arxiv)>>, <<Bare(Arxiv), Bare(Id("arxiv", "a2"))>>,
   <<Word(<<Id("pmid", "p"), Id("pmcid", "c")>>)>>,
   <<Word(<<Id("url", "u")>>), Word(<<Id("isbn", "b")>>), Word(<<Id("doi", "d")>>)>>,
   <<Word(<<Id("url", "w")>>), Word(<<Arxiv>>)>>,
   <<Word(<<Id("pmid", "p")>>), Word(<<Arxiv>>), Word(<<Id("doi", "d")>>)>>,
   <<Word(<<Arxiv>>), Word(<<Id("url", "v")>>)>>}
Resolve == INSTANCE Resolving WITH
  Texts <- Pasted, Limits <- {1, 3}, World <- World, MaxFaults <- 3,
  Shelf <- {<<"DOI", "d">>, <<"arXiv", <<"a", 1>>>>}, library <- held, duplicates <- again

-----------------------------------------------------------------------------
\* Services: two at a time, or one that is not known, two works from each.
Offered(title, doi, arxiv, url) == [title |-> title, doi |-> doi, arxiv |-> arxiv, url |-> url]
Works ==
  {Offered("t1", "d1", "", "u"), Offered("t1", "", "", ""), Offered("t2", "d1", "a", "u"), Offered("t2", "", "a", ""),
   Offered("", "d2", "", ""), Offered("t3", "d3", "", "")}
Outside == INSTANCE OutsideSearch WITH
  Asked <- {{"arxiv", "pubmed"}, {"crossref", "scopus"}, {"scopus"}, {"crossref", "openalex"}},
  Offers <- {<<>>} \cup {<<w>> : w \in Works} \cup {<<v, w>> : v, w \in Works}, Limit <- 2, answer <- heard

-----------------------------------------------------------------------------
AnswersInit ==
  /\ part \in {"attaching", "queries", "searching", "related", "roundtrips", "citing", "importing", "resolving", "outside"}
  /\ Init
  /\ IF part = "queries" THEN Query!QueriesInit
     ELSE request = 0 /\ tokens = 0 /\ filter = 0 /\ rows = 0 /\ found = 0
  /\ IF part = "searching" THEN Searcher!SearchInit
     ELSE stock = 0 /\ stamp = 0 /\ vectors = 0 /\ eligible = 0 /\ search = 0 /\ work = 0
  /\ IF part = "related" THEN Relation!RelatedInit
     ELSE binned = 0 /\ gone = 0 /\ edits = 0 /\ touched = 0 /\ focus = 0 /\ got = 0 /\ picture = 0
  /\ IF part = "roundtrips" THEN RoundTrip!RoundTripsInit ELSE original = 0 /\ list = 0 /\ passed = 0
  /\ IF part = "citing" THEN Printed!CitingInit ELSE style = 0 /\ has = 0 /\ authors = 0
  /\ IF part = "importing" THEN Import!Init
     ELSE /\ text = 0 /\ zoteroBin = 0 /\ here = 0 /\ trash = 0 /\ shelves = 0 /\ filed = 0 /\ stored = 0
          /\ task = 0 /\ runs = 0 /\ amends = 0 /\ quiet = 0
  /\ IF part = "resolving" THEN Resolve!Init
     ELSE /\ taken = 0 /\ asking = 0 /\ faults = 0 /\ outcome = 0 /\ held = 0 /\ atFirst = 0
          /\ looked = 0 /\ drafts = 0 /\ again = 0 /\ created = 0
  /\ IF part = "outside" THEN Outside!Init ELSE only = 0 /\ heard = 0 /\ out = 0

AnswersNext ==
  /\ UNCHANGED part
  /\ \/ /\ part = "attaching" /\ Next
        /\ UNCHANGED <<queriesVars, searchingVars, relatedVars, roundTripsVars, citingVars, importingVars, resolvingVars, outsideVars>>
     \/ /\ part = "queries" /\ Query!QueriesNext
        /\ UNCHANGED <<vars, searchingVars, relatedVars, roundTripsVars, citingVars, importingVars, resolvingVars, outsideVars>>
     \/ /\ part = "searching" /\ Searcher!SearchNext /\ SecondIsModest
        /\ UNCHANGED <<vars, queriesVars, relatedVars, roundTripsVars, citingVars, importingVars, resolvingVars, outsideVars>>
     \/ /\ part = "related" /\ Relation!RelatedNext
        /\ UNCHANGED <<vars, queriesVars, searchingVars, roundTripsVars, citingVars, importingVars, resolvingVars, outsideVars>>
     \/ /\ part = "roundtrips" /\ RoundTrip!RoundTripsNext
        /\ UNCHANGED <<vars, queriesVars, searchingVars, relatedVars, citingVars, importingVars, resolvingVars, outsideVars>>
     \/ /\ part = "citing" /\ Printed!CitingNext
        /\ UNCHANGED <<vars, queriesVars, searchingVars, relatedVars, roundTripsVars, importingVars, resolvingVars, outsideVars>>
     \/ /\ part = "importing" /\ Import!Next
        /\ UNCHANGED <<vars, queriesVars, searchingVars, relatedVars, roundTripsVars, citingVars, resolvingVars, outsideVars>>
     \/ /\ part = "resolving" /\ Resolve!Next
        /\ UNCHANGED <<vars, queriesVars, searchingVars, relatedVars, roundTripsVars, citingVars, importingVars, outsideVars>>
     \/ /\ part = "outside" /\ Outside!Next
        /\ UNCHANGED <<vars, queriesVars, searchingVars, relatedVars, roundTripsVars, citingVars, importingVars, resolvingVars>>

AnswersSpec == AnswersInit /\ [][AnswersNext]_answersVars

-----------------------------------------------------------------------------
\* What is found is what was asked for, in the order that was promised, and
\* what could not be found is said (Queries, Searching, Related, Resolving,
\* OutsideSearch).
FoundIsWhatIsAsked ==
  /\ part = "queries" => Query!QueriesAnswered
  /\ part = "searching" => Searcher!SearchedRight
  /\ part = "related" => Relation!RelatedRight
  /\ part = "resolving" => Resolve!ResolvedRight
  /\ part = "outside" => Outside!FoundOutside

\* A record is carried, printed and brought across as itself (RoundTrips,
\* Citing, Importing).
RecordsToldApart ==
  /\ part = "roundtrips" => RoundTrip!RoundTripsRight
  /\ part = "citing" => Printed!CitedRight
  /\ part = "importing" => Import!ImportedRight

\* Another token only narrows, and an import takes nothing away (Queries,
\* Importing).
NothingTakenBack ==
  [][/\ part = "queries" => Query!TokenNarrows
     /\ part = "importing" => Import!StepTakesNothing]_answersVars
=============================================================================
