------------------------------ MODULE RoundTrips ------------------------------
(***************************************************************************)
(* References that travel: written as BibTeX, RIS or CSL-JSON              *)
(* (crates/yk-cite/src/export.rs) and read back by this program            *)
(* (import.rs), any number of times in any order of formats.  A reference  *)
(* is a type, the fields it has, its people and its tags.  A text is a     *)
(* sequence of words and marks, as it is cut where it is read: a name at   *)
(* its comma, names at " and ", tags at commas, a title at its quotes.     *)
(***************************************************************************)
EXTENDS Naturals, Sequences, SequencesExt, TLC

CONSTANT Originals   \* the lists of references that set out

VARIABLES
  original,   \* the references that set out
  list,       \* what they are now
  passed      \* the formats they went through

vars == <<original, list, passed>>

\* A text is a sequence of words, and what is not there says nothing.
None == <<>>
Formats == {"bibtex", "ris", "csl"}

-----------------------------------------------------------------------------
\* A reference.

Field(i, name) == IF name \in DOMAIN i.fields THEN i.fields[name] ELSE None

First(i, names) ==
  LET n == SelectInSeq(names, LAMBDA name : Field(i, name) # None)
  IN IF n = 0 THEN None ELSE Field(i, names[n])

\* What the work appeared in, and the body that issued it, under any name.
ContainerOf(i) == First(i, <<"publicationTitle", "bookTitle", "proceedingsTitle", "websiteTitle">>)
IssuerOf(i) == First(i, <<"publisher", "university", "institution">>)

\* Changed the way a bug would, to see that the properties notice:
\* everything that is not a journal's is read into one field;
AnyContainer(type) == IF type = "bookSection" THEN "bookTitle" ELSE "publisher"
\* every number is taken for a journal's.
AlwaysISSN(type) == "ISSN"

ContainerField(type) ==
  CASE type = "bookSection" -> "bookTitle"
    [] type = "conferencePaper" -> "proceedingsTitle"
    [] type = "webpage" -> "websiteTitle"
    [] OTHER -> "publicationTitle"
IssuerField(type) ==
  CASE type = "thesis" -> "university" [] type = "report" -> "institution" [] OTHER -> "publisher"
SerialField(type) == IF type \in {"book", "bookSection"} THEN "ISBN" ELSE "ISSN"

\* Only fields that say something are written, and set.
Present(fields) == [n \in {m \in DOMAIN fields : fields[m] # None} |-> fields[n]]

\* A date is <<year, month, day>> with 0 for what is not said, or some other
\* text, of which the year in it counts and whether it is longer than a year.
YearOf(date) == IF date = None THEN 0 ELSE date[1]
Loose(date) == Len(date) = 2
Long(date) == date # None /\ (IF Loose(date) THEN date[2] ELSE date[2] # 0)
Strict(year, month, day) == IF year = 0 THEN None ELSE <<year, month, day>>
DateParts(date) == IF date = None \/ Loose(date) THEN <<YearOf(date), 0, 0>> ELSE date

\* Each keyword and name of a joined text.
RECURSIVE Cut(_, _)
Cut(text, mark) ==
  LET n == SelectInSeq(text, LAMBDA w : w = mark)
  IN IF n = 0 THEN <<text>>
     ELSE <<SubSeq(text, 1, n - 1)>> \o Cut(SubSeq(text, n + 1, Len(text)), mark)
RECURSIVE Joined(_, _)
Joined(texts, mark) ==
  IF Len(texts) < 2 THEN FlattenSeq(texts) ELSE Head(texts) \o <<mark>> \o Joined(Tail(texts), mark)
Spoken(texts) == SelectSeq(texts, LAMBDA t : t # <<>>)

\* The people of one kind, each as a bibliography writes them.
NameText(c) ==
  CASE c.name # <<>> -> c.name
    [] c.name = <<>> /\ c.last # <<>> /\ c.first # <<>> -> c.last \o <<",">> \o c.first
    [] OTHER -> c.last \o c.first
Of(i, kind) == SelectSeq(i.creators, LAMBDA c : c.kind = kind)
Role(i, kind) ==
  LET people == Of(i, kind) IN Spoken([n \in DOMAIN people |-> NameText(people[n])])

\* Read one person: the comma is the difference between a surname and a name
\* that is one field.
Creator(text, kind) ==
  LET n == SelectInSeq(text, LAMBDA w : w = ",")
  IN IF n = 0 THEN [kind |-> kind, name |-> text, last |-> <<>>, first |-> <<>>]
     ELSE [kind |-> kind, name |-> <<>>, last |-> SubSeq(text, 1, n - 1),
           first |-> SubSeq(text, n + 1, Len(text))]
Creators(texts, kind) ==
  LET said == Spoken(texts) IN [n \in DOMAIN said |-> Creator(said[n], kind)]

Draft(type, fields, creators, tags) ==
  [type |-> type, fields |-> fields, creators |-> creators, tags |-> tags]

-----------------------------------------------------------------------------
\* BibTeX.  It has no place for an ISSN here, nor for a day.

BibtexType(type) ==
  CASE type \in {"journalArticle", "magazineArticle", "newspaperArticle"} -> "article"
    [] type = "book" -> "book"
    [] type = "bookSection" -> "incollection"
    [] type = "conferencePaper" -> "inproceedings"
    [] type = "thesis" -> "phdthesis"
    [] type = "report" -> "techreport"
    [] type \in {"manuscript", "preprint"} -> "unpublished"
    [] OTHER -> "misc"

Bibtex(i) ==
  LET date == DateParts(Field(i, "date"))
      inside == i.type \in {"bookSection", "conferencePaper"}
  IN [entry |-> BibtexType(i.type),
      author |-> Joined(Role(i, "author"), "and"), editor |-> Joined(Role(i, "editor"), "and"),
      keywords |-> Joined(i.tags, ","), year |-> date[1], month |-> date[2],
      booktitle |-> IF inside THEN ContainerOf(i) ELSE None,
      journal |-> IF inside THEN None ELSE ContainerOf(i),
      title |-> Field(i, "title"), pages |-> Field(i, "pages"), publisher |-> Field(i, "publisher"),
      institution |-> Field(i, "institution"), school |-> Field(i, "university"),
      isbn |-> Field(i, "ISBN"), doi |-> Field(i, "DOI")]

ItemTypeForBibtex(entry) ==
  CASE entry = "article" -> "journalArticle"
    [] entry = "book" -> "book"
    [] entry = "incollection" -> "bookSection"
    [] entry = "inproceedings" -> "conferencePaper"
    [] entry = "phdthesis" -> "thesis"
    [] entry = "techreport" -> "report"
    [] entry = "unpublished" -> "manuscript"
    [] OTHER -> "document"

\* A value keeps its words; quotes around the whole of it are taken for the
\* quotes BibTeX may put around a value.
Quoted(value) == Len(value) > 1 /\ Head(value) = "quote" /\ Last(value) = "quote"
Unbrace(value) == IF Quoted(value) THEN SubSeq(value, 2, Len(value) - 1) ELSE value

FromBibtex(e) ==
  LET type == ItemTypeForBibtex(e.entry)
  IN Draft(type,
       Present(ContainerField(type) :> e.booktitle) @@
       Present([title |-> Unbrace(e.title), publicationTitle |-> e.journal,
                date |-> Strict(e.year, e.month, 0), pages |-> e.pages, publisher |-> e.publisher,
                institution |-> e.institution, university |-> e.school, ISBN |-> e.isbn,
                DOI |-> e.doi]),
       Creators(Cut(e.author, "and"), "author") \o Creators(Cut(e.editor, "and"), "editor"),
       Spoken(Cut(e.keywords, ",")))

-----------------------------------------------------------------------------
\* RIS.  One tag for the containing work, one for the issuer, one for a number;
\* each line is a value of its own.

RisType(type) ==
  CASE type = "journalArticle" -> "JOUR" [] type = "magazineArticle" -> "MGZN"
    [] type = "newspaperArticle" -> "NEWS" [] type = "book" -> "BOOK" [] type = "bookSection" -> "CHAP"
    [] type = "conferencePaper" -> "CONF" [] type = "thesis" -> "THES" [] type = "report" -> "RPRT"
    [] type = "webpage" -> "ELEC" [] OTHER -> "GEN"

Ris(i) ==
  LET date == Field(i, "date")
      pages == Field(i, "pages")
  IN [TY |-> RisType(i.type), AU |-> Role(i, "author"), ED |-> Role(i, "editor"),
      TI |-> Field(i, "title"), T2 |-> ContainerOf(i), PY |-> Strict(YearOf(date), 0, 0),
      DA |-> IF Long(date) THEN date ELSE None,
      SP |-> IF pages = None THEN None ELSE pages[1],
      EP |-> IF pages = None THEN None ELSE pages[2],
      PB |-> IssuerOf(i), SN |-> First(i, <<"ISSN", "ISBN">>), DO |-> Field(i, "DOI"), KW |-> i.tags]

ItemTypeForRis(ty) ==
  CASE ty = "JOUR" -> "journalArticle" [] ty = "MGZN" -> "magazineArticle"
    [] ty = "NEWS" -> "newspaperArticle" [] ty = "BOOK" -> "book" [] ty = "CHAP" -> "bookSection"
    [] ty = "CONF" -> "conferencePaper" [] ty = "THES" -> "thesis" [] ty = "RPRT" -> "report"
    [] ty = "ELEC" -> "webpage" [] OTHER -> "document"

\* A full date wins over the year before it; a range is written with a hyphen.
FromRis(r) ==
  LET type == ItemTypeForRis(r.TY)
      pages == IF r.SP = None THEN None
               ELSE <<r.SP, r.EP, IF r.EP = None THEN "" ELSE "-">>
  IN Draft(type,
       Present([title |-> r.TI, date |-> IF r.DA # None THEN r.DA ELSE r.PY, pages |-> pages,
                DOI |-> r.DO]) @@
       Present(ContainerField(type) :> r.T2) @@ Present(IssuerField(type) :> r.PB) @@
       Present(SerialField(type) :> r.SN),
       Creators(r.AU, "author") \o Creators(r.ED, "editor"),
       Spoken(r.KW))

-----------------------------------------------------------------------------
\* CSL-JSON.  Names travel in their parts; tags and ISSN do not travel.

CslType(type) ==
  CASE type = "journalArticle" -> "article-journal" [] type = "magazineArticle" -> "article-magazine"
    [] type = "newspaperArticle" -> "article-newspaper" [] type = "book" -> "book"
    [] type = "bookSection" -> "chapter" [] type = "conferencePaper" -> "paper-conference"
    [] type = "thesis" -> "thesis" [] type = "report" -> "report" [] type = "webpage" -> "webpage"
    [] OTHER -> "document"

Csl(i) ==
  [type |-> CslType(i.type), title |-> Field(i, "title"), container |-> ContainerOf(i),
   pages |-> Field(i, "pages"), publisher |-> IssuerOf(i), ISBN |-> Field(i, "ISBN"),
   DOI |-> Field(i, "DOI"), people |-> Of(i, "author") \o Of(i, "editor"),
   issued |-> DateParts(Field(i, "date"))]

ItemTypeForCsl(kind) ==
  CASE kind = "article-journal" -> "journalArticle" [] kind = "article-magazine" -> "magazineArticle"
    [] kind = "article-newspaper" -> "newspaperArticle" [] kind = "book" -> "book"
    [] kind = "chapter" -> "bookSection" [] kind = "paper-conference" -> "conferencePaper"
    [] kind = "thesis" -> "thesis" [] kind = "report" -> "report" [] kind = "webpage" -> "webpage"
    [] OTHER -> "document"

FromCsl(c) ==
  LET type == ItemTypeForCsl(c.type)
      parted(p) == IF p.name # <<>> THEN [p EXCEPT !.last = <<>>, !.first = <<>>] ELSE p
      known == SelectSeq(c.people, LAMBDA p : p.name # <<>> \/ p.last # <<>>)
  IN Draft(type,
       Present([title |-> c.title, pages |-> c.pages, ISBN |-> c.ISBN, DOI |-> c.DOI,
                date |-> Strict(c.issued[1], c.issued[2], c.issued[3])]) @@
       Present(ContainerField(type) :> c.container) @@ Present(IssuerField(type) :> c.publisher),
       [n \in DOMAIN known |-> parted(known[n])],
       <<>>)

-----------------------------------------------------------------------------
Trip(format, i) ==
  CASE format = "bibtex" -> FromBibtex(Bibtex(i))
    [] format = "ris" -> FromRis(Ris(i))
    [] format = "csl" -> FromCsl(Csl(i))

\* A reference with neither a title nor anybody is refused, the others are kept.
IsReference(i) == Field(i, "title") # None \/ i.creators # <<>>

RoundTripsInit ==
  /\ original \in Originals
  /\ list = original
  /\ passed = {}

Travel(format) ==
  /\ list' = SelectSeq([n \in DOMAIN list |-> Trip(format, list[n])], IsReference)
  /\ passed' = passed \cup {format}
  /\ UNCHANGED original

RoundTripsNext == \E format \in Formats : Travel(format)

RoundTripsSpec == RoundTripsInit /\ [][RoundTripsNext]_vars

-----------------------------------------------------------------------------
\* Words that BibTeX would cut a name at.
Whole(i, kind) == \A n \in DOMAIN Of(i, kind) : \A w \in Range(NameText(Of(i, kind)[n])) : w # "and"
\* CSL leaves out somebody who has only a given name.
Surnamed(i) == \A n \in DOMAIN i.creators : i.creators[n].name # <<>> \/ i.creators[n].last # <<>>
Sayable(i) == Whole(i, "author") /\ Whole(i, "editor") /\ Surnamed(i)

Said(date) == SubSeq(DateParts(date), 1, IF "bibtex" \in passed THEN 2 ELSE 3)
Ends(pages) == IF pages = None THEN None ELSE <<pages[1], pages[2]>>

\* The same work however it travelled: its title, unless it is in quotes, its
\* DOI, its date but for the day that BibTeX has no place for, its pages, what
\* it appeared in and who issued it, its people in their order, unless a name
\* says "and" or is only a given name, and its tags, unless they went through
\* CSL or a tag holds a comma.
SameWork(i, j) ==
  /\ ~Quoted(Field(i, "title")) => Field(j, "title") = Field(i, "title")
  /\ Field(j, "DOI") = Field(i, "DOI")
  /\ Said(Field(j, "date")) = Said(Field(i, "date"))
  /\ Ends(Field(j, "pages")) = Ends(Field(i, "pages"))
  /\ ContainerOf(j) = ContainerOf(i)
  /\ IssuerOf(j) = IssuerOf(i)
  /\ Sayable(i) => \A kind \in {"author", "editor"} : Role(j, kind) = Role(i, kind)
  /\ (\A n \in DOMAIN i.tags : "," \notin Range(i.tags[n])) =>
       j.tags = (IF "csl" \in passed THEN <<>> ELSE i.tags)

\* Every reference comes back as the work it was, in its place among those
\* that are references (export, parse).
ComesBack ==
  LET sent == SelectSeq(original, LAMBDA i :
        Field(i, "title") # None \/ Role(i, "author") # <<>> \/ Role(i, "editor") # <<>>)
  IN /\ \A n \in DOMAIN original : Sayable(original[n])
     /\ passed # {}
     => /\ Len(list) = Len(sent)
        /\ \A n \in DOMAIN list : SameWork(sent[n], list[n])

\* A number stays what it is: an ISBN of a book never comes back as an ISSN
\* (serial_field).
BooksKeepTheirNumber ==
  \A n \in DOMAIN list : list[n].type \in {"book", "bookSection"} =>
    Field(list[n], "ISSN") = None \/ passed = {}

\* What a format loses it loses at once: the same trip again changes nothing.
\* Somebody who is not written is refused again in the same place.
SettlesAtOnce ==
  \A format \in Formats : \A n \in DOMAIN list :
    LET once == Trip(format, list[n])
    IN IsReference(once) => Trip(format, once) = once

RoundTripsRight == ComesBack /\ BooksKeepTheirNumber /\ SettlesAtOnce
=============================================================================
