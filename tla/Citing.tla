-------------------------------- MODULE Citing --------------------------------
(***************************************************************************)
(* References in a style (crates/yk-cite/src/lib.rs, styles.rs).  A style  *)
(* is data: an order of segments, each a piece of the item with the        *)
(* punctuation that goes with it, and a way to list names.  A text is a    *)
(* sequence of words and of marks; "address" stands for the words that     *)
(* make what follows a link, and an item is the pieces it has and the      *)
(* people who wrote it.                                                    *)
(***************************************************************************)
EXTENDS Naturals, Sequences, SequencesExt, FiniteSets

CONSTANTS
  Pieces,      \* what the items may have, of those below
  Counts       \* how many authors they may have

VARIABLES
  style,       \* the style the item is rendered in
  has,         \* the pieces the item has
  authors      \* of each author, whether the name is one field

vars == <<style, has, authors>>

Names(invert, given, max, elided, last, rest) ==
  [invert |-> invert, given |-> given, max |-> max, elided |-> elided, last |-> last, rest |-> rest]

\* The segments of each style: piece, prefix, suffix.
Stop == <<".", " ">>
Comma == <<",", " ">>
Link == <<".", " ", "address">>
APA ==
  [names |-> Names("all", "dotted", 20, 20, Comma \o <<"and", " ">>, <<"et al", ".">>), undated |-> TRUE, leads |-> TRUE, numeric |-> FALSE,
   segments |-> << <<"Authors", <<>>, Stop>>, <<"Year", <<"(">>, <<")", ".", " ">>>>, <<"Title", <<>>, Stop>>,
      <<"Container", <<>>, <<>>>>, <<"Volume", Comma, <<>>>>, <<"Issue", <<"(">>, <<")">>>>,
      <<"Pages", Comma, <<>>>>, <<"Publisher", Stop, <<>>>>, <<"Doi", Link, <<>>>>, <<"Url", Stop, <<>>>> >>]
MLA ==
  [names |-> Names("first", "full", 2, 1, Comma \o <<"and", " ">>, <<"et al", ".">>), undated |-> FALSE, leads |-> FALSE, numeric |-> FALSE,
   segments |-> << <<"Authors", <<>>, Stop>>, <<"Title", <<"<">>, <<".", ">", " ">>>>, <<"Container", <<>>, Comma>>,
      <<"Publisher", <<>>, Comma>>, <<"Volume", <<>>, Comma>>, <<"Issue", <<>>, Comma>>, <<"Year", <<>>, Comma>>,
      <<"Pages", <<>>, <<>>>>, <<"Doi", <<",", " ", "address">>, <<>>>>, <<"Url", Comma, <<>>>> >>]
CHICAGO ==
  [names |-> Names("first", "full", 10, 7, Comma \o <<"and", " ">>, <<"et al", ".">>), undated |-> TRUE, leads |-> TRUE, numeric |-> FALSE,
   segments |-> << <<"Authors", <<>>, Stop>>, <<"Year", <<>>, Stop>>, <<"Title", <<"<">>, <<".", ">", " ">>>>,
      <<"Container", <<>>, <<" ">>>>, <<"Volume", <<>>, <<>>>>, <<"Issue", <<" ", "(">>, <<")">>>>,
      <<"Pages", <<":", " ">>, <<>>>>, <<"Publisher", Stop, <<>>>>, <<"Doi", Link, <<>>>>, <<"Url", Stop, <<>>>> >>]
IEEE ==
  [names |-> Names("none", "dotted", 6, 1, Comma \o <<"and", " ">>, <<"et al", ".">>), undated |-> FALSE, leads |-> FALSE, numeric |-> TRUE,
   segments |-> << <<"Authors", <<>>, Comma>>, <<"Title", <<"<">>, <<",", ">", " ">>>>, <<"Container", <<>>, Comma>>,
      <<"Publisher", <<>>, Comma>>, <<"Volume", <<>>, Comma>>, <<"Issue", <<>>, Comma>>, <<"Pages", <<>>, Comma>>,
      <<"Year", <<>>, <<>>>>, <<"Doi", <<",", " ", "address">>, <<>>>> >>]
GB_T_7714 ==
  [names |-> Names("all", "bare", 3, 3, Comma, <<"et al">>), undated |-> FALSE, leads |-> FALSE, numeric |-> TRUE,
   segments |-> << <<"Authors", <<>>, <<>>>>, <<"Title", Stop, <<>>>>, <<"Kind", <<>>, <<>>>>,
      <<"Container", Stop, <<>>>>, <<"Publisher", Stop, <<>>>>, <<"Year", Comma, <<>>>>, <<"Volume", Comma, <<>>>>,
      <<"Issue", <<"(">>, <<")">>>>, <<"Pages", <<":", " ">>, <<>>>>, <<"Doi", Link, <<>>>> >>]
STYLES == [apa |-> APA, mla |-> MLA, chicago |-> CHICAGO, ieee |-> IEEE, gb7714 |-> GB_T_7714]

-----------------------------------------------------------------------------
\* One name, surname first or not; a name that is one field is indivisible.
Name(whole, s, inverted) ==
  LET given == IF s.names.given = "dotted" THEN <<"g", ".">> ELSE <<"g">>
  IN CASE whole -> <<"name">>
       [] ~whole /\ inverted /\ s.names.given = "bare" -> <<"name", " ">> \o given
       [] ~whole /\ inverted /\ s.names.given # "bare" -> <<"name">> \o Comma \o given
       [] OTHER -> given \o <<" ", "name">>

\* Changed the way a bug would, to see that the properties notice:
\* the last separator is written though somebody is left out;
AndTheLast(people, s) ==
  LET elided == Len(people) > s.names.max
      n == IF elided /\ s.names.elided < Len(people) THEN s.names.elided ELSE Len(people)
      before(k) == CASE k = 1 -> <<>> [] k > 1 /\ k = n -> s.names.last [] OTHER -> Comma
  IN FlattenSeq([k \in 1..n |-> before(k) \o Name(people[k], s, FALSE)])
     \o (IF elided THEN Comma \o s.names.rest ELSE <<>>)

\* The list of names: all of them up to the style's limit, else the first few
\* and "et al."; the last separator only when nobody is left out.
ListedNames(people, s) ==
  LET elided == Len(people) > s.names.max
      n == IF elided /\ s.names.elided < Len(people) THEN s.names.elided ELSE Len(people)
      inverted(k) == s.names.invert = "all" \/ (s.names.invert = "first" /\ k = 1)
      before(k) == CASE k = 1 -> <<>>
                     [] k > 1 /\ k = n /\ ~elided -> s.names.last
                     [] OTHER -> Comma
  IN FlattenSeq([k \in 1..n |-> before(k) \o Name(people[k], s, inverted(k))])
     \o (IF elided THEN Comma \o s.names.rest ELSE <<>>)

\* A piece of the item; a DOI stands for the address, a year that is not there
\* may be said to be missing, and a title may end in a stop already.
Piece(p, s) ==
  CASE p = "Authors" -> ListedNames(authors, s)
    [] p = "Title" -> IF "Title" \in has THEN IF "Stop" \in has THEN <<"Title", ".">> ELSE <<"Title">> ELSE <<>>
    [] p = "Kind" -> <<"Kind">>
    [] p = "Year" /\ "Year" \notin has -> IF s.undated THEN <<"n", ".", "d", ".">> ELSE <<>>
    [] p = "Url" -> IF "Url" \in has /\ "Doi" \notin has THEN <<"address", "Url">> ELSE <<>>
    [] OTHER -> IF p \in has THEN <<p>> ELSE <<>>

Marks == {".", ",", " "}

\* marks are left as the segments bring them.
AsItCame(text) == IF text = <<>> \/ Last(text) \in {".", "Doi", "Url"} THEN text ELSE Append(text, ".")

\* A second stop and a second space are swallowed; an entry ends in a stop,
\* unless it ends in an address.
Tidy(text) ==
  LET after == [k \in DOMAIN text |-> <<IF k = 1 THEN "" ELSE text[k - 1], text[k]>>]
      once == SelectSeq(after, LAMBDA c : c[1] # c[2] \/ c[2] \notin {".", " "})
      kept == [k \in DOMAIN once |-> once[k][2]]
      from == SelectInSeq(kept, LAMBDA c : c # " ")
      until == SelectLastInSeq(kept, LAMBDA c : c \notin {",", " "})
      trimmed == IF until = 0 THEN <<>> ELSE SubSeq(kept, from, until)
  IN IF trimmed = <<>> \/ Last(trimmed) \in {".", "Doi", "Url"} THEN trimmed ELSE Append(trimmed, ".")

\* An anonymous work is filed under its title where the year would come first;
\* a piece that is missing takes its punctuation with it.
Reference(s) ==
  LET promote == s.leads /\ authors = <<>> /\ "Title" \in has
      text(p) == CASE p = "Authors" /\ promote -> Piece("Title", s)
                   [] p = "Title" /\ promote -> <<>>
                   [] OTHER -> Piece(p, s)
      segment(g) == IF text(g[1]) = <<>> THEN <<>> ELSE g[2] \o text(g[1]) \o g[3]
  IN Tidy(FlattenSeq([k \in DOMAIN s.segments |-> segment(s.segments[k])]))

-----------------------------------------------------------------------------
CitingInit ==
  /\ style \in DOMAIN STYLES
  /\ \E n \in Counts : \E first \in BOOLEAN : authors = [k \in 1..n |-> (k = 1) /\ first]
  /\ has = {}

\* The record of the item gains a piece.
Learn(p) == p \notin has /\ has' = has \cup {p} /\ UNCHANGED <<style, authors>>

CitingNext == \E p \in Pieces : Learn(p)

CitingSpec == CitingInit /\ [][CitingNext]_vars

-----------------------------------------------------------------------------
Times(word, text) == Cardinality({k \in DOMAIN text : text[k] = word})
Segments(s) == {s.segments[k][1] : k \in DOMAIN s.segments}

\* Everything the item has that the style prints is printed, once, wherever a
\* missing author moves it; an address only when there is no DOI (reference).
PrintedOnce ==
  LET text == Reference(STYLES[style])
  IN \A p \in (has \cap Segments(STYLES[style])) \ {"Stop"} :
       Times(p, text) = IF p = "Url" /\ "Doi" \in has THEN 0 ELSE 1

\* Every author is named, or the list says that some are not: it never ends in
\* "and" and in "et al." (names).
NobodyIsForgotten ==
  LET text == ListedNames(authors, STYLES[style])
  IN /\ Times("name", text) < Len(authors) <=> Times("et al", text) = 1
     /\ Times("et al", text) + Times("and", text) < 2
     /\ Len(authors) > 0 => Times("name", text) > 0

\* Whatever is missing, no brackets are left empty, no stop or space is said
\* twice, and an entry ends in a stop or in an address; it opens with a mark
\* only when nobody wrote it (tidy).  Two segments can still each bring a comma.
WellPunctuated ==
  LET text == Reference(STYLES[style])
  IN /\ \A k \in 1..(Len(text) - 1) :
          <<text[k], text[k + 1]>> \notin {<<".", ".">>, <<" ", " ">>, <<"(", ")">>, <<" ", ")">>}
     /\ text # <<>> => Last(text) \in {".", "Doi", "Url"}
     /\ (text # <<>> /\ Head(text) \in Marks) => authors = <<>>

CitedRight == PrintedOnce /\ NobodyIsForgotten /\ WellPunctuated
=============================================================================
