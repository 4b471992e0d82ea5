------------------------------- MODULE Related -------------------------------
(***************************************************************************)
(* What is near a paper: the relations that its tags, author, collections  *)
(* and reference lists imply (crates/yk-store/src/graph.rs), the citations *)
(* on either side of it (relations.rs), the vectors closest to its own     *)
(* (SearchEngine::similar), and the one picture made of all of these       *)
(* (crates/yk-server/src/routes/graph.rs).                                 *)
(*                                                                         *)
(* The five questions of a picture are read at moments of their own, and   *)
(* papers are binned, restored and deleted between them.  A paper is a     *)
(* record of its tags, author, shelves, references (a list of works, of    *)
(* which one may come twice), own work, year, and of being a child.        *)
(***************************************************************************)
EXTENDS Integers, Sequences, FiniteSets, SequencesExt, FiniteSetsExt

CONSTANTS
  Papers,       \* [key -> record]
  NoWork, NoAuthor,
  Close(_, _),  \* the similarity of two vectors
  TagCeiling, WorkCeiling, MinShared,  \* too common to mean anything; too few
  Limit, MaxEdits

VARIABLES
  binned, gone,   \* papers in the bin, and papers deleted
  edits, touched,  \* how many edits, and history: the papers edited
  focus,          \* the paper asked about
  got,            \* what each question has brought
  picture         \* nodes and edges

vars == <<binned, gone, edits, touched, focus, got, picture>>

Keys == DOMAIN Papers
Held == Keys \ gone
Shown == {k \in Held \ binned : Papers[k].top}

-----------------------------------------------------------------------------
(***************************************************************************)
(* Relations that the library implies, each with its weight.               *)
(***************************************************************************)
\* Changed the way a bug would, to see that the properties notice:
\* a statement that stops at the ceiling never sees that there are more;
Sampled(holders, ceiling) == Min({Cardinality(holders), ceiling}) <= ceiling

\* Whether a statement that looks at one more than the ceiling finds no more.
Uncommon(holders, ceiling) == Min({Cardinality(holders), ceiling + 1}) <= ceiling
TaggedWith(t) == {k \in Held : t \in Papers[k].tags}
References(k) == Papers[k].cites
Citing(w) == {<<k, n>> \in Held \X (1 .. 3) : n \in DOMAIN References(k) /\ References(k)[n] = w}

TagWeight(f, k) ==
  Cardinality({t \in Papers[f].tags \cap Papers[k].tags : Uncommon(TaggedWith(t), TagCeiling)})

AuthorWeight(f, k) ==
  IF Papers[f].author # NoAuthor /\ Papers[k].author = Papers[f].author THEN 1 ELSE 0

ShelfWeight(f, k) == Cardinality(Papers[f].shelves \cap Papers[k].shelves)

\* Rows of the other list that name a work of this one.
CouplingWeight(f, k) ==
  LET mine == {w \in Range(References(f)) : w # NoWork /\ Uncommon(Citing(w), WorkCeiling)}
  IN Cardinality({n \in DOMAIN References(k) : References(k)[n] \in mine})

\* Rows that name the other paper in the lists that name this one.
CocitationWeight(f, k) ==
  LET together == {c[1] : c \in Citing(Papers[f].work)}
  IN IF NoWork \in {Papers[f].work, Papers[k].work} \/ Papers[k].work = Papers[f].work THEN 0
     ELSE Cardinality({c \in Citing(Papers[k].work) : c[1] \in together})

Enough(weight, least) == weight >= least

\* The Limit first of those with enough weight: the heaviest and then the
\* youngest.
Neighbours(kind, weight, least) ==
  LET near == {k \in DOMAIN weight : Enough(weight[k], least)}
      earlier(j, k) == \/ weight[j] > weight[k]
                       \/ weight[j] = weight[k] /\ Papers[j].year > Papers[k].year
                       \/ weight[j] = weight[k] /\ Papers[j].year = Papers[k].year /\ Papers[j].at < Papers[k].at
      all == SetToSortSeq(near, earlier)
  IN [n \in 1 .. Min({Len(all), Limit}) |-> [key |-> all[n], kind |-> kind, weight |-> weight[all[n]]]]

\* Tags are counted for every row first, and what is not shown drops out of
\* the first few.
Structural(f) ==
  SelectSeq(Neighbours("tag", [k \in Held \ {f} |-> TagWeight(f, k)], 1), LAMBDA n : n.key \in Shown)
    \o Neighbours("author", [k \in Shown \ {f} |-> AuthorWeight(f, k)], 1)
    \o Neighbours("collection", [k \in Shown \ {f} |-> ShelfWeight(f, k)], 1)
    \o Neighbours("coupling", [k \in Shown \ {f} |-> CouplingWeight(f, k)], MinShared)
    \o Neighbours("cocitation", [k \in Shown \ {f} |-> CocitationWeight(f, k)], MinShared)

-----------------------------------------------------------------------------
(***************************************************************************)
(* Citations, and the closest vectors, of which the bin is no bar.         *)
(***************************************************************************)
Resolved(w) == {k \in Held \ binned : w # NoWork /\ Papers[k].work = w}
InOrder(S) == SetToSortSeq(S, LAMBDA j, k : Papers[j].at < Papers[k].at)

\* Each entry of the list: the papers that are that work, or the work itself.
Cites(f) ==
  FlattenSeq([n \in DOMAIN References(f) |->
    LET w == References(f)[n]
    IN IF Resolved(w) = {} THEN <<[key |-> NoWork, work |-> w, at |-> n]>>
       ELSE LET held == InOrder(Resolved(w))
            IN [m \in DOMAIN held |-> [key |-> held[m], work |-> w, at |-> n]]])

CitedBy(f) ==
  IF Papers[f].work = NoWork THEN <<>>
  ELSE LET rows == SetToSortSeq({c \in Citing(Papers[f].work) : c[1] \notin binned},
                     LAMBDA c, d :
                       \/ Papers[c[1]].year > Papers[d[1]].year
                       \/ Papers[c[1]].year = Papers[d[1]].year /\ Papers[c[1]].at < Papers[d[1]].at
                       \/ c[1] = d[1] /\ c[2] < d[2])
       IN [n \in DOMAIN rows |-> [key |-> rows[n][1], work |-> Papers[f].work, at |-> rows[n][2]]]

\* Papers that are gone may be in memory still.
Nearest(f, memory) ==
  LET all == SetToSortSeq(memory \ {f}, LAMBDA j, k :
               \/ Close(f, j) > Close(f, k)
               \/ Close(f, j) = Close(f, k) /\ Papers[j].at < Papers[k].at)
  IN SubSeq(all, 1, Min({Len(all), Limit}))

-----------------------------------------------------------------------------
(***************************************************************************)
(* The picture: one node for each thing however many edges lead to it.     *)
(***************************************************************************)
Paper(k) == <<k, NoWork, 0>>
\* a work that is held is drawn as an entry of the list all the same.
ByEntry(c, f) == IF c.work # NoWork THEN <<NoWork, c.work, 0>>
                 ELSE IF c.key # NoWork THEN Paper(c.key) ELSE <<f, NoWork, c.at>>

Node(c, f) == IF c.key # NoWork THEN Paper(c.key)
              ELSE IF c.work # NoWork THEN <<NoWork, c.work, 0>> ELSE <<f, NoWork, c.at>>

Draw(f, titled) ==
  LET structural == {[from |-> Paper(f), to |-> Paper(got.structural[n].key), kind |-> got.structural[n].kind]
                       : n \in DOMAIN got.structural}
      similar == {[from |-> Paper(f), to |-> Paper(k), kind |-> "similar"] : k \in Range(got.similar) \cap titled}
      out == [n \in DOMAIN got.cites |-> [from |-> Paper(f), to |-> Node(got.cites[n], f), kind |-> "cites"]]
      in == [n \in DOMAIN got.citedBy |-> [from |-> Node(got.citedBy[n], f), to |-> Paper(f), kind |-> "cites"]]
      both == out \o in
      cites == {e \in Range(SubSeq(both, 1, Min({Len(both), 2 * Limit}))) : e.from # e.to}
      edges == structural \cup similar \cup cites
  IN [nodes |-> {Paper(f)} \cup {e.to : e \in edges} \cup {e.from : e \in cites}, edges |-> edges]

Questions == {"item", "structural", "similar", "names", "cites", "citedBy"}
NoPicture == [nodes |-> {}, edges |-> {}]

RelatedInit ==
  /\ binned = {} /\ gone = {} /\ edits = 0 /\ touched = {}
  /\ focus \in Keys
  /\ got = [asked |-> Questions, structural |-> <<>>, similar |-> <<>>, cites |-> <<>>, citedBy |-> <<>>]
  /\ picture = NoPicture

\* The vectors know papers by row, and those have to have a key still.
Ask(q, memory) ==
  /\ q \in got.asked /\ (q = "names" => "similar" \notin got.asked)
  /\ q \in {"item", "structural"} => focus \in Held
  /\ LET here == focus \in Held IN
     got' = [got EXCEPT !.asked = @ \ {q},
               !.structural = IF q = "structural" THEN Structural(focus) ELSE @,
               !.similar = IF q = "similar" /\ here THEN Nearest(focus, memory)
                           ELSE IF q = "names" THEN SelectSeq(@, LAMBDA k : k \in Held) ELSE @,
               !.cites = IF q = "cites" /\ here THEN Cites(focus) ELSE @,
               !.citedBy = IF q = "citedBy" /\ here THEN CitedBy(focus) ELSE @]
  /\ UNCHANGED <<binned, gone, edits, touched, focus, picture>>

\* Once they are there, the titles of similar papers are a last read.  Without
\* the paper there is no picture.
Answer ==
  /\ got.asked = {} /\ picture = NoPicture
  /\ picture' = Draw(focus, Held)
  /\ UNCHANGED <<binned, gone, edits, touched, focus, got>>

Edit ==
  /\ edits < MaxEdits /\ edits' = edits + 1
  /\ \E k \in Held :
       /\ touched' = touched \cup {k}
       /\ \/ binned' = (binned \cup {k}) \ (binned \cap {k}) /\ gone' = gone
          \/ gone' = gone \cup {k} /\ binned' = binned \ {k}
  /\ UNCHANGED <<focus, got, picture>>

RelatedNext ==
  (\E q \in Questions, memory \in {Keys, Held} : Ask(q, memory)) \/ Answer \/ Edit

(***************************************************************************)
(* Properties.                                                             *)
(***************************************************************************)

\* A paper is drawn once however many reasons lead to it; one that was in the
\* bin meanwhile may be drawn as itself and as a work that is not held
\* (neighbourhood).
DrawnOnce ==
  \A k \in Keys \ touched :
    Papers[k].work # NoWork => ~({Paper(k), <<NoWork, Papers[k].work, 0>>} \subseteq picture.nodes)

\* What a shared tag or reference says, it says of both papers, unless a list
\* names one work twice (TAG_COUNT_SQL, COLLECTION_SQL, COUPLING_SQL).
Once(k) == IsInjective(SelectSeq(References(k), LAMBDA w : w # NoWork))
Mutual ==
  \A f, k \in Shown : f # k =>
    /\ TagWeight(f, k) = TagWeight(k, f)
    /\ AuthorWeight(f, k) = AuthorWeight(k, f)
    /\ ShelfWeight(f, k) = ShelfWeight(k, f)
    /\ Once(f) /\ Once(k) => CouplingWeight(f, k) = CouplingWeight(k, f)
    /\ (\A c \in Held : Once(c)) => CocitationWeight(f, k) = CocitationWeight(k, f)

\* Papers are near for a reason that few others share: a tag or a reference
\* that more than the ceiling have draws no edge (common_tag_ceiling,
\* COMMON_REFERENCE_CEILING), and one work in common draws none.
CommonSaysNothing ==
  \A f, k \in Shown :
    /\ TagWeight(f, k) > 0 =>
         \E t \in Papers[f].tags \cap Papers[k].tags : Cardinality(TaggedWith(t)) <= TagCeiling
    /\ Once(k) /\ Enough(CouplingWeight(f, k), MinShared) =>
         Cardinality({w \in Range(References(f)) \cap Range(References(k)) :
                        w # NoWork /\ Cardinality(Citing(w)) <= WorkCeiling}) >= 2

RelatedRight == DrawnOnce /\ Mutual /\ CommonSaysNothing
=============================================================================
