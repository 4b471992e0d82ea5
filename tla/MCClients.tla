------------------------------- MODULE MCClients -------------------------------
(***************************************************************************)
(* The clients of one library together: editors that save with the version *)
(* they read, and a client that keeps a copy of the library, over the same *)
(* store.  Every step is a step of one of them, or of somebody else's      *)
(* request.                                                                *)
(*                                                                         *)
(* The runs have one editor and one copy of a library of two keys: enough  *)
(* for a parent and its child, and for a key that is deleted and created   *)
(* again; they say one of two things, which a collection tells apart.  And *)
(* the list of a page with its socket, checked on its own: two writes, a   *)
(* channel with room for one event, a connection that is lost and made     *)
(* again, and two requests of the user; and a document in a word           *)
(* processor, on its own too: two fields that cite two works, in two       *)
(* styles, one of them numbered, three edits, and a server and a pane that *)
(* start again twice.  A behaviour is of one part.                         *)
(***************************************************************************)
EXTENDS OptimisticEdit, DeltaSync, Sequences

clientVars == <<vars, draft, copy, watermark, request>>

ClientInit == EditInit /\ SyncInit

ClientNext ==
  \/ EditNext /\ UNCHANGED <<copy, watermark, request>>
  \/ (ReadHeader \/ ListChanged \/ Apply) /\ UNCHANGED draft

ClientSpec == ClientInit /\ [][ClientNext]_clientVars

-----------------------------------------------------------------------------

CONSTANTS
  MaxFeed, Capacity, MaxOpens, MaxAsks, \* EventFeed
  Works, Filed, Fields, Citations, Styles, Numeric, Default, MaxEdits, MaxRestarts \* Documents

\* A broadcast channel has room for an event (EventBus::new).
ASSUME FeedAssumption == Capacity \in Nat \ {0}

\* References sort by something, and "list" and "none" are no styles.
ASSUME DocumentsAssumption ==
  /\ IsFiniteSet(Works) /\ Filed \in [Works -> Nat] /\ Citations \subseteq Seq(Works)
  /\ Default \in Styles /\ Styles \cap {"none", "list"} = {}

VARIABLES
  part,
  feedVersion, unpublished, subscribed, queued, lagged, open, timer, seq, reads, more,
  loading, loadingMore, failed, shown, opens, asks, gap,
  document, cites, text, list, saved, library, session, pane, edits, restarts, chosen, fresh

feedVars == <<feedVersion, unpublished, subscribed, queued, lagged, open, timer, seq,
              reads, more, loading, loadingMore, failed, shown, opens, asks, gap>>

Feed == INSTANCE EventFeed WITH
  version <- feedVersion, MaxVersion <- MaxFeed

documentVars == <<document, cites, text, list, saved, library, session, pane, edits, restarts, chosen, fresh>>

Doc == INSTANCE Documents

\* Two works that sort the other way, alone and together, and a field pasted in.
FiledBackwards == [k \in {"a", "b"} |-> IF k = "a" THEN 2 ELSE 1]
FourCitations == {<<"a">>, <<"b">>, <<"a", "b">>, <<>>}

PagesInit == part \in {"clients", "page", "document"} /\ ClientInit /\ Feed!Init /\ Doc!Init

PagesNext ==
  /\ UNCHANGED part
  /\ \/ part = "clients" /\ ClientNext /\ UNCHANGED <<feedVars, documentVars>>
     \/ part = "page" /\ Feed!Next /\ UNCHANGED <<clientVars, documentVars>>
     \/ part = "document" /\ Doc!Next /\ UNCHANGED <<clientVars, feedVars>>

PagesSpec == PagesInit /\ [][PagesNext]_<<part, clientVars, feedVars, documentVars>>

\* What a page shows once nothing is under way is the library (EventFeed).
QuietPageIsCurrent == Feed!QuietPageIsCurrent

\* What a document shows once it was rendered is what it cites, in the style
\* its author chose, and its numbers are those of its bibliography (Documents).
DocumentsRight == Doc!DocumentsRight

\* No accepted save replaces what its editor did not see, but for tags and
\* collections renamed or deleted behind the version, and no citation that shows
\* something is blanked (OptimisticEdit, Documents).
NothingLost == [][SavesWhatWasSeen /\ Doc!NoneIsBlanked]_<<clientVars, documentVars>>
=============================================================================
