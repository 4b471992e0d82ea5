------------------------------ MODULE DeltaSync ------------------------------
(***************************************************************************)
(* A client that keeps a copy of a library by GET items?since=v with the   *)
(* trash included (crates/yk-server/src/routes/items.rs list): the request *)
(* reads the library version for the Last-Modified-Version header, then    *)
(* lists the items changed after v; the client stores the header as its    *)
(* next v when the answer arrives.  Other requests run in between.         *)
(* What changed after v is taken to fit one page of the listing.           *)
(***************************************************************************)
EXTENDS LibraryStore

VARIABLES
  copy,       \* the client's items
  watermark,  \* its next since=
  request     \* the request in flight

syncVars == <<vars, copy, watermark, request>>

NoRequest == [at |-> "idle", header |-> 0, page |-> EmptyTable]

\* libraries.version, before anything is listed.
ReadHeader ==
  /\ request.at = "idle"
  /\ request' = [at |-> "header", header |-> version, page |-> EmptyTable]
  /\ UNCHANGED <<copy, watermark, vars>>

\* Predicate::build with since and TrashScope::Include.
ChangedSince(since) == {k \in Live : items[k].version > since}

\* items.list.
ListChanged ==
  /\ request.at = "header"
  /\ request' = [at |-> "listed", header |-> request.header,
                 page |-> [k \in ChangedSince(watermark) |-> items[k]]]
  /\ UNCHANGED <<copy, watermark, vars>>

\* The version the answer carries.
HeaderAtEnd == version          \* mutant of the next: read when answering
Header      == request.header

\* The client applies the answer.
Apply ==
  /\ request.at = "listed"
  /\ copy' = [k \in DOMAIN copy \cup DOMAIN request.page |->
                IF k \in DOMAIN request.page THEN request.page[k] ELSE copy[k]]
  /\ watermark' = Header
  /\ request' = NoRequest
  /\ UNCHANGED vars

SyncInit == Init /\ copy = EmptyTable /\ watermark = 0 /\ request = NoRequest

SyncNext ==
  \/ Next /\ UNCHANGED <<copy, watermark, request>>
  \/ ReadHeader
  \/ ListChanged
  \/ Apply

SyncSpec == SyncInit /\ [][SyncNext]_syncVars

-----------------------------------------------------------------------------
\* The client holds every item that has not been stamped since its watermark,
\* as it is but for renamed and deleted tags and collections: no write between
\* the header and the listing, and none between the listing and the answer, is
\* ever skipped by the next since=.
CopyHoldsUnchanged ==
  \A k \in Live :
    items[k].version <= watermark => k \in DOMAIN copy /\ Matches(k, copy[k])

\* "since=100 returns the objects with version > 100 and the deletions"
\* (docs/03-data-model.md): an answer nothing was written behind leaves the
\* client with no item that is gone.
CopyForgetsDeleted ==
  [][Apply /\ request.header = version => DOMAIN copy' \subseteq Live]_syncVars
=============================================================================
