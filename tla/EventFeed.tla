------------------------------ MODULE EventFeed ------------------------------
(***************************************************************************)
(* How a page follows the library: writes are published after they commit  *)
(* (crates/yk-core/src/event.rs), a socket passes the events on or says    *)
(* that some were missed (stream_events in routes/system.rs), and the page *)
(* reads its list again, soon and not at once (web/src/state/events.ts,    *)
(* refresh and loadMore in web/src/state/store.ts).                        *)
(***************************************************************************)
EXTENDS Integers, FiniteSets

CONSTANTS
  MaxVersion,  \* bound on the library version
  Capacity,    \* of the broadcast channel
  MaxOpens,    \* bound on connections
  MaxAsks      \* bound on what the user asks of the list

VARIABLES
  version,     \* of the library
  unpublished, \* writes that have committed and not been published
  subscribed,  \* the server's half of the socket receives events
  queued,      \* how many it has to pass on
  lagged,      \* some were dropped
  open,        \* the page's half of the socket is open
  timer,       \* the page is about to read again
  seq,         \* requestSeq
  reads,       \* requests for the list, and the version they saw, 0 before
  more,        \* the same of a request for the next page
  loading, loadingMore, failed,
  shown,       \* the versions that the rows on the page are of
  opens, asks,
  gap          \* history: something was published between the halves' openings

socket == <<subscribed, queued, lagged, open, opens>>
list == <<seq, reads, more, loading, loadingMore, failed, shown>>
vars == <<version, unpublished, socket, timer, list, asks, gap>>

Request == [seq : Nat, seen : Nat]

-----------------------------------------------------------------------------
(***************************************************************************)
(* The server.                                                             *)
(***************************************************************************)

Commit ==
  /\ version < MaxVersion
  /\ version' = version + 1 /\ unpublished' = unpublished \cup {version + 1}
  /\ UNCHANGED <<socket, timer, list, asks, gap>>

\* Writers are not held up by each other, nor by who listens.
Publish(v) ==
  /\ v \in unpublished /\ unpublished' = unpublished \ {v}
  /\ IF subscribed
     THEN /\ queued' = IF queued = Capacity THEN Capacity ELSE queued + 1
          /\ lagged' = (lagged \/ queued = Capacity) /\ UNCHANGED gap
     ELSE gap' = (gap \/ open) /\ UNCHANGED <<queued, lagged>>
  /\ UNCHANGED <<version, subscribed, open, opens, timer, list, asks>>

Subscribe ==
  /\ open /\ ~subscribed
  /\ subscribed' = TRUE /\ queued' = 0 /\ lagged' = FALSE
  /\ UNCHANGED <<version, unpublished, open, opens, timer, list, asks, gap>>

-----------------------------------------------------------------------------
(***************************************************************************)
(* The page: events only tell it to read again.                            *)
(***************************************************************************)

Receive ==
  /\ open /\ subscribed /\ (lagged \/ queued > 0)
  /\ timer' = TRUE
  /\ IF lagged THEN lagged' = FALSE /\ UNCHANGED queued
     ELSE queued' = queued - 1 /\ UNCHANGED lagged
  /\ UNCHANGED <<version, unpublished, subscribed, open, opens, list, asks, gap>>

\* Before the server has begun to listen for it.
Connect ==
  /\ ~open /\ opens < MaxOpens /\ opens' = opens + 1
  /\ open' = TRUE /\ timer' = TRUE /\ gap' = FALSE
  /\ UNCHANGED <<version, unpublished, subscribed, queued, lagged, list, asks>>

Disconnect ==
  /\ open /\ opens < MaxOpens
  /\ open' = FALSE /\ subscribed' = FALSE /\ queued' = 0 /\ lagged' = FALSE
  /\ UNCHANGED <<version, unpublished, opens, timer, list, asks, gap>>

Refresh ==
  /\ seq' = seq + 1
  /\ reads' = reads \cup {[seq |-> seq + 1, seen |-> 0]}
  /\ loading' = TRUE
  /\ UNCHANGED <<more, loadingMore, failed, shown>>

Fire ==
  /\ timer /\ timer' = FALSE /\ Refresh
  /\ UNCHANGED <<version, unpublished, socket, asks, gap>>

Ask ==
  /\ asks < MaxAsks /\ asks' = asks + 1
  /\ Refresh
  /\ UNCHANGED <<version, unpublished, socket, timer, gap>>

\* Of a list that has more than is shown, as any that is shown may.
LoadMore ==
  /\ ~loadingMore /\ ~loading /\ shown # {} /\ asks < MaxAsks /\ asks' = asks + 1
  /\ loadingMore' = TRUE
  /\ more' = more \cup {[seq |-> seq, seen |-> 0]}
  /\ UNCHANGED <<version, unpublished, socket, timer, seq, reads, loading, failed, shown, gap>>

\* The server answers.
See(r) ==
  /\ r.seen = 0
  /\ \/ r \in reads /\ reads' = (reads \ {r}) \cup {[r EXCEPT !.seen = version]}
        /\ UNCHANGED more
     \/ r \in more /\ more' = (more \ {r}) \cup {[r EXCEPT !.seen = version]}
        /\ UNCHANGED reads
  /\ UNCHANGED <<version, unpublished, socket, timer, seq, loading, loadingMore,
                 failed, shown, asks, gap>>

\* Mutant of the next: whatever comes is shown.
Anyway(r) == TRUE

\* Nothing was asked since.
Current(r) == r.seq = seq

Answered(r) ==
  /\ r \in reads /\ reads' = reads \ {r}
  /\ IF ~Current(r) THEN UNCHANGED <<shown, loading, failed>>
     ELSE /\ loading' = FALSE
          /\ \/ r.seen # 0 /\ shown' = {r.seen} /\ failed' = FALSE
             \/ failed' = TRUE /\ UNCHANGED shown
  /\ UNCHANGED <<version, unpublished, socket, timer, seq, more, loadingMore, asks, gap>>

MoreAnswered(r) ==
  /\ r \in more /\ more' = more \ {r}
  /\ IF ~Current(r) THEN UNCHANGED <<shown, loadingMore>>
     ELSE /\ loadingMore' = FALSE
          /\ \/ r.seen # 0 /\ shown' = shown \cup {r.seen}
             \/ UNCHANGED shown
  /\ UNCHANGED <<version, unpublished, socket, timer, seq, reads, loading, failed, asks, gap>>

\* Another view begins with its own list.
Navigate ==
  /\ asks < MaxAsks /\ asks' = asks + 1
  /\ loadingMore' = FALSE
  /\ seq' = seq + 1 /\ reads' = reads \cup {[seq |-> seq + 1, seen |-> 0]}
  /\ loading' = TRUE
  /\ UNCHANGED <<version, unpublished, socket, timer, more, failed, shown, gap>>

-----------------------------------------------------------------------------
Init ==
  /\ version = 1 /\ unpublished = {} /\ subscribed = FALSE /\ queued = 0 /\ lagged = FALSE
  /\ open = FALSE /\ timer = FALSE /\ seq = 0 /\ reads = {} /\ more = {}
  /\ loading = FALSE /\ loadingMore = FALSE /\ failed = FALSE /\ shown = {}
  /\ opens = 0 /\ asks = 0 /\ gap = FALSE

Next ==
  \/ Commit \/ Subscribe \/ Receive \/ Connect \/ Disconnect
  \/ Fire \/ Ask \/ LoadMore \/ Navigate
  \/ \E v \in unpublished : Publish(v)
  \/ \E r \in reads \cup more : See(r) \/ Answered(r) \/ MoreAnswered(r)

Spec == Init /\ [][Next]_vars

-----------------------------------------------------------------------------
Quiet ==
  /\ open /\ subscribed /\ unpublished = {} /\ queued = 0 /\ ~lagged
  /\ ~timer /\ reads = {} /\ more = {} /\ ~failed

\* "A slow client misses events": and yet, when nothing is under way any more
\* and the last read did not fail, every row is of the library as it is,
\* whatever was dropped, published late or answered out of turn, if nothing was
\* published while only the page's half of the socket was open.
QuietPageIsCurrent ==
  Quiet /\ ~gap => shown = {version}

\* "Initial HTTP reads may finish before the WebSocket subscribes too": the
\* same, whatever was published (watchEvents).
NothingSlipsThrough ==
  Quiet => shown = {version}

\* "A page that arrives after the view has changed is dropped": and the next
\* can still be asked for (loadMore).
MoreCanLoad == loadingMore => \E r \in more : Current(r)
=============================================================================
