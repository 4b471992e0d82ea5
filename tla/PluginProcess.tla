----------------------------- MODULE PluginProcess -----------------------------
(***************************************************************************)
(* One plugin in a process of its own (crates/yk-plugin/src/process.rs):   *)
(* callers number their requests, leave a waiter under the number, and     *)
(* write a line that the child reads; a reader gives what the child        *)
(* answers to the waiter of its number.  The child may answer late, twice, *)
(* out of order or under a number it made up, and may die at any time.     *)
(*                                                                         *)
(* A caller makes one call.  What stop() does is the call of Stopper and   *)
(* the kill that follows.                                                  *)
(***************************************************************************)
EXTENDS Naturals, Sequences, FiniteSets

CONSTANTS
  Callers,
  Stopper,     \* the caller that stops the plugin
  MaxLines     \* bound on the lines in the pipe from the child

Nobody == "nobody"

ASSUME CallersAssumption == IsFiniteSet(Callers) /\ Nobody \notin Callers

Ids == 1 .. Cardinality(Callers)
Exited == [by |-> "reader", to |-> Nobody]

VARIABLES
  nextId,    \* next_id
  pending,   \* the waiter of each number
  outbox,    \* the lines not yet written: <<number, caller>>
  writer,    \* the writer task has not met an error
  seen,      \* requests that the child has read
  pipe,      \* lines of the child that the reader has not read
  child,     \* it runs
  up,        \* the flag alive
  reader,    \* it reads, has seen the end of the pipe, or has drained
  at,        \* where each caller is
  id,        \* its number
  mail,      \* what was sent to it: who sent it, and to whom the child meant it
  late       \* history: callers that left a waiter after the drain

vars == <<nextId, pending, outbox, writer, seen, pipe, child, up, reader,
          at, id, mail, late>>

Line == Ids \X Callers
NoMail == [by |-> Nobody, to |-> Nobody]
Goes(c, w) == at' = [at EXCEPT ![c] = w]
KeepChild == UNCHANGED <<writer, seen, pipe, child, up, reader>>

\* A waiter that is dropped, not answered, wakes its caller too.
Send(c, m) == mail' = [mail EXCEPT ![c] = m]

-----------------------------------------------------------------------------
(***************************************************************************)
(* call.                                                                   *)
(***************************************************************************)

CheckAlive(c) ==
  /\ at[c] = "idle"
  /\ IF up THEN Goes(c, "checked")
     ELSE Goes(c, IF c = Stopper THEN "killing" ELSE "returned")
  /\ UNCHANGED <<nextId, pending, outbox, id, mail, late>> /\ KeepChild

\* Mutant of the next: load and store instead of fetch_add, both see one.
Reused(n) == IF n = 2 THEN 2 ELSE n + 1

Advanced(n) == n + 1

Insert(c) ==
  /\ at[c] = "checked"
  /\ id' = [id EXCEPT ![c] = nextId]
  /\ nextId' = Advanced(nextId)
  /\ pending' = [pending EXCEPT ![nextId] = c]
  /\ late' = IF reader = "drained" THEN late \cup {c} ELSE late
  /\ Goes(c, "inserted")
  /\ UNCHANGED <<outbox, mail>> /\ KeepChild

\* The line is handed to the writer, unless that has given up.
Post(c) ==
  /\ at[c] = "inserted"
  /\ IF writer
     THEN /\ outbox' = Append(outbox, <<id[c], c>>)
          /\ Goes(c, "waiting") /\ UNCHANGED pending
     ELSE /\ pending' = [pending EXCEPT ![id[c]] = Nobody]
          /\ Goes(c, IF c = Stopper THEN "killing" ELSE "returned")
          /\ UNCHANGED outbox
  /\ UNCHANGED <<nextId, id, mail, late>> /\ KeepChild

Return(c) ==
  /\ at[c] = "waiting" /\ mail[c] # NoMail
  /\ Goes(c, IF c = Stopper THEN "killing" ELSE "returned")
  /\ UNCHANGED <<nextId, pending, outbox, id, mail, late>> /\ KeepChild

\* Mutant of the next: the waiter stays behind.
LeftBehind(c) == pending

Withdrawn(c) == [pending EXCEPT ![id[c]] = Nobody]

TimeOut(c) ==
  /\ at[c] = "waiting" /\ mail[c] = NoMail
  /\ pending' = Withdrawn(c)
  /\ Goes(c, IF c = Stopper THEN "killing" ELSE "returned")
  /\ UNCHANGED <<nextId, outbox, id, mail, late>> /\ KeepChild

\* The request the call was made for is dropped, with its client.
Abandon(c) ==
  /\ c # Stopper /\ at[c] = "waiting"
  /\ Goes(c, "abandoned")
  /\ UNCHANGED <<nextId, pending, outbox, id, mail, late>> /\ KeepChild

\* The end of stop(): the flag, and the kill.
Kill ==
  /\ at[Stopper] = "killing"
  /\ up' = FALSE /\ child' = FALSE
  /\ Goes(Stopper, "returned")
  /\ UNCHANGED <<nextId, pending, outbox, writer, seen, pipe, reader, id, mail, late>>

-----------------------------------------------------------------------------
(***************************************************************************)
(* The tasks and the child.                                                *)
(***************************************************************************)

\* The writer takes a line; writing to a child that is gone ends it.
WriteLine ==
  /\ writer /\ outbox # <<>>
  /\ outbox' = Tail(outbox)
  /\ IF child THEN seen' = seen \cup {Head(outbox)} /\ UNCHANGED writer
     ELSE writer' = FALSE /\ UNCHANGED seen
  /\ UNCHANGED <<nextId, pending, pipe, child, up, reader, at, id, mail, late>>

\* The child answers what it has read, again perhaps, or makes a number up.
Answer ==
  /\ child /\ Len(pipe) < MaxLines
  /\ \/ \E l \in seen : pipe' = Append(pipe, l)
     \/ \E i \in Ids : pipe' = Append(pipe, <<i, Nobody>>)
  /\ UNCHANGED <<nextId, pending, outbox, writer, seen, child, up, reader,
                 at, id, mail, late>>

Exit ==
  /\ child /\ child' = FALSE
  /\ UNCHANGED <<nextId, pending, outbox, writer, seen, pipe, up, reader,
                 at, id, mail, late>>

ReadLine ==
  /\ reader = "reading" /\ pipe # <<>>
  /\ pipe' = Tail(pipe)
  /\ LET i == Head(pipe)[1] IN
     IF pending[i] = Nobody THEN UNCHANGED <<pending, mail>>
     ELSE /\ Send(pending[i], [by |-> "child", to |-> Head(pipe)[2]])
          /\ pending' = [pending EXCEPT ![i] = Nobody]
  /\ UNCHANGED <<nextId, outbox, writer, seen, child, up, reader, at, id, late>>

SeeEnd ==
  /\ reader = "reading" /\ pipe = <<>> /\ ~child
  /\ reader' = "closed" /\ up' = FALSE
  /\ UNCHANGED <<nextId, pending, outbox, writer, seen, pipe, child, at, id, mail, late>>

\* Mutant of the next: the reader ends, and its waiters wait.
FailedNone == mail

\* Every waiter fails instead of hanging.
Failed == [c \in Callers |->
             IF \E i \in Ids : pending[i] = c THEN Exited ELSE mail[c]]

Drain ==
  /\ reader = "closed" /\ reader' = "drained"
  /\ mail' = Failed
  /\ pending' = [i \in Ids |-> Nobody]
  /\ UNCHANGED <<nextId, outbox, writer, seen, pipe, child, up, at, id, late>>
-----------------------------------------------------------------------------
Init ==
  /\ nextId = 1
  /\ pending = [i \in Ids |-> Nobody]
  /\ outbox = <<>> /\ writer = TRUE /\ seen = {} /\ pipe = <<>>
  /\ child = TRUE /\ up = TRUE /\ reader = "reading"
  /\ at = [c \in Callers |-> "idle"]
  /\ id = [c \in Callers |-> 0]
  /\ mail = [c \in Callers |-> NoMail] /\ late = {}

\* What a caller does once it has begun.
Continue(c) == Insert(c) \/ Post(c) \/ Return(c) \/ TimeOut(c) \/ (c = Stopper /\ Kill)

Next ==
  \/ \E c \in Callers : CheckAlive(c) \/ Continue(c) \/ Abandon(c)
  \/ WriteLine \/ Answer \/ Exit \/ ReadLine \/ SeeEnd \/ Drain

Spec == Init /\ [][Next]_vars

-----------------------------------------------------------------------------
\* The types; and a number is some caller's before it is anything else.
TypeOK ==
  /\ nextId \in 1 .. Cardinality(Callers) + 1
  /\ pending \in [Ids -> Callers \cup {Nobody}]
  /\ outbox \in Seq(Line) /\ seen \subseteq Line
  /\ pipe \in Seq(Ids \X (Callers \cup {Nobody})) /\ Len(pipe) <= MaxLines
  /\ writer \in BOOLEAN /\ child \in BOOLEAN /\ up \in BOOLEAN
  /\ reader \in {"reading", "closed", "drained"}
  /\ at \in [Callers -> {"idle", "checked", "inserted", "waiting", "killing",
                            "abandoned", "returned"}]
  /\ id \in [Callers -> 0 .. Cardinality(Callers)]
  /\ mail \in [Callers -> [by : {"child", "reader", Nobody}, to : Callers \cup {Nobody}]]
  /\ late \subseteq Callers

\* A caller is never handed what the child answered to another (call, the
\* reader): numbers are not given twice.
AnswerIsMine ==
  \A c \in Callers : mail[c].to \in {c, Nobody}

\* "Fail every waiter instead of hanging": when the pipe has ended nobody is
\* left without an answer but who left a waiter after the drain, having found
\* the plugin alive before (call, the reader).
Woken ==
  reader = "drained" =>
    \A c \in Callers : at[c] = "waiting" => mail[c] # NoMail \/ c \in late

\* A waiter left in the table belongs to a call that still runs, or that was
\* dropped with its client and is not answered yet (call).
NothingLeft ==
  \A i \in Ids : pending[i] # Nobody =>
    at[pending[i]] \in {"inserted", "waiting", "abandoned"} /\ id[pending[i]] = i

\* Nobody hangs, and nothing is left of a call that ended (call, the reader).
NoneHangs == Woken /\ NothingLeft
=============================================================================
