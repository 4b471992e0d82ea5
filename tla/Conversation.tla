----------------------------- MODULE Conversation -----------------------------
(***************************************************************************)
(* What a conversation promises, whatever runs behind it.  Questions are   *)
(* put in threads; at most one question of a thread is being answered;     *)
(* an answer ends it, or it is given up.  Turns implements this.           *)
(***************************************************************************)
EXTENDS Naturals, Sequences

CONSTANTS Conversations, Questions   \* questions are numbered from 1

VARIABLES
  thread,   \* the messages of each conversation, in order
  busy      \* the question that each conversation is answering, or 0

threadVars == <<thread, busy>>

Message == [role : {"user", "assistant", "other"}, question : Questions \cup {0}]

Says(c, role, q) == thread' = [thread EXCEPT ![c] = Append(@, [role |-> role, question |-> q])]

\* The messages of a role that belong to a question, by place.
Places(c, role, q) ==
  {i \in 1 .. Len(thread[c]) : thread[c][i] = [role |-> role, question |-> q]}

ThreadInit ==
  /\ thread = [c \in Conversations |-> <<>>]
  /\ busy = [c \in Conversations |-> 0]

\* A question is stored, once, in one thread.
Put(c, q) ==
  /\ \A d \in Conversations : Places(d, "user", q) = {}
  /\ Says(c, "user", q) /\ UNCHANGED busy

\* A message that is neither question nor answer of a turn.
Note(c) == Says(c, "other", 0) /\ UNCHANGED busy

\* An idle conversation begins on a question that was never answered.
Begin(c, q) ==
  /\ busy[c] = 0 /\ Places(c, "assistant", q) = {}
  /\ busy' = [busy EXCEPT ![c] = q] /\ UNCHANGED thread

Answer(c) ==
  /\ busy[c] # 0
  /\ Says(c, "assistant", busy[c])
  /\ busy' = [busy EXCEPT ![c] = 0]

\* Questions are given up: one that failed, all of them when the server stops.
GiveUp(C) ==
  /\ busy' = [c \in Conversations |-> IF c \in C THEN 0 ELSE busy[c]]
  /\ UNCHANGED thread

Forget(c) ==
  /\ thread' = [thread EXCEPT ![c] = <<>>] /\ UNCHANGED busy

ThreadNext ==
  \/ \E c \in Conversations, q \in Questions : Put(c, q) \/ Begin(c, q)
  \/ \E c \in Conversations : Note(c) \/ Answer(c) \/ Forget(c)
  \/ \E C \in SUBSET Conversations : GiveUp(C)

ThreadSpec == ThreadInit /\ [][ThreadNext]_threadVars

-----------------------------------------------------------------------------
\* A question has one answer at most.
AnsweredOnce ==
  \A c \in Conversations, q \in Questions :
    \A i, j \in Places(c, "assistant", q) : i = j
=============================================================================
