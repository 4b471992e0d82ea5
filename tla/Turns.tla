-------------------------------- MODULE Turns --------------------------------
(***************************************************************************)
(* Asking the assistant: the route that stores a question and starts a     *)
(* turn (crates/yk-server/src/routes/conversations.rs), the runs kept in   *)
(* memory (crates/yk-server/src/runs.rs), the loop between the model and   *)
(* its tools (crates/yk-agent/src/lib.rs) and the messages in the          *)
(* database (crates/yk-store/src/conversations.rs).                        *)
(*                                                                         *)
(* A question is numbered when it is stored; its number also stands for    *)
(* the request that asked it and for the task that answers it.  What is    *)
(* said is left out: a message has a role and, in a turn, a question.      *)
(***************************************************************************)
EXTENDS Naturals, Sequences

CONSTANTS
  Conversations,
  MaxAsks,      \* bound on questions, and on all that clients store
  MaxSteps,     \* the step budget of a turn (agent.max_steps)
  MaxCalls,     \* bound on the tool calls of one reply
  MaxStops      \* bound on stops of the server

ASSUME TurnsAssumption ==
  /\ MaxAsks \in Nat /\ MaxCalls \in Nat /\ MaxStops \in Nat
  /\ MaxSteps \in Nat \ {0} /\ Conversations # {}

Questions == 1 .. MaxAsks

VARIABLES
  life,       \* a conversation is new, live or gone: its random key never returns
  thread,     \* its messages
  asked,      \* questions so far
  home,       \* the conversation of each
  at,         \* where the request or the task of a question is
  steps,      \* requests made to the model
  calls,      \* tool calls of its last reply still to be made
  runs,       \* Runs: the last run of each conversation, or 0
  running,    \* runs that say they run (RunState.running)
  failed,     \* runs that ended in an error
  cancelled,  \* runs asked to stop (Cancel)
  agent,      \* a model is configured
  stops, notes,
  unsaved     \* history: answers that could not be stored

store == <<life, thread, asked, home, notes>>
memory == <<runs, running, failed, cancelled, agent>>
vars == <<store, at, steps, calls, memory, stops, unsaved>>

Message == [role : {"user", "assistant", "other"}, question : 0 .. MaxAsks]
Live(c) == life[c] = "live"

\* The turns that a task is working on, and of these those that loop.
Looping == {"checking", "asking", "calling"}
Active  == Looping \cup {"starting", "storing", "finishing"}

Goes(q, where) == at' = [at EXCEPT ![q] = where]
Says(c, role, q) == thread' = [thread EXCEPT ![c] = Append(@, [role |-> role, question |-> q])]
KeepTurns  == UNCHANGED <<at, steps, calls, memory, stops, unsaved>>
KeepMemory == UNCHANGED <<memory, stops, unsaved>>

-----------------------------------------------------------------------------
(***************************************************************************)
(* Conversations.                                                          *)
(***************************************************************************)

Create(c) ==
  /\ life[c] = "new" /\ life' = [life EXCEPT ![c] = "live"]
  /\ UNCHANGED <<thread, asked, home, notes>> /\ KeepTurns

\* remove: the messages go by cascade; a run in memory is left as it is.
Remove(c) ==
  /\ Live(c) /\ life' = [life EXCEPT ![c] = "gone"]
  /\ thread' = [thread EXCEPT ![c] = <<>>]
  /\ UNCHANGED <<asked, home, notes>> /\ KeepTurns

\* append: a message of any role, by a client or a plugin.
AppendMessage(c) ==
  /\ Live(c) /\ asked + notes < MaxAsks
  /\ notes' = notes + 1
  /\ Says(c, "other", 0)
  /\ UNCHANGED <<life, asked, home>> /\ KeepTurns

\* configure: the agent is built anew, or there is none any more.
Configure ==
  /\ agent' \in BOOLEAN
  /\ UNCHANGED <<store, at, steps, calls, runs, running, failed, cancelled, stops, unsaved>>

-----------------------------------------------------------------------------
(***************************************************************************)
(* ask, in its two steps: the question is stored before anything can be    *)
(* refused.                                                                *)
(***************************************************************************)

Ask(c) ==
  /\ Live(c) /\ asked + notes < MaxAsks
  /\ LET q == asked + 1 IN
     /\ asked' = q
     /\ home' = [home EXCEPT ![q] = c]
     /\ Says(c, "user", q)
     /\ Goes(q, "stored")
  /\ UNCHANGED <<life, notes, steps, calls>> /\ KeepMemory

\* Mutant of the next: another run of the conversation does not matter.
NeverBusy(c) == FALSE

\* Runs::start refuses while the conversation's run says it runs.
Busy(c) == runs[c] # 0 /\ runs[c] \in running

StartTurn(q) ==
  /\ at[q] = "stored"
  /\ agent /\ ~Busy(home[q])
  /\ runs' = [runs EXCEPT ![home[q]] = q]
  /\ running' = running \cup {q}
  /\ Goes(q, "starting")
  /\ UNCHANGED <<store, steps, calls, failed, cancelled, agent, stops, unsaved>>

\* No model, or already answering, or the client has hung up in between.
RefuseTurn(q) ==
  /\ at[q] = "stored"
  /\ Goes(q, "refused")
  /\ UNCHANGED <<store, steps, calls>> /\ KeepMemory

-----------------------------------------------------------------------------
(***************************************************************************)
(* run_turn and Agent::run_with.                                           *)
(***************************************************************************)

\* Mutant of the next: the run is finished, and its answer not stored.
Unstored == "finishing"

AfterLoop == "storing"

\* The loop ends, whatever ended it; its counters go with it.
Leaves(q, where) ==
  /\ Goes(q, where)
  /\ steps' = [steps EXCEPT ![q] = 0] /\ calls' = [calls EXCEPT ![q] = 0]

\* The agent was taken away since ask looked: the task ends, its run does not.
Vanish(q) ==
  /\ at[q] = "starting" /\ ~agent
  /\ Goes(q, "vanished")
  /\ UNCHANGED <<store, steps, calls>> /\ KeepMemory

\* The thread is read, and the tools are discovered.
ReadThread(q) ==
  /\ at[q] = "starting" /\ agent /\ Live(home[q])
  /\ Goes(q, "checking")
  /\ UNCHANGED <<store, steps, calls>> /\ KeepMemory

\* Run::fail: the conversation is gone, the tools cannot be discovered, or the
\* model does not answer.  It leaves what had arrived.
Fail(q) ==
  /\ at[q] \in {"starting", "asking"}
  /\ at[q] = "starting" => agent
  /\ running' = running \ {q}
  /\ failed' = failed \cup {q}
  /\ cancelled' = cancelled \ {q}
  /\ Leaves(q, "ended")
  /\ UNCHANGED <<store, runs, agent, stops, unsaved>>

\* Mutant of the next: steps are not counted.
Uncounted(n) == n

Counted(n) == n + 1

\* Mutant of the next: one step more.
SpentLate(q) == steps[q] > MaxSteps

Spent(q) == steps[q] = MaxSteps

\* The top of the loop: the turn is cut short, out of steps or stopped, or
\* the model is asked.
AskModel(q) ==
  /\ at[q] = "checking"
  /\ IF Spent(q) \/ q \in cancelled
     THEN Leaves(q, AfterLoop)
     ELSE /\ Goes(q, "asking")
          /\ steps' = [steps EXCEPT ![q] = Counted(@)] /\ UNCHANGED calls
  /\ UNCHANGED store /\ KeepMemory

\* The reply is complete: without tool calls it is the answer.
Reply(q) ==
  /\ at[q] = "asking"
  /\ \/ Leaves(q, AfterLoop)
     \/ \E n \in 1 .. MaxCalls :
          /\ calls' = [calls EXCEPT ![q] = n]
          /\ Goes(q, "calling") /\ UNCHANGED steps
  /\ UNCHANGED store /\ KeepMemory

\* One tool call, which may fail without ending the turn, and the step that
\* records it; none after the turn was stopped.
CallTool(q) ==
  /\ at[q] = "calling" /\ calls[q] > 0
  /\ IF q \in cancelled
     THEN Leaves(q, AfterLoop)
     ELSE calls' = [calls EXCEPT ![q] = @ - 1] /\ UNCHANGED <<at, steps>>
  /\ UNCHANGED store /\ KeepMemory

AllCalled(q) ==
  /\ at[q] = "calling" /\ calls[q] = 0
  /\ Goes(q, "checking")
  /\ UNCHANGED <<store, steps, calls>> /\ KeepMemory

\* The answer is stored, unless its conversation is gone or the write fails;
\* either way the run goes on to finish.
StoreAnswer(q) ==
  /\ at[q] = "storing"
  /\ \/ Live(home[q]) /\ Says(home[q], "assistant", q) /\ UNCHANGED unsaved
     \/ unsaved' = unsaved \cup {q} /\ UNCHANGED thread
  /\ Goes(q, "finishing")
  /\ UNCHANGED <<life, asked, home, notes, steps, calls, memory, stops>>

\* Run::finish.
Finish(q) ==
  /\ at[q] = "finishing"
  /\ running' = running \ {q} /\ cancelled' = cancelled \ {q}
  /\ Goes(q, "forgetting")
  /\ UNCHANGED <<store, steps, calls, runs, failed, agent, stops, unsaved>>

\* Mutant of the next: only the run that ends is kept.
KeptOwn(c, q) == c = home[q]

\* Runs::forget_finished, which drops the finished runs of other conversations.
Kept(c, q) == c = home[q] \/ runs[c] \in running

ForgetFinished(q) ==
  /\ at[q] = "forgetting"
  /\ runs' = [c \in Conversations |-> IF Kept(c, q) THEN runs[c] ELSE 0]
  /\ Goes(q, "ended")
  /\ UNCHANGED <<store, steps, calls, running, failed, cancelled, agent, stops, unsaved>>

\* cancel_run; the flag of a run that has ended is read by nobody.
Cancel(c) ==
  /\ Busy(c)
  /\ cancelled' = cancelled \cup {runs[c]}
  /\ UNCHANGED <<store, at, steps, calls, runs, running, failed, agent, stops, unsaved>>

\* The server stops: what is in memory goes, tasks and requests with it.
Restart ==
  /\ stops < MaxStops
  /\ stops' = stops + 1
  /\ at' = [q \in Questions |-> IF at[q] \in {"unasked", "refused"} THEN at[q] ELSE "ended"]
  /\ running' = {} /\ failed' = {} /\ cancelled' = {}
  /\ runs' = [c \in Conversations |-> 0]
  /\ steps' = [q \in Questions |-> 0] /\ calls' = [q \in Questions |-> 0]
  /\ UNCHANGED <<store, agent, unsaved>>
-----------------------------------------------------------------------------
Init ==
  /\ life = [c \in Conversations |-> "new"]
  /\ thread = [c \in Conversations |-> <<>>]
  /\ asked = 0 /\ notes = 0 /\ stops = 0
  /\ home = [q \in Questions |-> CHOOSE c \in Conversations : TRUE]
  /\ at = [q \in Questions |-> "unasked"]
  /\ steps = [q \in Questions |-> 0] /\ calls = [q \in Questions |-> 0]
  /\ runs = [c \in Conversations |-> 0]
  /\ running = {} /\ failed = {} /\ cancelled = {} /\ unsaved = {}
  /\ agent = TRUE

Task(q) ==
  \/ Vanish(q) \/ ReadThread(q) \/ Fail(q) \/ AskModel(q) \/ Reply(q)
  \/ CallTool(q) \/ AllCalled(q) \/ StoreAnswer(q) \/ Finish(q) \/ ForgetFinished(q)

Next ==
  \/ \E c \in Conversations :
       Create(c) \/ Remove(c) \/ AppendMessage(c) \/ Ask(c) \/ Cancel(c)
  \/ \E q \in Questions : StartTurn(q) \/ RefuseTurn(q) \/ Task(q)
  \/ Configure \/ Restart

Spec == Init /\ [][Next]_vars

-----------------------------------------------------------------------------
\* Every variable has its type; a turn that is worked on has a home that is not
\* new, and takes no more steps than its budget (Agent::run_with).
TypeOK ==
  /\ life \in [Conversations -> {"new", "live", "gone"}]
  /\ thread \in [Conversations -> Seq(Message)]
  /\ asked \in 0 .. MaxAsks /\ notes \in 0 .. MaxAsks /\ stops \in 0 .. MaxStops
  /\ home \in [Questions -> Conversations]
  /\ at \in [Questions -> {"unasked", "stored", "refused", "vanished", "forgetting",
                           "ended"} \cup Active]
  /\ steps \in [Questions -> 0 .. MaxSteps] /\ calls \in [Questions -> 0 .. MaxCalls]
  /\ runs \in [Conversations -> 0 .. MaxAsks]
  /\ running \subseteq Questions /\ failed \subseteq Questions
  /\ cancelled \subseteq Questions /\ unsaved \subseteq Questions
  /\ agent \in BOOLEAN

\* "Two turns in one conversation would interleave their tool calls": the turn
\* that is worked on is the run of its conversation, and says it runs, so
\* that a second one is refused, whatever other conversations finish
\* (Runs::start, forget_finished).
OneTurnAtATime ==
  \A q \in Questions : at[q] \in Active => runs[home[q]] = q /\ q \in running

\* "Stored before the run is marked finished": a client that sees a run end
\* without an error finds its answer in the thread, unless the conversation
\* is gone or the write failed (run_turn).
AnswerIsThere ==
  \A c \in Conversations :
    runs[c] \in Questions \ (running \cup failed \cup unsaved) /\ Live(c) =>
      \E i \in 1 .. Len(thread[c]) :
        thread[c][i] = [role |-> "assistant", question |-> runs[c]]

\* A run that says it runs ends, unless the agent was taken away under it
\* (run_turn): the conversation can be asked again.
TurnsEnd ==
  \A q \in Questions : q \in running ~> (q \notin running \/ at[q] = "vanished")

\* What a conversation is answering, seen from outside.
Answering ==
  [c \in Conversations |->
     IF runs[c] \in running /\ at[runs[c]] # "finishing" THEN runs[c] ELSE 0]

C == INSTANCE Conversation WITH busy <- Answering

\* Every step is a step of Conversation, or none.
ConversationKept == C!ThreadSpec
=============================================================================
