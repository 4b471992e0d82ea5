---------------------------- MODULE Background_proofs ----------------------------
(***************************************************************************)
(* Proofs about Turns, for any number of conversations and questions and   *)
(* any budget of steps, with stops of the server at any time; and, at the  *)
(* end, about DownloadQueue, for any number of targets and fetches.        *)
(*                                                                         *)
(* What makes OneTurnAtATime inductive is where runs and questions are:    *)
(* the types of the variables that say so, and nothing else.  A second     *)
(* turn is refused because the first is the run that its conversation has, *)
(* and forgetting keeps that run because it says it runs.                  *)
(***************************************************************************)
EXTENDS MCBackground, FiniteSetTheorems, WellFoundedInduction, TLAPS

Stages == {"unasked", "stored", "refused", "vanished", "forgetting", "ended",
           "checking", "asking", "calling", "starting", "storing", "finishing"}

Placed ==
  /\ home \in [Questions -> Conversations]
  /\ at \in [Questions -> Stages]
  /\ runs \in [Conversations -> 0 .. MaxAsks]
  /\ running \subseteq Questions

TurnInv == Placed /\ OneTurnAtATime

\* The tasks of turns keep it: a turn that is worked on either goes on as the
\* same run, or leaves Active with its run.
LEMMA TaskStep == ASSUME TurnInv, NEW q \in Questions, Task(q) PROVE TurnInv'
<1> USE DEF TurnInv, Placed, Stages, OneTurnAtATime, Active, Looping, store, memory, KeepMemory,
            Goes, Leaves, AfterLoop
<1>1. CASE Vanish(q)
  BY <1>1 DEF Vanish
<1>2. CASE ReadThread(q)
  BY <1>2 DEF ReadThread
<1>3. CASE Fail(q)
  BY <1>3 DEF Fail
<1>4. CASE AskModel(q)
  BY <1>4 DEF AskModel
<1>5. CASE Reply(q)
  BY <1>5 DEF Reply
<1>6. CASE CallTool(q)
  BY <1>6 DEF CallTool
<1>7. CASE AllCalled(q)
  BY <1>7 DEF AllCalled
<1>8. CASE StoreAnswer(q)
  BY <1>8 DEF StoreAnswer
<1>9. CASE Finish(q)
  BY <1>9 DEF Finish
<1>10. CASE ForgetFinished(q)
  <2>1. ASSUME NEW r \in Questions, at'[r] \in Active PROVE r # q /\ Kept(home[r], q)
    BY <1>10, <2>1 DEF ForgetFinished, Kept
  <2>2. Placed'
    BY <1>10, TurnsAssumption DEF ForgetFinished
  <2> QED BY <1>10, <2>1, <2>2 DEF ForgetFinished
<1> QED BY <1>1, <1>2, <1>3, <1>4, <1>5, <1>6, <1>7, <1>8, <1>9, <1>10 DEF Task

\* Every step keeps it.
LEMMA TurnStep == ASSUME TurnInv, [Next]_vars PROVE TurnInv'
<1> USE DEF TurnInv, Placed, Stages, OneTurnAtATime, Active, Looping, store, memory, KeepMemory,
            KeepTurns, Goes
<1>1. ASSUME NEW c \in Conversations, Create(c) \/ Remove(c) \/ AppendMessage(c) \/ Cancel(c)
      PROVE  TurnInv'
  BY <1>1 DEF Create, Remove, AppendMessage, Cancel
<1>2. ASSUME NEW c \in Conversations, Ask(c) PROVE TurnInv'
  BY <1>2 DEF Ask
<1>3. ASSUME NEW q \in Questions, StartTurn(q) PROVE TurnInv'
  BY <1>3, TurnsAssumption DEF StartTurn, Busy, Questions
<1>4. ASSUME NEW q \in Questions, RefuseTurn(q) PROVE TurnInv'
  BY <1>4 DEF RefuseTurn
<1>5. ASSUME NEW q \in Questions, Task(q) PROVE TurnInv'
  BY <1>5, TaskStep
<1>6. CASE Configure
  BY <1>6 DEF Configure
<1>7. CASE Restart
  BY <1>7, TurnsAssumption DEF Restart
<1>8. CASE UNCHANGED vars
  BY <1>8 DEF vars
<1> QED BY <1>1, <1>2, <1>3, <1>4, <1>5, <1>6, <1>7, <1>8 DEF Next

\* And it holds when the server starts for the first time.
LEMMA InitPlaced == Init => TurnInv
<1> SUFFICES ASSUME Init PROVE TurnInv
  OBVIOUS
<1>1. (CHOOSE c \in Conversations : TRUE) \in Conversations
  BY TurnsAssumption
<1>2. home \in [Questions -> Conversations]
  BY <1>1 DEF Init
<1>3. runs \in [Conversations -> 0 .. MaxAsks] /\ running \subseteq Questions
  BY TurnsAssumption DEF Init
<1>4. at \in [Questions -> Stages] /\ \A q \in Questions : at[q] \notin Active
  BY DEF Init, Stages, Active, Looping
<1> QED BY <1>2, <1>3, <1>4 DEF TurnInv, Placed, OneTurnAtATime

\* However many conversations are asked, stopped, removed and finished at once,
\* a conversation has one turn that is worked on, and it is the one its run
\* shows (Runs::start, forget_finished).
THEOREM OneTurn == Spec => []OneTurnAtATime
<1>1. Init => TurnInv
  BY InitPlaced
<1>2. TurnInv /\ [Next]_vars => TurnInv'
  BY TurnStep
<1>3. TurnInv => OneTurnAtATime
  BY DEF TurnInv
<1> QED BY <1>1, <1>2, <1>3, PTL DEF Spec

(***************************************************************************)
(* AnswerIsThere needs the history of a run as well: a run belongs to the  *)
(* conversation that shows it, and once it is past storing its answer is   *)
(* in the thread, or is known to be lost.                                  *)
(***************************************************************************)

There(c, q) ==
  \E i \in 1 .. Len(thread[c]) : thread[c][i] = [role |-> "assistant", question |-> q]

Settled(q) == q \in unsaved \/ life[home[q]] = "gone" \/ There(home[q], q)

Asked ==
  /\ asked \in 0 .. MaxAsks /\ notes \in Nat
  /\ life \in [Conversations -> {"new", "live", "gone"}]
  /\ thread \in [Conversations -> Seq(Message)]
  /\ \A q \in Questions : q > asked => at[q] = "unasked"
  /\ \A q \in Questions : at[q] # "unasked" => life[home[q]] # "new"

RunsKnown ==
  /\ \A c \in Conversations : runs[c] \in Questions =>
       home[runs[c]] = c /\ at[runs[c]] \notin {"unasked", "stored", "refused"}
  /\ \A q \in Questions : at[q] = "vanished" => q \in running

AllSettled ==
  \A q \in Questions :
    /\ at[q] \in {"finishing", "forgetting"} => Settled(q)
    /\ at[q] = "ended" /\ runs[home[q]] = q => q \in failed \/ Settled(q)

AnswerInv == TurnInv /\ Asked /\ RunsKnown /\ AllSettled

\* What is said last is there, and so is what was there before.
LEMMA SaysAdds ==
  ASSUME thread \in [Conversations -> Seq(Message)], NEW c \in Conversations,
         NEW role \in {"user", "assistant", "other"}, NEW q \in 0 .. MaxAsks, Says(c, role, q)
  PROVE  /\ thread' \in [Conversations -> Seq(Message)]
         /\ role = "assistant" => There(c, q)'
         /\ \A d \in Conversations, r \in Questions : There(d, r) => There(d, r)'
<1> DEFINE m == [role |-> role, question |-> q]
<1>1. m \in Message /\ thread[c] \in Seq(Message)
  BY DEF Message
<1>2. /\ thread' = [thread EXCEPT ![c] = Append(thread[c], m)]
      /\ Append(thread[c], m) \in Seq(Message)
      /\ Len(Append(thread[c], m)) = Len(thread[c]) + 1
      /\ \A i \in 1 .. Len(thread[c]) : Append(thread[c], m)[i] = thread[c][i]
      /\ Append(thread[c], m)[Len(thread[c]) + 1] = m
  BY <1>1 DEF Says
<1>3. thread'[c] = Append(thread[c], m) /\ Len(thread[c]) \in Nat
  BY <1>1, <1>2
<1>4. role = "assistant" => There(c, q)'
  <2>1. Len(thread[c]) + 1 \in 1 .. Len(thread'[c])
    BY <1>2, <1>3
  <2> QED BY <2>1, <1>2, <1>3 DEF There
<1>5. ASSUME NEW d \in Conversations, NEW r \in Questions, There(d, r) PROVE There(d, r)'
  <2>1. PICK i \in 1 .. Len(thread[d]) :
          thread[d][i] = [role |-> "assistant", question |-> r]
    BY <1>5 DEF There
  <2>2. i \in 1 .. Len(thread'[d]) /\ thread'[d][i] = thread[d][i]
    <3>1. CASE d = c
      BY <3>1, <2>1, <1>2, <1>3
    <3>2. CASE d # c
      BY <3>2, <2>1, <1>2
    <3> QED BY <3>1, <3>2
  <2> QED BY <2>1, <2>2 DEF There
<1>6. thread' \in [Conversations -> Seq(Message)]
  BY <1>2
<1> QED BY <1>4, <1>5, <1>6

\* What a task may do that leaves the store alone: move its turn, on condition
\* that it is settled or failed when it has left the loop.
Moves(q, where) ==
  /\ Goes(q, where) /\ at[q] # "unasked"
  /\ UNCHANGED <<store, unsaved>>
  /\ failed \subseteq failed'
  /\ \A c \in Conversations : runs'[c] \in {0, runs[c]} \/ (runs'[c] = q /\ home[q] = c)
  /\ \A r \in running : r # q => r \in running'
  /\ where \in {"stored", "refused"} => \A c \in Conversations : runs'[c] # q
  /\ where = "vanished" => q \in running'
  /\ where \in {"finishing", "forgetting"} => Settled(q)
  /\ where = "ended" => q \in failed' \/ Settled(q)

LEMMA MoveKeeps ==
  ASSUME AnswerInv, TurnInv', NEW q \in Questions, NEW where \in Stages \ {"unasked"},
         Moves(q, where)
  PROVE  AnswerInv'
<1> USE DEF AnswerInv, TurnInv, Placed, Moves, Goes, store
<1>1. \A r \in Questions : Settled(r) => Settled(r)'
  BY DEF Settled, There
<1>2. at'[q] = where /\ \A r \in Questions \ {q} : at'[r] = at[r]
  OBVIOUS
<1>3. Asked'
  BY <1>2 DEF Asked
<1>4. RunsKnown'
  <2>1. ASSUME NEW c \in Conversations, runs'[c] \in Questions
        PROVE  home'[runs'[c]] = c /\ at'[runs'[c]] \notin {"unasked", "stored", "refused"}
    <3>1. CASE runs'[c] = q
      <4>1. q # 0 /\ home' = home
        BY TurnsAssumption DEF Questions
      <4>2. home[q] = c
        BY <3>1, <4>1, <2>1 DEF RunsKnown
      <4>3. where \notin {"unasked", "stored", "refused"}
        BY <3>1
      <4> QED BY <3>1, <4>1, <4>2, <4>3, <1>2
    <3>2. CASE runs'[c] # q /\ runs'[c] = runs[c]
      BY <3>2, <2>1, <1>2 DEF RunsKnown
    <3> QED BY <3>1, <3>2, <2>1, TurnsAssumption DEF Questions
  <2>2. \A r \in Questions : at'[r] = "vanished" => r \in running'
    BY <1>2 DEF RunsKnown
  <2> QED BY <2>1, <2>2 DEF RunsKnown
<1>5. AllSettled'
  <2> SUFFICES ASSUME NEW r \in Questions
      PROVE  /\ at'[r] \in {"finishing", "forgetting"} => Settled(r)'
             /\ at'[r] = "ended" /\ runs'[home[r]] = r => r \in failed' \/ Settled(r)'
    BY DEF AllSettled
  <2>1. CASE r = q
    BY <2>1, <1>1, <1>2
  <2>2. CASE r # q
    BY <2>2, <1>1, <1>2, TurnsAssumption DEF AllSettled, Questions
  <2> QED BY <2>1, <2>2
<1> QED BY <1>3, <1>4, <1>5

\* The tasks of turns keep it: storing settles a turn, failing is known.
LEMMA TaskSettles == ASSUME AnswerInv, NEW q \in Questions, Task(q) PROVE AnswerInv'
<1> USE DEF store, memory, KeepMemory, Leaves, AfterLoop
<1>0. TurnInv' /\ TurnInv
  BY TaskStep DEF AnswerInv
<1>1. CASE Vanish(q)
  <2>1. q \in running
    BY <1>1, <1>0 DEF Vanish, TurnInv, OneTurnAtATime, Active, Looping
  <2>2. Moves(q, "vanished")
    BY <1>1, <2>1 DEF Vanish, Moves
  <2> QED BY <1>0, <2>2, MoveKeeps DEF Stages
<1>2. CASE ReadThread(q)
  <2>1. Moves(q, "checking")
    BY <1>2 DEF ReadThread, Moves
  <2> QED BY <1>0, <2>1, MoveKeeps DEF Stages
<1>3. CASE Fail(q)
  <2>1. Moves(q, "ended")
    BY <1>3 DEF Fail, Moves
  <2> QED BY <1>0, <2>1, MoveKeeps DEF Stages
<1>4. CASE AskModel(q)
  <2>1. Moves(q, "storing") \/ Moves(q, "asking")
    BY <1>4 DEF AskModel, Moves
  <2> QED BY <1>0, <2>1, MoveKeeps DEF Stages
<1>5. CASE Reply(q)
  <2>1. Moves(q, "storing") \/ Moves(q, "calling")
    BY <1>5 DEF Reply, Moves
  <2> QED BY <1>0, <2>1, MoveKeeps DEF Stages
<1>6. CASE CallTool(q)
  <2>1. Moves(q, "storing") \/ Moves(q, "calling")
    BY <1>0, <1>6 DEF CallTool, Moves, Goes, TurnInv, Placed
  <2> QED BY <1>0, <2>1, MoveKeeps DEF Stages
<1>7. CASE AllCalled(q)
  <2>1. Moves(q, "checking")
    BY <1>7 DEF AllCalled, Moves
  <2> QED BY <1>0, <2>1, MoveKeeps DEF Stages
<1>8. CASE StoreAnswer(q)
  <2> USE <1>8 DEF StoreAnswer, Goes
  <2>1. at'[q] = "finishing" /\ \A r \in Questions \ {q} : at'[r] = at[r]
    BY <1>0 DEF TurnInv, Placed
  <2>2. /\ thread' \in [Conversations -> Seq(Message)]
        /\ \A d \in Conversations, r \in Questions : There(d, r) => There(d, r)'
        /\ q \in unsaved' \/ There(home[q], q)'
        /\ unsaved \subseteq unsaved'
    <3>1. CASE Says(home[q], "assistant", q) /\ UNCHANGED unsaved
      BY <3>1, <1>0, SaysAdds, TurnsAssumption
         DEF AnswerInv, Asked, TurnInv, Placed, Questions
    <3>2. CASE unsaved' = unsaved \cup {q} /\ UNCHANGED thread
      BY <3>2 DEF AnswerInv, Asked, There
    <3> QED BY <3>1, <3>2
  <2>3. \A r \in Questions : (Settled(r) => Settled(r)') /\ Settled(q)'
    BY <2>2, <1>0 DEF Settled, TurnInv, Placed
  <2>4. Asked' /\ RunsKnown'
    BY <2>1, <2>2 DEF AnswerInv, Asked, RunsKnown
  <2>5. AllSettled'
    BY <2>1, <2>3 DEF AnswerInv, AllSettled
  <2> QED BY <1>0, <2>4, <2>5 DEF AnswerInv
<1>9. CASE Finish(q)
  <2>1. Settled(q)
    BY <1>9 DEF Finish, AnswerInv, AllSettled
  <2>2. Moves(q, "forgetting")
    BY <1>9, <2>1 DEF Finish, Moves
  <2> QED BY <1>0, <2>2, MoveKeeps DEF Stages
<1>10. CASE ForgetFinished(q)
  <2>1. Settled(q)
    BY <1>10 DEF ForgetFinished, AnswerInv, AllSettled
  <2>2. Moves(q, "ended")
    BY <1>10, <2>1 DEF ForgetFinished, Moves
  <2> QED BY <1>0, <2>2, MoveKeeps DEF Stages
<1> QED BY <1>1, <1>2, <1>3, <1>4, <1>5, <1>6, <1>7, <1>8, <1>9, <1>10 DEF Task

\* A question has its number for the first time.
LEMMA AskIsNew ==
  ASSUME AnswerInv, NEW c \in Conversations, Ask(c)
  PROVE  asked + 1 \in Questions /\ at[asked + 1] = "unasked"
<1>1. asked + 1 \in Questions /\ asked + 1 > asked
  BY TurnsAssumption DEF Ask, AnswerInv, Asked, Questions
<1> QED BY <1>1 DEF AnswerInv, Asked

\* Every step keeps it.
LEMMA AnswerStep == ASSUME AnswerInv, [Next]_vars PROVE AnswerInv'
<1> USE DEF store, memory, KeepMemory, KeepTurns
<1>0. TurnInv' /\ TurnInv
  BY TurnStep DEF AnswerInv
<1>1. ASSUME NEW c \in Conversations, Create(c) PROVE AnswerInv'
  <2>1. /\ life' \in [Conversations -> {"new", "live", "gone"}]
        /\ \A d \in Conversations : /\ life[d] # "new" => life'[d] = life[d]
                                   /\ life'[d] = "new" => life[d] = "new"
    BY <1>1 DEF Create, AnswerInv, Asked
  <2>2. \A r \in Questions : Settled(r) => Settled(r)'
    BY <2>1, <1>0, <1>1 DEF Create, Settled, There, TurnInv, Placed
  <2> QED BY <1>0, <1>1, <2>1, <2>2
          DEF Create, AnswerInv, Asked, RunsKnown, AllSettled, TurnInv, Placed
<1>2. ASSUME NEW c \in Conversations, Remove(c) PROVE AnswerInv'
  <2>1. /\ life' \in [Conversations -> {"new", "live", "gone"}] /\ life'[c] = "gone"
        /\ thread' \in [Conversations -> Seq(Message)]
        /\ \A d \in Conversations \ {c} : life'[d] = life[d] /\ thread'[d] = thread[d]
    BY <1>2 DEF Remove, AnswerInv, Asked
  <2>2. \A r \in Questions : Settled(r) => Settled(r)'
    BY <2>1, <1>0, <1>2 DEF Remove, Settled, There, TurnInv, Placed
  <2> QED BY <1>0, <1>2, <2>1, <2>2
          DEF Remove, AnswerInv, Asked, RunsKnown, AllSettled, TurnInv, Placed
<1>3. ASSUME NEW c \in Conversations, AppendMessage(c) PROVE AnswerInv'
  <2>1. /\ thread' \in [Conversations -> Seq(Message)]
        /\ \A d \in Conversations, r \in Questions : There(d, r) => There(d, r)'
    BY <1>3, SaysAdds, TurnsAssumption DEF AppendMessage, AnswerInv, Asked
  <2>2. \A r \in Questions : Settled(r) => Settled(r)'
    BY <2>1, <1>0, <1>3 DEF AppendMessage, Settled, TurnInv, Placed
  <2> QED BY <1>0, <1>3, <2>1, <2>2 DEF AppendMessage, AnswerInv, Asked, RunsKnown, AllSettled
<1>4. ASSUME NEW c \in Conversations, Ask(c) PROVE AnswerInv'
  <2> DEFINE q == asked + 1
  <2>1. q \in Questions /\ at[q] = "unasked"
    BY <1>4, AskIsNew
  <2>2. /\ thread' \in [Conversations -> Seq(Message)]
        /\ \A d \in Conversations, r \in Questions : There(d, r) => There(d, r)'
    BY <1>4, <2>1, SaysAdds, TurnsAssumption DEF Ask, AnswerInv, Asked, Questions
  <2>3. /\ at'[q] = "stored" /\ home'[q] = c /\ life[c] = "live"
        /\ \A r \in Questions \ {q} : at'[r] = at[r] /\ home'[r] = home[r]
    BY <1>4, <1>0, <2>1 DEF Ask, Goes, Live, TurnInv, Placed
  <2>4. \A r \in Questions \ {q} : Settled(r) => Settled(r)'
    BY <2>2, <2>3, <1>0, <1>4 DEF Ask, Settled, TurnInv, Placed
  <2>5. Asked'
    <3>1. /\ asked' = q /\ notes' = notes /\ life' = life
          /\ asked \in 0 .. MaxAsks /\ notes \in Nat /\ q \in 0 .. MaxAsks
      BY <1>4, <2>1, TurnsAssumption DEF Ask, AnswerInv, Asked, Questions
    <3>2. \A r \in Questions : r > q => r # q /\ at[r] = "unasked"
      BY <3>1, TurnsAssumption DEF AnswerInv, Asked, Questions
    <3> QED BY ZenonT(30), <3>1, <3>2, <2>2, <2>3 DEF AnswerInv, Asked
  <2>6. RunsKnown'
    BY <1>4, <2>1, <2>3 DEF Ask, AnswerInv, RunsKnown
  <2>7. AllSettled'
    BY <1>4, <2>1, <2>3, <2>4 DEF Ask, AnswerInv, AllSettled
  <2> QED BY <1>0, <2>5, <2>6, <2>7 DEF AnswerInv
<1>5. ASSUME NEW c \in Conversations, Cancel(c) PROVE AnswerInv'
  BY <1>0, <1>5 DEF Cancel, AnswerInv, Asked, RunsKnown, AllSettled, Settled, There
<1>6. ASSUME NEW q \in Questions, StartTurn(q) PROVE AnswerInv'
  <2>1. \A c \in Conversations : runs'[c] = runs[c] \/ (runs'[c] = q /\ home[q] = c)
    <3>1. runs \in [Conversations -> 0 .. MaxAsks] /\ home[q] \in Conversations
      BY <1>0 DEF TurnInv, Placed
    <3> QED BY <1>6, <3>1 DEF StartTurn
  <2>2. Moves(q, "starting")
    BY <1>6, <2>1 DEF StartTurn, Moves
  <2> QED BY <1>0, <2>2, MoveKeeps DEF Stages
<1>7. ASSUME NEW q \in Questions, RefuseTurn(q) PROVE AnswerInv'
  <2>1. \A c \in Conversations : runs[c] # q
    BY <1>7 DEF RefuseTurn, AnswerInv, RunsKnown
  <2>2. Moves(q, "refused")
    BY <1>7, <2>1 DEF RefuseTurn, Moves
  <2> QED BY <1>0, <2>2, MoveKeeps DEF Stages
<1>8. ASSUME NEW q \in Questions, Task(q) PROVE AnswerInv'
  BY <1>8, TaskSettles
<1>9. CASE Configure
  BY <1>0, <1>9 DEF Configure, AnswerInv, Asked, RunsKnown, AllSettled, Settled, There
<1>10. CASE Restart
  <2>1. /\ \A q \in Questions : at'[q] \in {"unasked", "refused", "ended"}
        /\ \A q \in Questions : at'[q] = "unasked" <=> at[q] = "unasked"
        /\ \A c \in Conversations : runs'[c] = 0
    BY <1>10, <1>0 DEF Restart, TurnInv, Placed, Stages
  <2>2. Asked'
    BY <1>10, <2>1 DEF Restart, AnswerInv, Asked
  <2>3. RunsKnown' /\ AllSettled'
    <3>1. home' \in [Questions -> Conversations] /\ \A q \in Questions : q # 0
      BY <1>0, TurnsAssumption DEF TurnInv, Placed, Questions
    <3> QED BY <2>1, <3>1, <1>10, TurnsAssumption DEF RunsKnown, AllSettled, Questions
  <2> QED BY <1>0, <2>2, <2>3 DEF AnswerInv
<1>11. CASE UNCHANGED vars
  BY <1>0, <1>11 DEF vars, AnswerInv, Asked, RunsKnown, AllSettled, Settled, There
<1> QED BY <1>1, <1>2, <1>3, <1>4, <1>5, <1>6, <1>7, <1>8, <1>9, <1>10, <1>11 DEF Next

\* And it holds when the server starts for the first time.
LEMMA InitAnswered == Init => AnswerInv
<1> SUFFICES ASSUME Init PROVE AnswerInv
  OBVIOUS
<1>1. TurnInv
  BY InitPlaced
<1>2. Asked
  BY TurnsAssumption DEF Init, Asked
<1>3. RunsKnown
  <2>1. /\ \A c \in Conversations : runs[c] = 0
        /\ \A q \in Questions : at[q] = "unasked"
    BY DEF Init
  <2>2. 0 \notin Questions
    BY TurnsAssumption DEF Questions
  <2> QED BY <2>1, <2>2 DEF RunsKnown
<1>4. AllSettled
  BY DEF Init, AllSettled
<1> QED BY <1>1, <1>2, <1>3, <1>4 DEF AnswerInv

\* Whatever is cancelled, removed, restarted or unconfigured meanwhile, a run
\* that is seen to have ended well has its answer in the thread (run_turn).
THEOREM AnswersAreThere == Spec => []AnswerIsThere
<1>1. Init => AnswerInv
  BY InitAnswered
<1>2. AnswerInv /\ [Next]_vars => AnswerInv'
  BY AnswerStep
<1>3. AnswerInv => AnswerIsThere
  <2> SUFFICES ASSUME AnswerInv, NEW c \in Conversations, Live(c),
                      runs[c] \in Questions \ (running \cup failed \cup unsaved)
               PROVE  There(c, runs[c])
    BY DEF AnswerIsThere, There
  <2>1. home[runs[c]] = c /\ at[runs[c]] \in {"forgetting", "ended"}
    BY DEF AnswerInv, TurnInv, Placed, Stages, OneTurnAtATime, Active, Looping, RunsKnown
  <2>2. Settled(runs[c])
    BY <2>1 DEF AnswerInv, AllSettled
  <2> QED BY <2>1, <2>2 DEF Settled, Live
<1> QED BY <1>1, <1>2, <1>3, PTL DEF Spec

(***************************************************************************)
(* Turns implements Conversation: what matters besides the above is that   *)
(* nothing is said before its time.                                        *)
(***************************************************************************)

Has(c, role, q) ==
  \E i \in 1 .. Len(thread[c]) : thread[c][i] = [role |-> role, question |-> q]

Final == {"finishing", "forgetting", "ended"}

Unsaid ==
  \A c \in Conversations, q \in Questions :
    /\ at[q] \notin Final => ~Has(c, "assistant", q)
    /\ q > asked => ~Has(c, "user", q)

ThreadInv == AnswerInv /\ Unsaid

\* Nothing is in a thread that was not there or said now.
LEMMA SaysOnly ==
  ASSUME thread \in [Conversations -> Seq(Message)], NEW c \in Conversations,
         NEW said \in {"user", "assistant", "other"}, NEW q \in 0 .. MaxAsks, Says(c, said, q),
         NEW d \in Conversations, NEW role \in {"user", "assistant"}, NEW r \in Questions,
         Has(d, role, r)'
  PROVE  Has(d, role, r) \/ (role = said /\ r = q)
<1> DEFINE m == [role |-> said, question |-> q]
<1>1. m \in Message /\ thread[c] \in Seq(Message)
  BY DEF Message
<1>2. /\ thread' = [thread EXCEPT ![c] = Append(thread[c], m)]
      /\ Len(Append(thread[c], m)) = Len(thread[c]) + 1
      /\ \A i \in 1 .. Len(thread[c]) : Append(thread[c], m)[i] = thread[c][i]
      /\ Append(thread[c], m)[Len(thread[c]) + 1] = m
      /\ Len(thread[c]) \in Nat
  BY <1>1 DEF Says
<1>3. PICK i \in 1 .. Len(thread'[d]) : thread'[d][i] = [role |-> role, question |-> r]
  BY DEF Has
<1>4. CASE d # c
  BY <1>2, <1>3, <1>4 DEF Has
<1>5. CASE d = c /\ i \in 1 .. Len(thread[c])
  BY <1>2, <1>3, <1>5 DEF Has
<1>6. CASE d = c /\ i = Len(thread[c]) + 1
  <2>1. [role |-> role, question |-> r] = m
    BY <1>2, <1>3, <1>6
  <2> QED BY <2>1
<1> QED BY <1>2, <1>3, <1>4, <1>5, <1>6

\* A turn that is not at its end was not at its end before.
LEMMA OnlyForward ==
  ASSUME AnswerInv, [Next]_vars, NEW q \in Questions, at'[q] \notin Final
  PROVE  at[q] \notin Final
<1> USE DEF Final, Goes, Leaves, AfterLoop, KeepTurns, KeepMemory, AnswerInv, TurnInv, Placed
<1>1. ASSUME NEW r \in Questions, Task(r) PROVE at[q] \notin Final
  BY <1>1 DEF Task, Vanish, ReadThread, Fail, AskModel, Reply, CallTool, AllCalled, StoreAnswer,
              Finish, ForgetFinished
<1>2. ASSUME NEW r \in Questions, StartTurn(r) \/ RefuseTurn(r) PROVE at[q] \notin Final
  BY <1>2 DEF StartTurn, RefuseTurn
<1>3. ASSUME NEW c \in Conversations,
             Create(c) \/ Remove(c) \/ AppendMessage(c) \/ Cancel(c) PROVE at[q] \notin Final
  BY <1>3 DEF Create, Remove, AppendMessage, Cancel
<1>4. ASSUME NEW c \in Conversations, Ask(c) PROVE at[q] \notin Final
  BY <1>4, AskIsNew DEF Ask
<1>5. CASE Configure \/ UNCHANGED vars
  BY <1>5 DEF Configure, vars
<1>6. CASE Restart
  BY <1>6 DEF Restart
<1> QED BY <1>1, <1>2, <1>3, <1>4, <1>5, <1>6 DEF Next

\* What a step does to the threads: it leaves them, says one thing, or empties
\* one.
LEMMA SaidBy ==
  ASSUME AnswerInv, [Next]_vars
  PROVE  \/ UNCHANGED <<thread, asked>>
         \/ \E c \in Conversations : Says(c, "other", 0) /\ UNCHANGED asked
         \/ \E c \in Conversations : /\ asked + 1 \in Questions /\ asked' = asked + 1
                                     /\ Says(c, "user", asked + 1)
         \/ \E q \in Questions : /\ at[q] = "storing" /\ at'[q] = "finishing"
                                 /\ Says(home[q], "assistant", q) /\ UNCHANGED asked
         \/ \E c \in Conversations : /\ thread' = [thread EXCEPT ![c] = <<>>]
                                     /\ UNCHANGED asked
<1> USE DEF store, KeepTurns, KeepMemory
<1>1. ASSUME NEW c \in Conversations, Create(c) \/ Cancel(c) PROVE UNCHANGED <<thread, asked>>
  BY <1>1 DEF Create, Cancel
<1>2. ASSUME NEW c \in Conversations, Remove(c)
      PROVE  thread' = [thread EXCEPT ![c] = <<>>] /\ UNCHANGED asked
  BY <1>2 DEF Remove
<1>3. ASSUME NEW c \in Conversations, AppendMessage(c)
      PROVE  Says(c, "other", 0) /\ UNCHANGED asked
  BY <1>3 DEF AppendMessage
<1>4. ASSUME NEW c \in Conversations, Ask(c)
      PROVE  /\ asked + 1 \in Questions /\ asked' = asked + 1
             /\ Says(c, "user", asked + 1)
  BY <1>4, AskIsNew DEF Ask
<1>5. ASSUME NEW q \in Questions, StartTurn(q) \/ RefuseTurn(q) PROVE UNCHANGED <<thread, asked>>
  BY <1>5 DEF StartTurn, RefuseTurn
<1>6. ASSUME NEW q \in Questions, Task(q), ~StoreAnswer(q) PROVE UNCHANGED <<thread, asked>>
  BY <1>6 DEF Task, Vanish, ReadThread, Fail, AskModel, Reply, CallTool, AllCalled, Finish,
              ForgetFinished
<1>7. ASSUME NEW q \in Questions, StoreAnswer(q)
      PROVE  \/ UNCHANGED <<thread, asked>>
             \/ /\ at[q] = "storing" /\ at'[q] = "finishing"
                /\ Says(home[q], "assistant", q) /\ UNCHANGED asked
  BY <1>7 DEF StoreAnswer, Goes, AnswerInv, TurnInv, Placed
<1>8. CASE Configure \/ Restart \/ UNCHANGED vars
  BY <1>8 DEF Configure, Restart, vars
<1> QED BY <1>1, <1>2, <1>3, <1>4, <1>5, <1>6, <1>7, <1>8 DEF Next

\* Nothing is said before its time, in every step.
LEMMA UnsaidStep == ASSUME ThreadInv, [Next]_vars PROVE ThreadInv'
<1>0. AnswerInv' /\ AnswerInv
  BY AnswerStep DEF ThreadInv
<1> USE DEF ThreadInv, AnswerInv, Asked, TurnInv, Placed
<1> SUFFICES ASSUME NEW d \in Conversations, NEW r \in Questions
             PROVE  /\ at'[r] \notin Final => ~Has(d, "assistant", r)'
                    /\ r > asked' => ~Has(d, "user", r)'
  BY <1>0 DEF Unsaid
<1>1. /\ at[r] \notin Final => ~Has(d, "assistant", r)
      /\ r > asked => ~Has(d, "user", r)
      /\ at'[r] \notin Final => at[r] \notin Final
      /\ r \in Nat /\ asked \in Nat
  BY OnlyForward, TurnsAssumption DEF Unsaid, Questions
<1>2. CASE UNCHANGED <<thread, asked>>
  BY <1>1, <1>2 DEF Has
<1>3. ASSUME NEW c \in Conversations, Says(c, "other", 0), UNCHANGED asked
      PROVE  /\ at'[r] \notin Final => ~Has(d, "assistant", r)'
             /\ r > asked' => ~Has(d, "user", r)'
  BY <1>1, <1>3, SaysOnly, TurnsAssumption
<1>4. ASSUME NEW c \in Conversations, asked + 1 \in Questions, asked' = asked + 1,
             Says(c, "user", asked + 1)
      PROVE  /\ at'[r] \notin Final => ~Has(d, "assistant", r)'
             /\ r > asked' => ~Has(d, "user", r)'
  <2>1. asked + 1 \in 0 .. MaxAsks
    BY <1>4, TurnsAssumption DEF Questions
  <2>2. Has(d, "assistant", r)' => Has(d, "assistant", r)
    BY <1>4, <2>1, SaysOnly
  <2>3. Has(d, "user", r)' => Has(d, "user", r) \/ r = asked + 1
    BY <1>4, <2>1, SaysOnly
  <2> QED BY <1>1, <1>4, <2>2, <2>3
<1>5. ASSUME NEW q \in Questions, at'[q] = "finishing", Says(home[q], "assistant", q),
             UNCHANGED asked
      PROVE  /\ at'[r] \notin Final => ~Has(d, "assistant", r)'
             /\ r > asked' => ~Has(d, "user", r)'
  <2>1. home[q] \in Conversations /\ q \in 0 .. MaxAsks
    BY TurnsAssumption DEF Questions
  <2>2. Has(d, "assistant", r)' => Has(d, "assistant", r) \/ r = q
    BY <1>5, <2>1, SaysOnly
  <2>3. Has(d, "user", r)' => Has(d, "user", r)
    BY <1>5, <2>1, SaysOnly
  <2> QED BY <1>1, <1>5, <2>2, <2>3 DEF Final
<1>6. ASSUME NEW c \in Conversations, thread' = [thread EXCEPT ![c] = <<>>], UNCHANGED asked
      PROVE  /\ at'[r] \notin Final => ~Has(d, "assistant", r)'
             /\ r > asked' => ~Has(d, "user", r)'
  <2>1. thread'[d] = thread[d] \/ Len(thread'[d]) = 0
    BY <1>6
  <2>2. ASSUME NEW role, Has(d, role, r)' PROVE Has(d, role, r)
    BY <2>1, <2>2 DEF Has
  <2> QED BY <1>1, <1>6, <2>2
<1> QED BY <1>2, <1>3, <1>4, <1>5, <1>6, SaidBy

\* Every step of Turns is a step of Conversation, or none.
LEMMA ThreadStep ==
  ASSUME ThreadInv, ThreadInv', [Next]_vars PROVE [C!ThreadNext]_(C!threadVars)
<1> USE DEF ThreadInv, AnswerInv, Asked, TurnInv, Placed, C!threadVars, store, memory,
           KeepTurns, KeepMemory
<1> DEFINE Same == thread' = thread /\ Answering' = Answering
<1>0. \A q \in Questions : at[q] \in Active => runs[home[q]] = q /\ q \in running
  BY DEF OneTurnAtATime
<1>1. ASSUME NEW c \in Conversations, Create(c) \/ Cancel(c) PROVE Same
  BY <1>1 DEF Create, Cancel, Answering
<1>2. ASSUME NEW c \in Conversations, Remove(c) PROVE C!Forget(c)
  BY <1>2 DEF Remove, C!Forget, Answering
<1>3. ASSUME NEW c \in Conversations, AppendMessage(c) PROVE C!Note(c)
  BY <1>3 DEF AppendMessage, C!Note, C!Says, Says, Answering
<1>4. ASSUME NEW c \in Conversations, Ask(c) PROVE C!Put(c, asked + 1)
  <2>1. asked + 1 \in Questions /\ asked + 1 > asked
    BY <1>4, AskIsNew
  <2>2. \A d \in Conversations : C!Places(d, "user", asked + 1) = {}
    BY <2>1 DEF Unsaid, Has, C!Places
  <2>3. Answering' = Answering
    <3>1. \A d \in Conversations : runs[d] \in running => runs[d] # asked + 1
      BY <1>4, AskIsNew DEF RunsKnown
    <3>2. at' = [at EXCEPT ![asked + 1] = "stored"]
      BY <1>4 DEF Ask, Goes
    <3> QED BY <3>1, <3>2, <1>4, <2>1 DEF Ask, Answering
  <2> QED BY <1>4, <2>2, <2>3 DEF Ask, C!Put, C!Says, Says
<1>5. ASSUME NEW q \in Questions, StartTurn(q) PROVE C!Begin(home[q], q)
  <2>1. Answering[home[q]] = 0
    BY <1>5, TurnsAssumption DEF StartTurn, Busy, Answering, Questions
  <2>2. C!Places(home[q], "assistant", q) = {}
    <3>1. home[q] \in Conversations /\ ~Has(home[q], "assistant", q)
      BY <1>5 DEF StartTurn, Unsaid, Final
    <3> QED BY <3>1 DEF Has, C!Places
  <2>3. /\ runs' = [runs EXCEPT ![home[q]] = q] /\ running' = running \cup {q}
        /\ at' = [at EXCEPT ![q] = "starting"] /\ at[q] = "stored" /\ thread' = thread
    BY <1>5 DEF StartTurn, Goes
  <2>4. \A c \in Conversations : runs[c] # q
    BY <2>3, TurnsAssumption DEF RunsKnown
  <2>5. Answering' = [Answering EXCEPT ![home[q]] = q]
    BY <2>3, <2>4 DEF Answering
  <2> QED BY <2>1, <2>2, <2>3, <2>5 DEF C!Begin
<1>6. ASSUME NEW q \in Questions, RefuseTurn(q) PROVE Same
  <2>1. \A c \in Conversations : runs[c] # q
    BY <1>6 DEF RefuseTurn, RunsKnown
  <2> QED BY <1>6, <2>1 DEF RefuseTurn, Goes, Answering
<1>7. ASSUME NEW q \in Questions,
             Vanish(q) \/ ReadThread(q) \/ AskModel(q) \/ Reply(q) \/ CallTool(q) \/ AllCalled(q)
      PROVE  Same
  <2>1. /\ thread' = thread /\ runs' = runs /\ running' = running
        /\ \A r \in Questions : at'[r] = "finishing" <=> at[r] = "finishing"
    BY <1>7 DEF Vanish, ReadThread, AskModel, Reply, CallTool, AllCalled, Goes, Leaves, AfterLoop
  <2> QED BY <2>1 DEF Answering
<1>8. ASSUME NEW q \in Questions, Fail(q) PROVE C!GiveUp({home[q]})
  <2>1. /\ thread' = thread /\ runs' = runs /\ running' = running \ {q}
        /\ \A r \in Questions \ {q} : at'[r] = at[r]
        /\ runs[home[q]] = q
    BY <1>8, <1>0 DEF Fail, Leaves, Goes, Active, Looping
  <2>2. \A c \in Conversations \ {home[q]} : runs[c] # q
    BY <1>8 DEF Fail, RunsKnown
  <2> QED BY <2>1, <2>2 DEF C!GiveUp, Answering
<1>9. ASSUME NEW q \in Questions, StoreAnswer(q)
      PROVE  C!Answer(home[q]) \/ C!GiveUp({home[q]})
  <2>1. /\ runs' = runs /\ running' = running
        /\ at'[q] = "finishing" /\ at[q] = "storing"
        /\ \A r \in Questions \ {q} : at'[r] = at[r]
    BY <1>9 DEF StoreAnswer, Goes
  <2>2. runs[home[q]] = q /\ q \in running /\ q # 0
    BY <2>1, <1>0, TurnsAssumption DEF Active, Looping, Questions
  <2>3. \A c \in Conversations \ {home[q]} : runs[c] # q
    BY <2>1 DEF RunsKnown
  <2>4. Answering[home[q]] = q
    BY <2>1, <2>2 DEF Answering
  <2>5. /\ Answering' = [Answering EXCEPT ![home[q]] = 0]
        /\ Answering' = [c \in Conversations |-> IF c \in {home[q]} THEN 0 ELSE Answering[c]]
    <3>1. \A c \in Conversations \ {home[q]} : Answering'[c] = Answering[c]
      BY <2>1, <2>3 DEF Answering
    <3>2. Answering'[home[q]] = 0
      BY <2>1, <2>2 DEF Answering
    <3>3. Answering = [c \in Conversations |-> Answering[c]]
          /\ Answering' = [c \in Conversations |-> Answering'[c]]
      BY DEF Answering
    <3> QED BY SMTT(30), <3>1, <3>2, <3>3
  <2> QED BY <1>9, <2>2, <2>4, <2>5 DEF StoreAnswer, Says, C!Answer, C!Says, C!GiveUp
<1>10. ASSUME NEW q \in Questions, Finish(q) PROVE Same
  <2>1. /\ thread' = thread /\ runs' = runs /\ running' = running \ {q}
        /\ at[q] = "finishing"
        /\ \A r \in Questions \ {q} : at'[r] = at[r]
    BY <1>10 DEF Finish, Goes
  <2> QED BY <2>1 DEF Answering
<1>11. ASSUME NEW q \in Questions, ForgetFinished(q) PROVE Same
  <2>1. /\ thread' = thread /\ running' = running
        /\ \A c \in Conversations : runs'[c] = runs[c] \/ (runs'[c] = 0 /\ runs[c] \notin running)
        /\ at[q] = "forgetting" /\ at'[q] = "ended"
        /\ \A r \in Questions \ {q} : at'[r] = at[r]
    <3>1. \A c \in Conversations : runs'[c] = runs[c] \/ (runs'[c] = 0 /\ runs[c] \notin running)
      <4>1. CASE q \in running
        BY <4>1, <1>11 DEF ForgetFinished, Kept, RunsKnown
      <4>2. CASE q \notin running
        BY <4>2, <1>11 DEF ForgetFinished, Kept
      <4> QED BY <4>1, <4>2
    <3> QED BY <3>1, <1>11 DEF ForgetFinished, Goes
  <2>2. 0 \notin running
    BY TurnsAssumption DEF Questions
  <2> QED BY <2>1, <2>2 DEF Answering
<1>12. CASE Configure
  BY <1>12 DEF Configure, Answering
<1>13. CASE Restart
  <2>1. Answering' = [c \in Conversations |-> 0] /\ thread' = thread
    BY <1>13 DEF Restart, Answering
  <2> QED BY <2>1 DEF C!GiveUp, C!ThreadNext
<1>14. CASE UNCHANGED vars
  BY <1>14 DEF vars, Answering
<1>15. ASSUME NEW q \in Questions, Task(q)
       PROVE  Same \/ C!Answer(home[q]) \/ C!GiveUp({home[q]})
  BY <1>15, <1>7, <1>8, <1>9, <1>10, <1>11 DEF Task
<1> QED
  <2>1. ASSUME NEW q \in Questions, C!Answer(home[q]) \/ C!GiveUp({home[q]})
        PROVE  C!ThreadNext
    BY <2>1 DEF C!ThreadNext
  <2>2. ASSUME NEW c \in Conversations, C!Forget(c) \/ C!Note(c)
        PROVE  C!ThreadNext
    BY <2>2 DEF C!ThreadNext
  <2>3. ASSUME NEW c \in Conversations, NEW q \in Questions, C!Put(c, q) \/ C!Begin(c, q)
        PROVE  C!ThreadNext
    BY <2>3 DEF C!ThreadNext
  <2>4. CASE Restart
    BY <1>13, <2>4
  <2>5. ASSUME NEW c \in Conversations, Ask(c) PROVE C!ThreadNext
    BY <1>4, <2>3, <2>5, AskIsNew
  <2>6. ASSUME NEW q \in Questions, StartTurn(q) PROVE C!ThreadNext
    BY <1>5, <2>3, <2>6
  <2> QED BY <1>1, <1>2, <1>3, <1>6, <1>12, <1>14, <1>15, <2>1, <2>2, <2>4, <2>5, <2>6
          DEF Next

\* What a reader of the threads and of the runs can see is a behaviour of the
\* abstract conversation: answers only to questions being answered, one at a
\* time, each stored as it stops being answered (ask, run_turn).
THEOREM TurnsKeepConversation == Spec => ConversationKept
<1>1. Init => ThreadInv
  <2>1. Init => Unsaid
    BY TurnsAssumption DEF Init, Unsaid, Has
  <2> QED BY <2>1, InitAnswered DEF ThreadInv
<1>2. ThreadInv /\ [Next]_vars => ThreadInv'
  BY UnsaidStep
<1>3. Init => C!ThreadInit
  BY TurnsAssumption DEF Init, C!ThreadInit, Answering
<1>4. ThreadInv /\ ThreadInv' /\ [Next]_vars => [C!ThreadNext]_(C!threadVars)
  BY ThreadStep
<1> QED BY <1>1, <1>2, <1>3, <1>4, PTL DEF Spec, ConversationKept, C!ThreadSpec
-----------------------------------------------------------------------------
(***************************************************************************)
(* The download queue.  NeverUnasked is about totals; what makes it        *)
(* inductive is that a target has one row at most, so that what a claim    *)
(* takes was the only row that waited for it.                              *)
(***************************************************************************)

\* A set of numbers that is not empty has a smallest member.
LEMMA Smallest ==
  ASSUME NEW S, S \subseteq Nat, S # {}
  PROVE  \E m \in S : \A k \in S : m <= k
<1>1. IsWellFoundedOn(OpToRel(<, Nat), Nat)
  BY NatLessThanWellFounded
<1>2. \E x \in S : \A y \in S : ~ (<<y, x>> \in OpToRel(<, Nat))
  BY <1>1, WFMin
<1>3. ASSUME NEW x \in S, NEW y \in S, y < x PROVE <<y, x>> \in OpToRel(<, Nat)
  <2>1. <<y, x>> \in Nat \X Nat /\ <<y, x>>[1] = y /\ <<y, x>>[2] = x
    OBVIOUS
  <2>2. <<y, x>>[1] < <<y, x>>[2]
    BY <1>3
  <2> QED BY <2>1, <2>2 DEF OpToRel
<1>4. PICK x \in S : \A y \in S : ~ (<<y, x>> \in OpToRel(<, Nat))
  BY <1>2
<1>5. \A y \in S : ~ (y < x)
  BY <1>3, <1>4
<1>6. \A y \in S : x <= y
  BY <1>5
<1> QED BY <1>6

\* And among the numbers up to a bound there is a largest.
LEMMA Largest ==
  ASSUME NEW n \in Nat, NEW S, S \subseteq 1 .. n, S # {}
  PROVE  \E m \in S : \A k \in S : k <= m
<1> DEFINE T == {j \in Nat : n - j \in S}
<1>1. T # {}
  <2>1. PICK k \in S : TRUE
    OBVIOUS
  <2>2. n - k \in Nat /\ n - (n - k) = k
    BY <2>1
  <2> QED BY <2>1, <2>2
<1>2. PICK m \in T : \A k \in T : m <= k
  BY <1>1, Smallest
<1>3. n - m \in S
  OBVIOUS
<1>4. ASSUME NEW k \in S PROVE k <= n - m
  <2>1. k \in 1 .. n /\ n - k \in T
    OBVIOUS
  <2>2. m <= n - k
    BY <1>2, <2>1
  <2> QED BY <2>1, <2>2
<1> QED BY <1>3, <1>4

QueueTypes ==
  /\ DOMAIN queue \subseteq Queue!Ids /\ queue \in [DOMAIN queue -> Queue!Row]
  /\ asks \in [Targets -> Nat] /\ claims \in [Targets -> Nat]

OneRowEach ==
  \A i, j \in DOMAIN queue : queue[i].target = queue[j].target => i = j

Waits(t) == \E i \in DOMAIN queue : queue[i].target = t /\ queue[i].state = "waiting"

\* Where nobody waits every claim was asked for, where somebody does one is left.
ClaimsAsked ==
  \A t \in Targets : claims[t] <= asks[t] /\ (Waits(t) => claims[t] < asks[t])

QueueInv == QueueTypes /\ OneRowEach /\ ClaimsAsked

\* The row that a new target gets is a new one.
LEMMA NextIdIsNew == ASSUME QueueTypes PROVE Queue!NextId \notin DOMAIN queue
<1>1. CASE DOMAIN queue = {}
  BY <1>1
<1>2. CASE DOMAIN queue # {}
  <2>1. \E i \in DOMAIN queue : \A j \in DOMAIN queue : j <= i
    BY <1>2, Largest, BoundsAreNat DEF QueueTypes, Queue!Ids
  <2>2. PICK m \in DOMAIN queue : m = (CHOOSE i \in DOMAIN queue : \A j \in DOMAIN queue : j <= i)
                                 /\ \A j \in DOMAIN queue : j <= m
    BY <2>1
  <2>3. Queue!NextId = 1 + m /\ m \in Nat
    BY <1>2, <2>2 DEF Queue!NextId, QueueTypes, Queue!Ids
  <2> QED
    BY <2>2, <2>3 DEF QueueTypes, Queue!Ids
<1> QED
  BY <1>1, <1>2

\* A row that is set: what it was before, and every other as it was.
LEMMA RowSet ==
  ASSUME QueueTypes, NEW i \in Queue!Ids, NEW row \in Queue!Row, queue' = Queue!Set(i, row)
  PROVE  /\ DOMAIN queue' = DOMAIN queue \cup {i} /\ DOMAIN queue' \subseteq Queue!Ids
         /\ queue' \in [DOMAIN queue' -> Queue!Row]
         /\ queue'[i] = row
         /\ \A j \in DOMAIN queue : j # i => queue'[j] = queue[j]
BY DEF Queue!Set, QueueTypes

\* Rows that go leave the others as they were.
LEMMA RowsGo ==
  ASSUME QueueInv, NEW S, queue' = Queue!Keep(S), UNCHANGED <<asks, claims>>
  PROVE  QueueInv'
BY DEF Queue!Keep, QueueInv, QueueTypes, OneRowEach, ClaimsAsked, Waits

\* What users ask is counted before anything waits for it.
LEMMA AskKeeps ==
  ASSUME QueueInv, NEW t \in Targets, Queue!Ask(t), NEW i \in Queue!Ids,
         NEW row \in Queue!Row, row.target = t, queue' = Queue!Set(i, row),
         i \in DOMAIN queue => queue[i].target = t,
         \A j \in DOMAIN queue : queue[j].target = t => j = i
  PROVE  QueueInv'
<1>1. claims' = claims /\ asks' = [asks EXCEPT ![t] = @ + 1]
  BY DEF Queue!Ask, Queue!Asked
<1>s. /\ DOMAIN queue' = DOMAIN queue \cup {i} /\ DOMAIN queue' \subseteq Queue!Ids
      /\ queue' \in [DOMAIN queue' -> Queue!Row]
      /\ queue'[i] = row
      /\ \A j \in DOMAIN queue : j # i => queue'[j] = queue[j]
  BY RowSet DEF QueueInv
<1>2. QueueTypes'
  BY <1>1, <1>s DEF QueueInv, QueueTypes
<1>3. OneRowEach'
  BY <1>s DEF QueueInv, OneRowEach
<1>4. ASSUME NEW u \in Targets, u # t PROVE Waits(u)' => Waits(u)
  BY <1>4, <1>s DEF Waits
<1>5. ClaimsAsked'
  BY <1>1, <1>4 DEF QueueInv, QueueTypes, ClaimsAsked
<1> QED
  BY <1>2, <1>3, <1>5 DEF QueueInv

\* Where no row begins to wait, and nothing is taken, nothing is lost.
LEMMA NoneWaitsMore ==
  ASSUME QueueInv, UNCHANGED claims, asks' \in [Targets -> Nat],
         \A t \in Targets : asks[t] <= asks'[t],
         DOMAIN queue' = DOMAIN queue, queue' \in [DOMAIN queue -> Queue!Row],
         \A i \in DOMAIN queue : /\ queue'[i].target = queue[i].target
                                 /\ queue'[i].state = "waiting" => queue[i].state = "waiting"
  PROVE  QueueInv'
<1>1. QueueTypes' /\ OneRowEach'
  BY DEF QueueInv, QueueTypes, OneRowEach
<1>2. ClaimsAsked'
  BY DEF QueueInv, QueueTypes, ClaimsAsked, Waits
<1> QED
  BY <1>1, <1>2 DEF QueueInv

LEMMA UsersKeep == ASSUME QueueInv, Queue!Users PROVE QueueInv'
<1>1. ASSUME NEW t \in Targets, Queue!EnqueueNew(t) PROVE QueueInv'
  <2> DEFINE row == [target |-> t, state |-> "waiting", reason |-> FALSE]
  <2>1. row \in Queue!Row /\ row.target = t
    BY DEF Queue!Row, Queue!States
  <2>2. \A j \in DOMAIN queue : queue[j].target # t
    BY <1>1 DEF Queue!EnqueueNew, Queue!RowsOf
  <2>3. Queue!NextId \in Queue!Ids /\ Queue!Ask(t) /\ queue' = Queue!Set(Queue!NextId, row)
    BY <1>1 DEF Queue!EnqueueNew
  <2>4. Queue!NextId \notin DOMAIN queue
    BY NextIdIsNew DEF QueueInv
  <2> QED
    BY <2>1, <2>2, <2>3, <2>4, AskKeeps
<1>2. ASSUME NEW t \in Targets, Queue!EnqueueAgain(t) PROVE QueueInv'
  <2>1. PICK i \in Queue!RowsOf(t) :
          queue' = IF queue[i].state = "failed"
                   THEN Queue!Set(i, [queue[i] EXCEPT !.state = "waiting"]) ELSE queue
    BY <1>2 DEF Queue!EnqueueAgain
  <2>2. /\ i \in DOMAIN queue /\ i \in Queue!Ids /\ queue[i].target = t
        /\ queue[i] \in Queue!Row /\ Queue!Ask(t)
    BY <1>2, <2>1 DEF Queue!EnqueueAgain, Queue!RowsOf, QueueInv, QueueTypes
  <2>3. CASE queue[i].state = "failed"
    <3> DEFINE row == [queue[i] EXCEPT !.state = "waiting"]
    <3>1. row \in Queue!Row /\ row.target = t
      BY <2>2 DEF Queue!Row, Queue!States
    <3>2. queue' = Queue!Set(i, row)
      BY <2>1, <2>3
    <3>3. \A j \in DOMAIN queue : queue[j].target = t => j = i
      BY <2>2 DEF QueueInv, OneRowEach
    <3> HIDE DEF row
    <3> QED
      BY <2>2, <3>1, <3>2, <3>3, AskKeeps
  <2>4. CASE queue[i].state # "failed"
    <3>1. queue' = queue /\ claims' = claims /\ asks' = [asks EXCEPT ![t] = @ + 1]
      BY <2>1, <2>2, <2>4 DEF Queue!Ask, Queue!Asked
    <3> QED
      BY <3>1, NoneWaitsMore DEF QueueInv, QueueTypes
  <2> QED
    BY <2>3, <2>4
<1>3. ASSUME NEW i \in Queue!Ids, Queue!Retry(i) PROVE QueueInv'
  <2> DEFINE t == queue[i].target
             row == [queue[i] EXCEPT !.state = "waiting", !.reason = FALSE]
  <2>1. /\ i \in DOMAIN queue /\ queue[i] \in Queue!Row /\ Queue!Ask(t)
        /\ queue' = Queue!Set(i, row)
    BY <1>3 DEF Queue!Retry, QueueInv, QueueTypes
  <2>2. t \in Targets /\ row \in Queue!Row /\ row.target = t
    BY <2>1 DEF Queue!Row, Queue!States
  <2>3. \A j \in DOMAIN queue : queue[j].target = t => j = i
    BY <2>1 DEF QueueInv, OneRowEach
  <2> HIDE DEF t, row
  <2> QED
    BY <2>1, <2>2, <2>3, AskKeeps DEF t
<1>4. ASSUME NEW i \in Queue!Ids, Queue!Remove(i) PROVE QueueInv'
  BY <1>4, RowsGo DEF Queue!Remove, Queue!history
<1>5. CASE Queue!ClearFinished
  BY <1>5, RowsGo DEF Queue!ClearFinished, Queue!history
<1>6. ASSUME NEW r \in Fetches, NEW t \in Targets, Queue!StartRequest(r, t) PROVE QueueInv'
  BY <1>6, NoneWaitsMore DEF Queue!StartRequest, Queue!KeepRest, QueueInv, QueueTypes
<1> QED
  BY <1>1, <1>2, <1>3, <1>4, <1>5, <1>6 DEF Queue!Users

\* What is claimed was the only row that waited for its target.
LEMMA ClaimKeeps == ASSUME QueueInv, Queue!Claim PROVE QueueInv'
<1>1. PICK i \in Queue!InState("waiting") :
        /\ queue' = Queue!Set(i, [queue[i] EXCEPT !.state = "running"])
        /\ claims' = [claims EXCEPT ![queue[i].target] = @ + 1] /\ asks' = asks
  <2>1. \E i \in Queue!InState("waiting") : \A j \in Queue!InState("waiting") : i <= j
    <3>1. Queue!InState("waiting") \subseteq Nat /\ Queue!InState("waiting") # {}
      BY BoundsAreNat DEF Queue!Claim, Queue!Claimable, Queue!InState, QueueInv, QueueTypes, Queue!Ids
    <3> QED
      BY <3>1, Smallest
  <2> QED
    BY <2>1 DEF Queue!Claim, Queue!Claimable, Queue!KeepRest
<1>2. /\ i \in DOMAIN queue /\ queue[i].state = "waiting" /\ queue[i] \in Queue!Row
      /\ i \in Queue!Ids
  BY DEF Queue!InState, QueueInv, QueueTypes
<1> DEFINE row == [queue[i] EXCEPT !.state = "running"]
<1>3. row \in Queue!Row /\ row.target = queue[i].target /\ row.state = "running"
  BY <1>2 DEF Queue!Row, Queue!States
<1>4. queue' = Queue!Set(i, row)
  BY <1>1
<1> HIDE DEF row
<1>5. /\ DOMAIN queue' = DOMAIN queue /\ queue' \in [DOMAIN queue' -> Queue!Row]
      /\ queue'[i] = row
      /\ \A j \in DOMAIN queue : j # i => queue'[j] = queue[j]
  BY <1>2, <1>3, <1>4, RowSet DEF QueueInv
<1>6. QueueTypes' /\ OneRowEach'
  BY SMTT(30), <1>1, <1>2, <1>3, <1>5 DEF QueueInv, QueueTypes, OneRowEach, Queue!Row
<1>7. ASSUME NEW t \in Targets
      PROVE  claims'[t] <= asks'[t] /\ (Waits(t)' => claims'[t] < asks'[t])
  <2>1. claims[t] <= asks[t] /\ (Waits(t) => claims[t] < asks[t])
        /\ claims[t] \in Nat /\ asks[t] \in Nat /\ asks'[t] = asks[t]
    BY <1>1 DEF QueueInv, QueueTypes, ClaimsAsked
  <2>2. CASE t = queue[i].target
    <3>1. Waits(t) /\ ~Waits(t)'
      BY <1>2, <1>3, <1>5, <2>2 DEF Waits, QueueInv, OneRowEach
    <3> QED
      BY <1>1, <2>1, <2>2, <3>1 DEF QueueInv, QueueTypes
  <2>3. CASE t # queue[i].target
    <3>1. (Waits(t)' => Waits(t)) /\ claims'[t] = claims[t]
      BY <1>1, <1>3, <1>5, <2>3 DEF Waits, QueueInv, QueueTypes
    <3> QED
      BY <2>1, <3>1
  <2> QED
    BY <2>2, <2>3
<1> QED
  BY <1>6, <1>7 DEF QueueInv, ClaimsAsked

LEMMA RecordKeeps == ASSUME QueueInv, Queue!Record PROVE QueueInv'
<1>1. claims' = claims /\ asks' = asks
  BY DEF Queue!Record, Queue!KeepRest
<1>2. CASE queue' = queue
  BY <1>1, <1>2, NoneWaitsMore DEF QueueInv, QueueTypes
<1>3. CASE queue' # queue
  <2>1. job \in DOMAIN queue
    BY <1>3 DEF Queue!Record
  <2>2. PICK s \in {"done", "failed"}, b \in BOOLEAN :
          queue' = Queue!Set(job, [queue[job] EXCEPT !.state = s, !.reason = b])
    BY <1>3 DEF Queue!Record
  <2> DEFINE row == [queue[job] EXCEPT !.state = s, !.reason = b]
  <2>3. row \in Queue!Row /\ row.target = queue[job].target /\ row.state = s
        /\ job \in Queue!Ids
    BY <2>1 DEF QueueInv, QueueTypes, Queue!Row, Queue!States
  <2>4. queue' = Queue!Set(job, row)
    BY <2>2
  <2> HIDE DEF row
  <2>5. /\ DOMAIN queue' = DOMAIN queue /\ queue' \in [DOMAIN queue' -> Queue!Row]
        /\ queue'[job] = row
        /\ \A j \in DOMAIN queue : j # job => queue'[j] = queue[j]
    BY <2>1, <2>3, <2>4, RowSet DEF QueueInv
  <2> QED
    BY <1>1, <2>3, <2>5, NoneWaitsMore DEF QueueInv, QueueTypes
<1> QED
  BY <1>2, <1>3

LEMMA QueueStep == QueueInv /\ [Queue!Next]_queueVars => QueueInv'
<1> SUFFICES ASSUME QueueInv, [Queue!Next]_queueVars PROVE QueueInv'
  OBVIOUS
<1>1. CASE UNCHANGED queueVars
  BY <1>1 DEF queueVars, QueueInv, QueueTypes, OneRowEach, ClaimsAsked, Waits
<1>2. ASSUME NEW a \in Queue!Attachers, Queue!Attach(a) PROVE QueueInv'
  <2>1. UNCHANGED <<queue, claims, asks>>
    BY <1>2 DEF Queue!Attach, Queue!LookForAttachment, Queue!CreateAttachment, Queue!StoreFile,
                Queue!Fail, Queue!KeepRest
  <2> QED
    BY <2>1, NoneWaitsMore DEF QueueInv, QueueTypes
<1>3. CASE Queue!Restart
  <2>1. UNCHANGED <<claims, asks>>
    BY <1>3 DEF Queue!Restart, Queue!history
  <2>2. queue' = [i \in DOMAIN queue |-> IF i \in Queue!InState("running")
                                         THEN Queue!Interrupted(queue[i]) ELSE queue[i]]
    BY <1>3 DEF Queue!Restart
  <2>3. \A i \in DOMAIN queue : queue[i] \in Queue!Row
    BY DEF QueueInv, QueueTypes
  <2>4. \A i \in DOMAIN queue :
          /\ queue'[i] \in Queue!Row /\ queue'[i].target = queue[i].target
          /\ queue'[i].state = "waiting" => queue[i].state = "waiting"
    BY <2>2, <2>3 DEF Queue!Interrupted, Queue!Row, Queue!States
  <2> QED
    BY <2>1, <2>2, <2>4, NoneWaitsMore DEF QueueInv, QueueTypes
<1>4. CASE Queue!BulkStart \/ Queue!BulkEnd
  <2>1. UNCHANGED <<queue, claims, asks>>
    BY <1>4 DEF Queue!BulkStart, Queue!BulkEnd, Queue!history
  <2> QED
    BY <2>1, NoneWaitsMore DEF QueueInv, QueueTypes
<1> QED
  BY <1>1, <1>2, <1>3, <1>4, UsersKeep, ClaimKeeps, RecordKeeps DEF Queue!Next

LEMMA InvIsEnough == QueueInv => NeverUnasked
<1> SUFFICES ASSUME QueueInv
             PROVE  \A t \in Targets :
                      claims[t] + Cardinality(Queue!RowsOf(t) \cap Queue!InState("waiting")) <= asks[t]
  BY DEF NeverUnasked, Queue!NeverUnasked, Queue!Cardinality, Cardinality
<1> TAKE t \in Targets
<1> DEFINE W == Queue!RowsOf(t) \cap Queue!InState("waiting")
<1>1. claims[t] \in Nat /\ asks[t] \in Nat
  BY DEF QueueInv, QueueTypes
<1>2. CASE W = {}
  <2>1. Cardinality(W) = 0
    BY <1>2, FS_EmptySet
  <2> HIDE DEF W
  <2>2. claims[t] + Cardinality(W) <= asks[t]
    BY <1>1, <2>1 DEF QueueInv, ClaimsAsked
  <2> QED
    BY <2>2 DEF W
<1>3. CASE W # {}
  <2>1. PICK i : i \in W
    BY <1>3
  <2>2. W = {i} /\ Waits(t)
    BY <2>1 DEF QueueInv, OneRowEach, Waits, Queue!RowsOf, Queue!InState
  <2>3. Cardinality(W) = 1
    BY <2>2, FS_Singleton
  <2> QED
    BY <1>1, <2>2, <2>3 DEF QueueInv, ClaimsAsked
<1> QED
  BY <1>2, <1>3

\* A target is never downloaded more often than somebody asked for it, across
\* failures, removals, lost records and restarts (claim, recover_interrupted).
THEOREM DownloadsAreAsked == BackSpec => []NeverUnasked
<1>1. BackInit => QueueInv
  BY DEF BackInit, Queue!Init, Queue!Empty, QueueInv, QueueTypes, OneRowEach, ClaimsAsked, Waits
<1>2. [BackNext]_<<part, vars, queueVars, taskVars, logVars>> => [Queue!Next]_queueVars
  BY DEF BackNext
<1> QED
  BY <1>1, <1>2, QueueStep, InvIsEnough, PTL DEF BackSpec
=============================================================================
