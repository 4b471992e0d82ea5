---------------------------- MODULE Plugins_proofs ----------------------------
(***************************************************************************)
(* Proofs about PluginProcess and PluginHost: what callers of one process  *)
(* are handed, and what stays of a plugin that was turned off.             *)
(***************************************************************************)
EXTENDS MCPlugins, FiniteSetTheorems, TLAPS

-----------------------------------------------------------------------------
(***************************************************************************)
(* One process, for any number of callers and whatever the child writes.   *)
(*                                                                         *)
(* The table, the lines and the callers agree on who has which number; a   *)
(* caller has one number at most, so that numbers do not run out and no    *)
(* two callers have the same.  A caller that waits and has no mail is in   *)
(* the table, and after the drain only those who came late are.            *)
(***************************************************************************)

Stages == {"idle", "checked", "inserted", "waiting", "killing", "abandoned", "returned"}

\* A line carries the number of its caller.
Mine == {l \in Line : id[l[2]] = l[1]}
Answered == {l \in Ids \X (Callers \cup {Nobody}) : l[2] = Nobody \/ id[l[2]] = l[1]}

Typed ==
  /\ pending \in [Ids -> Callers \cup {Nobody}]
  /\ at \in [Callers -> Stages]
  /\ id \in [Callers -> 0 .. Cardinality(Callers)]
  /\ mail \in [Callers -> [by : {"child", "reader", Nobody}, to : Callers \cup {Nobody}]]
  /\ outbox \in Seq(Mine) /\ seen \subseteq Mine /\ pipe \in Seq(Answered)

Numbered == {c \in Callers : id[c] # 0}

Numbers ==
  /\ nextId \in Nat /\ Cardinality(Numbered) + 1 = nextId
  /\ \A c \in Callers :
       /\ id[c] < nextId /\ (id[c] = 0 => mail[c] = NoMail)
       /\ at[c] \in {"idle", "checked"} => id[c] = 0
       /\ at[c] \in {"inserted", "waiting", "abandoned"} => id[c] # 0
       /\ \A d \in Callers : id[c] = id[d] /\ id[c] # 0 => c = d

Waiters ==
  /\ \A i \in Ids : pending[i] # Nobody =>
       /\ at[pending[i]] \in {"inserted", "waiting", "abandoned"}
       /\ id[pending[i]] = i /\ mail[pending[i]] = NoMail
       /\ reader = "drained" => pending[i] \in late
  /\ \A c \in Callers :
       at[c] \in {"inserted", "waiting"} /\ mail[c] = NoMail => pending[id[c]] = c

ProcInv == Typed /\ Numbers /\ Waiters /\ AnswerIsMine

\* There is a number for whoever has none, and nobody has it.
LEMMA NumberLeft ==
  ASSUME ProcInv, NEW c \in Callers, id[c] = 0
  PROVE  /\ nextId \in Ids
         /\ Cardinality(Numbered \cup {c}) = nextId
         /\ \A d \in Callers : id[d] # nextId
<1>1. Numbered \cup {c} \subseteq Callers /\ c \notin Numbered /\ Numbered \subseteq Callers
  BY DEF Numbered
<1>2. IsFiniteSet(Numbered) /\ Cardinality(Callers) \in Nat
  BY <1>1, CallersAssumption, FS_Subset, FS_CardinalityType
<1>3. Cardinality(Numbered \cup {c}) = Cardinality(Numbered) + 1
  BY <1>1, <1>2, FS_AddElement
<1>4. Cardinality(Numbered \cup {c}) <= Cardinality(Callers)
  BY <1>1, CallersAssumption, FS_Subset
<1>5. Cardinality(Numbered) \in Nat
  BY <1>2, FS_CardinalityType
<1> QED BY <1>2, <1>3, <1>4, <1>5 DEF ProcInv, Typed, Numbers, Ids

\* Whoever begins has been sent nothing, and no line carries its number.
LEMMA InsertKeeps == ASSUME ProcInv, NEW c \in Callers, Insert(c) PROVE ProcInv'
<1> USE DEF ProcInv, Insert, KeepChild, Advanced, Goes
<1>1. at[c] = "checked" /\ id[c] = 0
  BY DEF Numbers
<1>2. nextId \in Ids /\ \A d \in Callers : id[d] # nextId
  BY <1>1, NumberLeft
<1>3. Cardinality(Numbered \cup {c}) = nextId
  BY <1>1, NumberLeft
<1>4. id' = [id EXCEPT ![c] = nextId] /\ id' \in [Callers -> 0 .. Cardinality(Callers)]
  BY <1>2 DEF Typed, Ids
<1>5. Numbered' = Numbered \cup {c}
  BY <1>2, <1>4 DEF Numbered, Typed, Ids
<1>6. Mine \subseteq Mine' /\ Answered \subseteq Answered'
  BY <1>1, <1>4, CallersAssumption DEF Mine, Answered, Line, Ids, Typed
<1>7. outbox' \in Seq(Mine') /\ seen' \subseteq Mine' /\ pipe' \in Seq(Answered')
  BY <1>6 DEF Typed
<1>8. Typed'
  BY <1>2, <1>4, <1>7 DEF Typed, Stages
<1>9. Numbers'
  BY <1>1, <1>2, <1>3, <1>4, <1>5 DEF Numbers, Typed, Stages, Ids
<1>10. mail[c] = NoMail
  BY <1>1 DEF Numbers
<1>11. Waiters'
  BY <1>1, <1>2, <1>4, <1>10, CallersAssumption DEF Waiters, Typed, Stages
<1>12. AnswerIsMine'
  BY DEF AnswerIsMine
<1> QED BY <1>8, <1>9, <1>11, <1>12

LEMMA AppendKeeps ==
  ASSUME NEW S, NEW s \in Seq(S), NEW x \in S PROVE Append(s, x) \in Seq(S)
OBVIOUS

\* What a caller does besides.
LEMMA CallerKeeps ==
  ASSUME ProcInv, NEW c \in Callers, CheckAlive(c) \/ Continue(c) \/ Abandon(c)
  PROVE  ProcInv'
<1> USE CallersAssumption DEF ProcInv, Typed, Stages, KeepChild, Goes
<1>1. CASE CheckAlive(c)
  <2>1. PICK w \in {"checked", "killing", "returned"} : at' = [at EXCEPT ![c] = w]
    BY <1>1 DEF CheckAlive
  <2>2. /\ at[c] = "idle" /\ \A i \in Ids : pending[i] # c
        /\ UNCHANGED <<nextId, pending, outbox, seen, pipe, reader, id, mail, late>>
    <3>1. at[c] = "idle" /\ UNCHANGED <<nextId, pending, outbox, seen, pipe, reader, id, mail,
    late>>
      BY <1>1 DEF CheckAlive
    <3>2. ASSUME NEW i \in Ids, pending[i] = c PROVE FALSE
      <4>1. pending[i] # Nobody
        BY <3>2
      <4>2. at[pending[i]] # "idle"
        BY <4>1 DEF Waiters
      <4> QED BY <3>1, <3>2, <4>2
    <3> QED BY <3>1, <3>2
  <2>3. Waiters'
    BY <2>1, <2>2 DEF Waiters
  <2>4. Numbers'
    BY <2>1, <2>2 DEF Numbers, Numbered
  <2>5. Typed'
    BY <2>1, <2>2 DEF Mine, Answered
  <2> QED BY <2>2, <2>3, <2>4, <2>5 DEF AnswerIsMine
<1>2. CASE Insert(c)
  BY <1>2, InsertKeeps
<1>3. CASE Post(c)
  <2> USE <1>3 DEF Post
  <2>1. id[c] \in Ids /\ <<id[c], c>> \in Mine
    BY DEF Numbers, Mine, Line, Ids
  <2>2. outbox' \in Seq(Mine)
    <3>1. outbox' = outbox \/ outbox' = Append(outbox, <<id[c], c>>)
      OBVIOUS
    <3>2. outbox \in Seq(Mine)
      OBVIOUS
    <3> HIDE <1>3 DEF Post, ProcInv
    <3> QED BY <2>1, <3>1, <3>2, AppendKeeps
  <2>3. Typed'
    BY <2>1, <2>2 DEF Mine, Answered
  <2>4. Numbers'
    BY DEF Numbers, Numbered
  <2>5. Waiters'
    <3>1. CASE writer
      BY <3>1 DEF Waiters
    <3>2. CASE ~writer
      <4>1. /\ pending' = [pending EXCEPT ![id[c]] = Nobody]
            /\ at'[c] \in {"killing", "returned"}
            /\ \A d \in Callers \ {c} : at'[d] = at[d]
        BY <3>2
      <4>2. \A d \in Callers \ {c} : id[d] # 0 => id[d] # id[c]
        BY DEF Numbers
      <4>3. \A i \in Ids : pending'[i] # Nobody =>
              pending[i] = pending'[i] /\ pending[i] # c
        BY <2>1, <4>1 DEF Waiters
      <4> QED BY <2>1, <4>1, <4>2, <4>3 DEF Waiters, Numbers
    <3> QED BY <3>1, <3>2
  <2> QED BY <2>3, <2>4, <2>5 DEF AnswerIsMine
<1>4. CASE Return(c)
  <2>1. \A i \in Ids : pending[i] # c
    BY <1>4 DEF Return, Waiters
  <2>2. Waiters'
    BY <1>4, <2>1 DEF Return, Waiters
  <2> QED BY <1>4, <2>2 DEF Return, Numbers, Numbered, AnswerIsMine, Mine, Answered
<1>5. CASE TimeOut(c)
  <2>1. id[c] \in Ids
    BY <1>5 DEF TimeOut, Numbers, Ids
  <2>2. Waiters'
    BY <1>5, <2>1 DEF TimeOut, Withdrawn, Waiters, Numbers
  <2> QED BY <1>5, <2>1, <2>2
          DEF TimeOut, Withdrawn, Numbers, Numbered, AnswerIsMine, Mine, Answered
<1>6. CASE Abandon(c)
  <2>1. Waiters'
    BY <1>6 DEF Abandon, Waiters
  <2> QED BY <1>6, <2>1 DEF Abandon, Numbers, Numbered, AnswerIsMine, Mine, Answered
<1>7. CASE c = Stopper /\ Kill
  <2>1. Waiters'
    BY <1>7 DEF Kill, Waiters
  <2> QED BY <1>7, <2>1 DEF Kill, Numbers, Numbered, AnswerIsMine, Mine, Answered
<1> QED BY <1>1, <1>2, <1>3, <1>4, <1>5, <1>6, <1>7 DEF Continue

\* The tasks and the child: an answer reaches whoever has its number, and a
\* waiter leaves the table as it is sent something.
LEMMA ChildKeeps ==
  ASSUME ProcInv, WriteLine \/ Answer \/ Exit \/ ReadLine \/ SeeEnd \/ Drain
  PROVE  ProcInv'
<1> USE CallersAssumption DEF ProcInv, Typed
<1>1. CASE WriteLine
  <2>1. Head(outbox) \in Mine /\ Tail(outbox) \in Seq(Mine)
    BY <1>1 DEF WriteLine
  <2>2. Waiters'
    BY <1>1 DEF WriteLine, Waiters
  <2> QED BY <1>1, <2>1, <2>2 DEF WriteLine, Numbers, Numbered, AnswerIsMine, Mine, Answered
<1>2. CASE Answer
  <2>1. Mine \subseteq Answered /\ \A i \in Ids : <<i, Nobody>> \in Answered
    BY DEF Mine, Answered, Line
  <2>2. pipe' \in Seq(Answered)
    <3>1. \E l \in Answered : pipe' = Append(pipe, l)
      BY <1>2, <2>1 DEF Answer
    <3> QED BY <3>1
  <2>3. Waiters'
    BY <1>2 DEF Answer, Waiters
  <2> QED BY <1>2, <2>2, <2>3 DEF Answer, Numbers, Numbered, AnswerIsMine, Mine, Answered
<1>3. CASE ReadLine
  <2> DEFINE i == Head(pipe)[1]
             to == Head(pipe)[2]
  <2> USE <1>3 DEF ReadLine
  <2>1. Head(pipe) \in Answered /\ Tail(pipe) \in Seq(Answered)
    OBVIOUS
  <2>2. i \in Ids /\ to \in Callers \cup {Nobody} /\ (to = Nobody \/ id[to] = i) /\ i # 0
    BY <2>1 DEF Answered, Ids
  <2>3. CASE pending[i] = Nobody
    <3>1. Waiters'
      BY <2>3 DEF Waiters
    <3> QED BY <2>1, <2>3, <3>1 DEF Numbers, Numbered, AnswerIsMine, Mine, Answered
  <2>4. CASE pending[i] # Nobody
    <3> DEFINE c == pending[i]
               m == [by |-> "child", to |-> to]
    <3>1. c \in Callers /\ id[c] = i
      BY <2>2, <2>4 DEF Waiters
    <3>2. to \in {c, Nobody}
      BY <2>2, <3>1 DEF Numbers
    <3>3. mail' = [mail EXCEPT ![c] = m] /\ pending' = [pending EXCEPT ![i] = Nobody]
      BY <2>4 DEF Send
    <3>4. AnswerIsMine'
      BY <3>1, <3>2, <3>3 DEF AnswerIsMine
    <3>5. m # NoMail /\ m \in [by : {"child", "reader", Nobody}, to : Callers \cup {Nobody}]
      BY <2>2 DEF NoMail, Nobody
    <3>6. Waiters'
      BY <2>2, <3>1, <3>3, <3>5 DEF Waiters
    <3>7. Typed'
      BY <2>1, <2>2, <3>1, <3>3, <3>5 DEF Mine, Answered
    <3>8. Numbers'
      BY <2>2, <3>1, <3>3 DEF Numbers, Numbered
    <3> QED BY <3>4, <3>6, <3>7, <3>8
  <2> QED BY <2>3, <2>4
<1>4. CASE Exit
  <2>1. Waiters'
    BY <1>4 DEF Exit, Waiters
  <2> QED BY <1>4, <2>1 DEF Exit, Numbers, Numbered, AnswerIsMine, Mine, Answered
<1>5. CASE SeeEnd
  <2>1. Waiters'
    BY <1>5 DEF SeeEnd, Waiters
  <2> QED BY <1>5, <2>1 DEF SeeEnd, Numbers, Numbered, AnswerIsMine, Mine, Answered
<1>6. CASE Drain
  <2> USE <1>6 DEF Drain, Failed
  <2>1. /\ \A c \in Callers : (\E i \in Ids : pending[i] = c) => mail'[c] = Exited
        /\ \A c \in Callers : (\A i \in Ids : pending[i] # c) => mail'[c] = mail[c]
        /\ Exited # NoMail /\ Exited.to = Nobody
        /\ Exited \in [by : {"child", "reader", Nobody}, to : Callers \cup {Nobody}]
    BY DEF Exited, NoMail, Nobody
  <2>2. Typed'
    BY <2>1 DEF Mine, Answered
  <2>3. Numbers'
    BY <2>1 DEF Numbers, Numbered, Waiters, Ids
  <2>4. Waiters'
    <3>1. ASSUME NEW c \in Callers, at[c] \in {"inserted", "waiting"}, mail'[c] = NoMail
          PROVE  FALSE
      BY <2>1, <3>1 DEF Waiters, Numbers, Ids
    <3> QED BY <3>1 DEF Waiters
  <2>5. AnswerIsMine'
    BY <2>1 DEF AnswerIsMine
  <2> QED BY <2>2, <2>3, <2>4, <2>5
<1> QED BY <1>1, <1>2, <1>3, <1>4, <1>5, <1>6

LEMMA ProcStep == ASSUME ProcInv, [Next]_vars PROVE ProcInv'
<1>1. CASE UNCHANGED vars
  BY <1>1 DEF vars, ProcInv, Typed, Numbers, Numbered, Waiters, AnswerIsMine, Mine, Answered
<1> QED BY <1>1, CallerKeeps, ChildKeeps DEF Next

LEMMA ProcInit == Init => ProcInv
<1> SUFFICES ASSUME Init PROVE ProcInv
  OBVIOUS
<1> USE CallersAssumption DEF Init
<1>1. Cardinality(Callers) \in Nat
  BY FS_CardinalityType
<1>2. Typed
  BY <1>1 DEF Typed, Stages, NoMail
<1>3. Numbered = {}
  BY DEF Numbered
<1>4. Numbers
  BY <1>3, FS_EmptySet DEF Numbers
<1>5. Waiters /\ AnswerIsMine
  BY DEF Waiters, AnswerIsMine, NoMail
<1> QED BY <1>2, <1>4, <1>5 DEF ProcInv

\* Whatever the child writes, late, twice or under a number it made up, and
\* whenever it dies, no caller is handed what was said to another (call).
THEOREM AnswersAreMine == Spec => []AnswerIsMine
<1>1. ProcInv => AnswerIsMine
  BY DEF ProcInv
<1> QED BY <1>1, ProcInit, ProcStep, PTL DEF Spec

\* And when the pipe has ended nobody waits but who came late, and whatever is
\* in the table belongs to a call that runs or that was dropped (the reader).
THEOREM NobodyHangs == Spec => []NoneHangs
<1>1. ProcInv => NoneHangs
  <2> SUFFICES ASSUME ProcInv PROVE NoneHangs
    OBVIOUS
  <2>1. NothingLeft
    BY DEF ProcInv, Waiters, NothingLeft
  <2>2. ASSUME reader = "drained", NEW c \in Callers, at[c] = "waiting", mail[c] = NoMail
        PROVE  c \in late
    <3>1. id[c] \in Ids /\ pending[id[c]] = c
      BY <2>2 DEF ProcInv, Typed, Numbers, Waiters, Ids
    <3> QED BY <2>2, <3>1, CallersAssumption DEF ProcInv, Waiters
  <2> QED BY <2>1, <2>2 DEF NoneHangs, Woken
<1> QED BY <1>1, ProcInit, ProcStep, PTL DEF Spec

-----------------------------------------------------------------------------
(***************************************************************************)
(* OffStaysOff, for any number of requests, operations and instances.      *)
(*                                                                         *)
(* While it was turned off, either one request does so and every other is  *)
(* idle (TurningOff: what it has done so far), or none does and everything *)
(* that could start the plugin again finds it off: the entry, the set of   *)
(* ids, what a reload has read of them, and, unless the setting was listed *)
(* without it, the setting and what is about to be written there (Rest).   *)
(***************************************************************************)
Wheres ==
  {"idle", "looking", "enable", "disable", "taking", "resetting", "starting", "resolving",
   "calling", "remembering", "killing", "marking", "loading", "clearing", "spawning",
   "greeting", "failing", "replacing", "listing", "listed", "saving"}

\* Where requests are; an instance has a number above 0, and who holds one is
\* about to let it go.
Placed ==
  /\ where \in [Requests -> Wheres] /\ op \in [Requests -> Host!Ops]
  /\ held \in [Requests -> Nat] /\ seenOff \in [Requests -> BOOLEAN]
  /\ disabled \in BOOLEAN /\ saved \in BOOLEAN
  /\ inst \in Nat /\ started \in Nat /\ alive \subseteq Nat \ {0}
  /\ \A r \in Requests : held[r] # 0 => where[r] \in {"killing", "greeting", "calling"}

TurningOff(r) ==
  /\ state # "absent"
  /\ \A q \in Requests : q = r \/ Host!Idle(q)
  /\ where[r] \in {"disable", "taking", "killing", "marking", "clearing", "listed", "saving"}
  /\ where[r] # "disable" => disabled
  /\ where[r] \notin {"disable", "taking"} => inst = 0
  /\ where[r] \in {"clearing", "listed", "saving"} => state = "disabled"
  /\ where[r] \in {"listed", "saving"} => ~badges
  /\ where[r] = "saving" => seenOff[r]

\* What a request may be at while the plugin is off.
Harmless(r) ==
  \/ Host!Idle(r)
  \/ op[r] = "call" /\ where[r] = "looking"
  \/ op[r] = "shutdown" /\ where[r] \in {"taking", "killing"}
  \/ /\ op[r] = "reload"
     /\ where[r] \in {"taking", "killing", "loading", "replacing", "listing", "clearing"}
     /\ where[r] = "replacing" => seenOff[r]
  \/ /\ op[r] = "other" /\ where[r] \in {"clearing", "listed", "saving"}
     /\ where[r] = "saving" /\ off = "yes" => seenOff[r]

Rest ==
  /\ state \in {"disabled", "absent"} /\ inst = 0
  /\ disabled /\ ~badges /\ (off = "yes" => saved)
  /\ \A r \in Requests : Harmless(r) /\ held[r] = 0

OffInv ==
  off # "no" =>
    /\ \A r \in Requests : ~Host!Idle(r) /\ op[r] = "disable" => TurningOff(r)
    /\ ~Host!Doing("disable") => Rest

HostInv == Placed /\ OffInv

LEMMA StepPlaced == ASSUME Placed, NEW r \in Requests, Host!Step(r) \/ Host!Drop(r) PROVE Placed'
<1> USE DEF Placed, Wheres, Host!Ops, Host!Goes, Host!Holds, Host!Keep, Host!KeepSaved,
            Host!SetState, Host!AfterCall, Host!AfterStart, Host!AfterFailure, Host!LetGo,
            Host!entry, Host!local, Host!Instances
<1>1. CASE Host!Enable(r)
  BY <1>1 DEF Host!Enable
<1>2. CASE Host!Disable(r)
  BY <1>2 DEF Host!Disable
<1>3. CASE Host!Reset(r)
  BY <1>3 DEF Host!Reset
<1>4. CASE Host!Look(r)
  BY <1>4 DEF Host!Look
<1>5. CASE Host!Resolve(r)
  BY <1>5 DEF Host!Resolve
<1>6. CASE Host!CallEnds(r)
  BY <1>6 DEF Host!CallEnds
<1>7. CASE Host!Remember(r)
  BY <1>7 DEF Host!Remember
<1>8. CASE Host!Take(r)
  BY <1>8 DEF Host!Take
<1>9. CASE Host!Kill(r)
  BY <1>9 DEF Host!Kill
<1>10. CASE Host!Mark(r)
  BY <1>10 DEF Host!Mark
<1>11. CASE Host!Start(r)
  BY <1>11 DEF Host!Start
<1>12. CASE Host!Spawn(r)
  BY <1>12 DEF Host!Spawn
<1>13. CASE Host!SpawnFails(r)
  BY <1>13 DEF Host!SpawnFails
<1>14. CASE Host!GreetFails(r)
  BY <1>14 DEF Host!GreetFails
<1>15. CASE Host!MarkFailed(r)
  BY <1>15 DEF Host!MarkFailed
<1>16. CASE Host!Install(r)
  BY <1>16 DEF Host!Install
<1>17. CASE Host!LoadRead(r)
  BY <1>17 DEF Host!LoadRead
<1>18. CASE Host!LoadWrite(r)
  BY <1>18 DEF Host!LoadWrite
<1>19. CASE Host!LoadStart(r)
  BY <1>19 DEF Host!LoadStart
<1>20. CASE Host!ClearBadges(r)
  BY <1>20 DEF Host!ClearBadges
<1>21. CASE Host!ListDisabled(r)
  BY <1>21 DEF Host!ListDisabled
<1>22. CASE Host!SaveDisabled(r)
  BY <1>22 DEF Host!SaveDisabled
<1>23. CASE Host!Drop(r)
  BY <1>23 DEF Host!Drop
<1> QED
  BY <1>1, <1>2, <1>3, <1>4, <1>5, <1>6, <1>7, <1>8, <1>9, <1>10, <1>11, <1>12, <1>13, <1>14,
      <1>15, <1>16, <1>17, <1>18, <1>19, <1>20, <1>21, <1>22, <1>23 DEF Host!Step

LEMMA BeginPlaced ==
  ASSUME Placed, NEW r \in Requests, NEW o \in Host!Ops, Host!Begin(r, o) PROVE Placed'
BY DEF Host!Begin, Host!Idle, Placed, Wheres, Host!Ops, Host!Goes, Host!KeepSaved, Host!entry

LEMMA RestartPlaced == ASSUME Placed, Host!Restart PROVE Placed'
BY DEF Host!Restart, Placed, Wheres, Host!Ops, Host!Instances

LEMMA NextPlaced == ASSUME Placed, [Host!Next]_hostVars PROVE Placed'
<1>1. CASE UNCHANGED hostVars
  BY <1>1 DEF hostVars, Placed
<1>2. ASSUME NEW i \in Host!Instances, Host!Crash(i) PROVE Placed'
  BY <1>2 DEF Host!Crash, Placed, Host!entry, Host!local
<1> QED
  BY <1>1, <1>2, StepPlaced, BeginPlaced, RestartPlaced DEF Host!Next

\* A step of a request that turns the plugin off leaves it one step further,
\* or at rest.
LEMMA StepTurningOff ==
  ASSUME Placed, NEW r \in Requests, Host!Step(r), op[r] = "disable", TurningOff(r)
  PROVE  \/ TurningOff(r)' /\ ~Host!Idle(r)'
         \/ Rest'
<1> USE DEF Placed, Wheres, Host!Ops, Host!Goes, Host!Holds, Host!Keep, Host!KeepSaved,
            Host!SetState, Host!AfterCall, TurningOff, Rest, Harmless, Host!Idle, Host!entry
<1>1. CASE Host!Disable(r)
  BY <1>1 DEF Host!Disable
<1>2. CASE Host!Take(r)
  BY <1>2 DEF Host!Take
<1>3. CASE Host!Kill(r)
  BY <1>3 DEF Host!Kill
<1>4. CASE Host!Mark(r)
  BY <1>4 DEF Host!Mark
<1>5. CASE Host!ClearBadges(r)
  BY <1>5 DEF Host!ClearBadges
<1>6. CASE Host!ListDisabled(r)
  BY <1>6 DEF Host!ListDisabled
<1>7. CASE Host!SaveDisabled(r)
  BY <1>7 DEF Host!SaveDisabled
<1>8. CASE Host!Enable(r) \/ Host!Reset(r) \/ Host!Look(r) \/ Host!Resolve(r)
        \/ Host!CallEnds(r) \/ Host!Remember(r) \/ Host!Start(r) \/ Host!Spawn(r)
        \/ Host!SpawnFails(r) \/ Host!GreetFails(r) \/ Host!MarkFailed(r) \/ Host!Install(r)
        \/ Host!LoadRead(r) \/ Host!LoadWrite(r) \/ Host!LoadStart(r)
  BY <1>8 DEF Host!Enable, Host!Reset, Host!Look, Host!Resolve, Host!CallEnds, Host!Remember,
       Host!Start, Host!Spawn, Host!SpawnFails, Host!GreetFails, Host!MarkFailed, Host!Install,
       Host!LoadRead, Host!LoadWrite, Host!LoadStart
<1> QED
  BY <1>1, <1>2, <1>3, <1>4, <1>5, <1>6, <1>7, <1>8 DEF Host!Step

\* Whatever a request does while the plugin is off leaves it off.
LEMMA StepRest ==
  ASSUME Placed, Rest, NEW r \in Requests, Host!Step(r)
  PROVE  Rest'
<1> USE DEF Placed, Wheres, Host!Ops, Host!Goes, Host!Holds, Host!Keep, Host!KeepSaved,
            Host!SetState, Host!AfterCall, Host!Loaded, Rest, Harmless, Host!Idle, Host!entry
<1>1. CASE Host!Look(r)
  BY <1>1 DEF Host!Look
<1>2. CASE Host!Take(r)
  BY <1>2 DEF Host!Take
<1>3. CASE Host!Kill(r)
  BY <1>3 DEF Host!Kill
<1>4. CASE Host!LoadRead(r)
  BY <1>4 DEF Host!LoadRead
<1>5. CASE Host!LoadWrite(r)
  BY <1>5 DEF Host!LoadWrite
<1>6. CASE Host!LoadStart(r)
  BY <1>6 DEF Host!LoadStart
<1>7. CASE Host!ClearBadges(r)
  BY <1>7 DEF Host!ClearBadges
<1>9. CASE Host!ListDisabled(r)
  BY <1>9 DEF Host!ListDisabled
<1>10. CASE Host!SaveDisabled(r)
  BY <1>10 DEF Host!SaveDisabled
<1>8. CASE Host!Enable(r) \/ Host!Disable(r) \/ Host!Reset(r) \/ Host!Resolve(r)
        \/ Host!CallEnds(r) \/ Host!Remember(r) \/ Host!Mark(r) \/ Host!Start(r)
        \/ Host!Spawn(r) \/ Host!SpawnFails(r) \/ Host!GreetFails(r) \/ Host!MarkFailed(r)
        \/ Host!Install(r)
  BY <1>8 DEF Host!Enable, Host!Disable, Host!Reset, Host!Resolve, Host!CallEnds, Host!Remember,
       Host!Mark, Host!Start, Host!Spawn, Host!SpawnFails, Host!GreetFails, Host!MarkFailed,
       Host!Install
<1> QED
  BY <1>1, <1>2, <1>3, <1>4, <1>5, <1>6, <1>7, <1>8, <1>9, <1>10 DEF Host!Step

\* A request that takes a step was at work, and does what it did; only listing
\* what is turned off finds that the plugin is not among it.
LEMMA StepIsOfOne ==
  ASSUME NEW r \in Requests, Host!Step(r)
  PROVE  /\ ~Host!Idle(r) /\ op' = op
         /\ off' = off \/ (off = "yes" /\ off' = "unlisted")
BY DEF Host!Step, Host!Idle, Host!Keep, Host!Enable, Host!Disable, Host!Reset, Host!Look,
     Host!Resolve, Host!CallEnds, Host!Remember, Host!Take, Host!Kill, Host!Mark, Host!Start,
     Host!Spawn, Host!SpawnFails, Host!GreetFails, Host!MarkFailed, Host!Install, Host!LoadRead,
     Host!LoadWrite, Host!LoadStart, Host!ClearBadges, Host!ListDisabled, Host!SaveDisabled

LEMMA StepOff == ASSUME HostInv, NEW r \in Requests, Host!Step(r) PROVE OffInv'
<1> SUFFICES ASSUME off' # "no" PROVE OffInv'
  BY DEF OffInv
<1>1. off # "no" /\ op' = op /\ ~Host!Idle(r) /\ Placed'
  BY StepIsOfOne, StepPlaced DEF HostInv
<1>2. CASE Host!Doing("disable")
  <2>1. PICK q \in Requests : ~Host!Idle(q) /\ op[q] = "disable"
    BY <1>2 DEF Host!Doing
  <2>2. q = r /\ TurningOff(r)
    BY <1>1, <2>1 DEF HostInv, OffInv, TurningOff
  <2>3. CASE TurningOff(r)' /\ ~Host!Idle(r)'
    BY <1>1, <2>1, <2>2, <2>3 DEF OffInv, Host!Doing, TurningOff
  <2>4. CASE Rest'
    BY <1>1, <2>1, <2>2, <2>4 DEF OffInv, Host!Doing, Rest, Harmless
  <2> QED
    BY <2>1, <2>2, <2>3, <2>4, StepTurningOff DEF HostInv
<1>3. CASE ~Host!Doing("disable")
  <2>1. Rest'
    BY <1>1, <1>3, StepRest DEF HostInv, OffInv
  <2> QED
    BY <2>1 DEF OffInv, Rest, Harmless
<1> QED
  BY <1>2, <1>3

LEMMA DropOff == ASSUME HostInv, NEW r \in Requests, Host!Drop(r) PROVE OffInv'
<1> SUFFICES ASSUME off' # "no" PROVE OffInv'
  BY DEF OffInv
<1>1. off # "no" /\ off' = off /\ op[r] # "disable" /\ op' = op /\ ~Host!Idle(r)
  BY DEF Host!Drop
<1>2. ~Host!Doing("disable")
  BY <1>1 DEF HostInv, OffInv, Host!Doing, TurningOff
<1>3. Rest
  BY <1>1, <1>2 DEF HostInv, OffInv
<1>4. Rest'
  BY <1>1, <1>3 DEF Rest, Harmless, Host!Drop, Host!Goes, Host!Holds, HostInv, Placed, Host!Idle,
       Host!entry
<1> QED
  BY <1>4 DEF OffInv, Rest, Harmless

LEMMA BeginOff == ASSUME HostInv, NEW r \in Requests, NEW o \in Host!Ops, Host!Begin(r,
o) PROVE OffInv'
<1> SUFFICES ASSUME off' # "no" PROVE OffInv'
  BY DEF OffInv
<1> USE DEF HostInv, Placed, Host!Ops, Wheres
<1>1. CASE o = "disable"
  <2>1. /\ state' = state /\ state # "absent"
        /\ where' = [where EXCEPT ![r] = "disable"] /\ op' = [op EXCEPT ![r] = "disable"]
        /\ \A q \in Requests : Host!Idle(q)
    BY <1>1 DEF Host!Begin, Host!Goes, Host!entry
  <2>2. TurningOff(r)'
    BY <2>1 DEF TurningOff, Host!Idle
  <2>3. \A q \in Requests : ~Host!Idle(q)' => q = r
    BY <2>1 DEF Host!Idle
  <2>4. Host!Doing("disable")'
    BY <2>1 DEF Host!Doing, Host!Idle
  <2> QED
    BY <2>2, <2>3, <2>4 DEF OffInv
<1>2. CASE o # "disable"
  <2>1. off # "no" /\ off' = off /\ o # "enable" /\ Rest /\ Host!Idle(r)
    BY <1>2 DEF Host!Begin, OffInv
  <2>2. Rest'
    BY <1>2, <2>1 DEF Host!Begin, Host!Goes, Host!KeepSaved, Rest, Harmless, Host!Idle,
         Host!Offered, Host!entry
  <2> QED
    BY <2>2 DEF OffInv, Rest, Harmless
<1> QED
  BY <1>1, <1>2

LEMMA RestartOff == ASSUME HostInv, Host!Restart PROVE OffInv'
<1> SUFFICES ASSUME off' # "no" PROVE OffInv'
  BY DEF OffInv
<1>1. off = "yes" /\ Rest
  BY DEF Host!Restart, HostInv, OffInv
<1>2. Rest'
  BY <1>1 DEF Host!Restart, Rest, Harmless, Host!Idle
<1> QED
  BY <1>2 DEF OffInv, Rest, Harmless

LEMMA HostStep == HostInv /\ [Host!Next]_hostVars => HostInv'
<1> SUFFICES ASSUME HostInv, [Host!Next]_hostVars PROVE HostInv'
  OBVIOUS
<1>1. Placed'
  BY NextPlaced DEF HostInv
<1>2. ASSUME UNCHANGED hostVars PROVE OffInv'
  BY <1>2 DEF hostVars, HostInv, OffInv, Host!Doing, Host!Idle, TurningOff, Rest, Harmless
<1>3. ASSUME NEW i \in Host!Instances, Host!Crash(i) PROVE OffInv'
  BY <1>3 DEF Host!Crash, Host!entry, Host!local, HostInv, OffInv, Host!Doing, Host!Idle,
       TurningOff, Rest, Harmless
<1> QED
  BY <1>1, <1>2, <1>3, StepOff, DropOff, BeginOff, RestartOff DEF Host!Next, HostInv

\* A plugin that was turned off stays off until it is turned on: nothing of it
\* runs and none of its badges is remembered, whatever is called, reloaded,
\* dropped or restarted (set_enabled, instance_of, load); or until a restart, if
\* another plugin was turned on or off while this one was not found.
THEOREM StaysOff == PluginsSpec => []OffStaysOff
<1>1. ASSUME Host!Init PROVE HostInv
  <2>1. disabled \in BOOLEAN /\ saved \in BOOLEAN /\ OffInv
    BY <1>1 DEF Host!Init, OffInv
  <2>2. Placed
    BY <1>1, <2>1 DEF Host!Init, Placed, Wheres, Host!Ops
  <2> QED
    BY <2>1, <2>2 DEF HostInv
<1>2. PluginsInit => HostInv
  BY <1>1 DEF PluginsInit
<1>3. [PluginsNext]_<<part, hostVars, vars>> => [Host!Next]_hostVars
  BY DEF PluginsNext, hostVars
<1>4. HostInv => OffStaysOff
  BY DEF HostInv, Placed, OffInv, OffStaysOff, Host!OffStaysOff, Rest, Host!Running, Host!Held
<1> QED
  BY <1>2, <1>3, <1>4, HostStep, PTL DEF PluginsSpec
=============================================================================
