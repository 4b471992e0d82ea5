-------------------------- MODULE Maintenance_proofs --------------------------
(***************************************************************************)
(* Proofs about the parts of MCMaintenance, for any bounds, days, months,  *)
(* lists of migrations, items, processes and ports: what the runs check on *)
(* small instances holds of all of them.  A step of the whole is a step of *)
(* each part or leaves it as it is, so that each part is proved on its     *)
(* own, with what it takes to be inductive stated before it.               *)
(***************************************************************************)
EXTENDS MCMaintenance, FiniteSetTheorems, NaturalsInduction, WellFoundedInduction, TLAPS

all == <<part, taskVars, archiveVars, backupVars, migrationVars, lockVars, portVars, stops>>

\* A set of numbers that is not empty has a least.
LEMMA Smallest ==
  ASSUME NEW S, S \subseteq Nat, S # {}
  PROVE  \E m \in S : \A k \in S : m <= k
<1>1. IsWellFoundedOn(OpToRel(<, Nat), Nat)
  BY NatLessThanWellFounded
<1>2. \E x \in S : \A y \in S : ~ (<<y, x>> \in OpToRel(<, Nat))
  BY <1>1, WFMin
<1>3. ASSUME NEW x \in S, NEW y \in S, y < x PROVE <<y, x>> \in OpToRel(<, Nat)
  <2>1. <<y, x>> \in Nat \X Nat /\ <<y, x>>[1] = y /\ <<y, x>>[2] = x
    OBVIOUS
  <2>2. <<y, x>>[1] < <<y, x>>[2]
    BY <1>3
  <2> QED BY <2>1, <2>2 DEF OpToRel
<1>4. PICK x \in S : \A y \in S : ~ (<<y, x>> \in OpToRel(<, Nat))
  BY <1>2
<1>5. \A y \in S : ~ (y < x)
  BY <1>3, <1>4
<1>6. \A y \in S : x <= y
  BY <1>5
<1> QED BY <1>6

-----------------------------------------------------------------------------
(***************************************************************************)
(* The lock.  Whoever acts as a server, or tests the lock, owns it.        *)
(***************************************************************************)
LockTypes ==
  /\ doing \in [Procs -> {"none", "acquiring", "asking", "claiming", "testing", "refused",
                          "pointed", "writing", "serving", "told"}]
  /\ owner \in Procs \cup {Nobody}

OwnersAct ==
  /\ \A p \in Procs : doing[p] \in {"claiming", "writing", "serving", "testing"} => owner = p
  /\ \A p \in Procs : doing[p] = "serving" => line \in {p, Nobody}

LockInv == LockTypes /\ OwnersAct

LEMMA LockInit == Lock!Init => LockInv
BY DEF Lock!Init, LockInv, LockTypes, OwnersAct

\* Each process by itself: what the step of one does to the others is to keep
\* the lock from them, or to release it.
LEMMA LockStep == LockInv /\ [Lock!Next]_lockVars => LockInv'
<1> SUFFICES ASSUME LockInv, [Lock!Next]_lockVars PROVE LockInv'
  OBVIOUS
<1> USE MaintenanceAssumption DEF LockInv, LockTypes, OwnersAct, Lock!Does
<1>1. ASSUME NEW p \in Procs, NEW what \in {"server", "question"}, Lock!Start(p, what) PROVE LockInv'
  <2>1. doing[p] = "none" /\ UNCHANGED <<line, owner>>
        /\ \/ doing' = [doing EXCEPT ![p] = "acquiring"] \/ doing' = [doing EXCEPT ![p] = "asking"]
           \/ doing' = [doing EXCEPT ![p] = "told"]
    BY <1>1 DEF Lock!Start
  <2> QED
    BY <2>1
<1>2. ASSUME NEW p \in Procs, Lock!TryLock(p) PROVE LockInv'
  <2>1. CASE Lock!Free(p)
    BY <1>2, <2>1 DEF Lock!TryLock, Lock!Free
  <2>2. CASE ~Lock!Free(p)
    BY <1>2, <2>2 DEF Lock!TryLock
  <2> QED
    BY <2>1, <2>2
<1>3. ASSUME NEW p \in Procs, Lock!GiveBack(p) \/ Lock!ReadLine(p) PROVE LockInv'
  BY <1>3 DEF Lock!GiveBack, Lock!ReadLine
<1>4. ASSUME NEW p \in Procs, Lock!Empty(p) \/ Lock!Write(p) PROVE LockInv'
  BY <1>4 DEF Lock!Empty, Lock!Write
<1>5. ASSUME NEW p \in Procs, Lock!End(p) PROVE LockInv'
  BY <1>5 DEF Lock!End
<1>6. CASE UNCHANGED lockVars
  BY <1>6 DEF lockVars
<1> QED
  BY <1>1, <1>2, <1>3, <1>4, <1>5, <1>6 DEF Lock!Next

LEMMA OwnerServes == LockInv => Lock!OneServer
<1> SUFFICES ASSUME LockInv PROVE Lock!OneServer
  OBVIOUS
<1>1. Lock!Servers \subseteq {owner}
  BY DEF LockInv, OwnersAct, Lock!Servers
<1>2. IsFiniteSet({owner}) /\ Cardinality({owner}) = 1
  BY FS_Singleton
<1>3. Cardinality(Lock!Servers) <= 1
  BY <1>1, <1>2, FS_Subset
<1> QED
  BY <1>3 DEF LockInv, OwnersAct, Lock!OneServer, Lock!Cardinality, Cardinality

-----------------------------------------------------------------------------
(***************************************************************************)
(* The browser's port.  A listener is the one that is known, one that was  *)
(* let go of, or one that a request holds and has yet to record.           *)
(***************************************************************************)
Holding == {c \in Port!Callers : portAt[c] \in {"replacing", "recording"}}

PortTypes ==
  /\ portAt = [c \in Port!Callers |-> portAt[c]] /\ asked = [c \in Port!Callers |-> asked[c]]

HeldPorts ==
  /\ listeners \cap others = {}
  /\ port # Off => port \in listeners
  /\ \A c \in Port!Callers : portAt[c] = "binding" => asked[c] # Off
  /\ \A c \in Holding : asked[c] \in listeners /\ asked[c] # port /\ asked[c] # Off
  /\ \A c, d \in Holding : asked[c] = asked[d] => c = d
  /\ listeners \subseteq {port} \cup stray \cup {asked[c] : c \in Holding}

PortInv == PortTypes /\ HeldPorts

LEMMA PortInit == Port!Init => PortInv
BY DEF Port!Init, PortInv, PortTypes, HeldPorts, Holding

\* A request at a time.  A bound port is nobody else's, so that what another
\* request stops or records in between is not it.
LEMMA PortStep == PortInv /\ [Port!Next]_portVars => PortInv'
<1> SUFFICES ASSUME PortInv, [Port!Next]_portVars PROVE PortInv'
  OBVIOUS
<1> USE DEF PortInv, PortTypes, Port!Goes
<1>1. ASSUME NEW p \in Ports, Port!Other(p) PROVE PortInv'
  BY <1>1 DEF Port!Other, HeldPorts, Holding
<1>2. ASSUME NEW c \in Askers, NEW p \in Ports \cup {Off}, Port!Put(c, p) PROVE PortInv'
  <2>1. c \in Port!Callers /\ c \notin Holding /\ Holding' = Holding
    BY <1>2 DEF Port!Put, Port!Callers, Holding
  <2>2. \A d \in Port!Callers \ {c} : asked'[d] = asked[d] /\ portAt'[d] = portAt[d]
    BY <1>2, <2>1 DEF Port!Put
  <2>3. PortTypes'
    BY <1>2 DEF Port!Put
  <2>4. {asked'[d] : d \in Holding'} = {asked[d] : d \in Holding}
    BY <2>1, <2>2 DEF Holding
  <2>5. portAt'[c] = "binding" => asked'[c] # Off
    BY <1>2, <2>1 DEF Port!Put
  <2>6. UNCHANGED <<listeners, others, port, stray>>
    BY <1>2 DEF Port!Put
  <2> QED
    BY <2>1, <2>2, <2>3, <2>4, <2>5, <2>6 DEF HeldPorts, Holding
<1>3. CASE Port!StartUp
  <2>1. "start" \in Port!Callers /\ "start" \notin Holding /\ Holding' = Holding
    BY <1>3 DEF Port!StartUp, Port!Callers, Holding
  <2>2. \A d \in Port!Callers \ {"start"} : asked'[d] = asked[d] /\ portAt'[d] = portAt[d]
    BY <1>3, <2>1 DEF Port!StartUp
  <2>3. portAt' = [d \in Port!Callers |-> portAt'[d]] /\ asked' = [d \in Port!Callers |-> asked'[d]]
    BY <1>3 DEF Port!StartUp
  <2>4. {asked'[d] : d \in Holding'} = {asked[d] : d \in Holding}
    BY <2>1, <2>2 DEF Holding
  <2>5. portAt'["start"] = "binding" => asked'["start"] # Off
    BY <1>3, <2>1 DEF Port!StartUp
  <2>6. UNCHANGED <<listeners, others, port, stray>>
    BY <1>3 DEF Port!StartUp
  <2> QED
    BY <2>1, <2>2, <2>3, <2>4, <2>5, <2>6 DEF HeldPorts, Holding
<1>4. CASE Port!Restart
  <2>1. /\ listeners' = {} /\ port' = Off
        /\ portAt' = [c \in Port!Callers |-> IF c = "start" THEN "up" ELSE "idle"]
        /\ UNCHANGED asked
    BY <1>4 DEF Port!Restart
  <2>2. Holding' = {}
    BY <2>1 DEF Holding
  <2> QED
    BY <2>1, <2>2 DEF HeldPorts
<1>5. ASSUME NEW c \in Port!Callers, Port!Bind(c) PROVE PortInv'
  <2>1. CASE Port!Bound(c)
    <3>1. /\ portAt[c] = "binding" /\ asked[c] \notin listeners /\ asked[c] \notin others
          /\ listeners' = listeners \cup {asked[c]} /\ portAt' = [portAt EXCEPT ![c] = "replacing"]
          /\ UNCHANGED <<others, port, asked, stray>>
      BY <1>5, <2>1 DEF Port!Bind, Port!Bound
    <3>2. Holding' = Holding \cup {c} /\ c \notin Holding
      BY <3>1 DEF Holding
    <3> QED
      BY <3>1, <3>2 DEF HeldPorts
  <2>2. CASE ~Port!Bound(c)
    <3>1. /\ portAt[c] = "binding" /\ portAt' = [portAt EXCEPT ![c] = "idle"]
          /\ UNCHANGED <<listeners, others, port, asked, stray>>
      BY <1>5, <2>2 DEF Port!Bind
    <3>2. Holding' = Holding
      BY <3>1 DEF Holding
    <3> QED
      BY <3>1, <3>2 DEF HeldPorts
  <2> QED
    BY <2>1, <2>2
<1>6. ASSUME NEW c \in Port!Callers, Port!Replace(c) PROVE PortInv'
  <2>1. /\ portAt[c] = "replacing" /\ listeners' = listeners \ {port} /\ port' = Off
        /\ portAt' = [portAt EXCEPT ![c] = "recording"] /\ UNCHANGED <<others, asked, stray>>
    BY <1>6 DEF Port!Replace
  <2>2. Holding' = Holding
    BY <2>1 DEF Holding
  <2> QED
    BY <2>1, <2>2 DEF HeldPorts
<1>7. ASSUME NEW c \in Port!Callers, Port!Record(c) PROVE PortInv'
  <2>1. /\ portAt[c] = "recording" /\ port' = asked[c] /\ stray' = stray \cup ({port} \cap listeners)
        /\ \/ portAt' = [portAt EXCEPT ![c] = "idle"] \/ portAt' = [portAt EXCEPT ![c] = "wishing"]
        /\ UNCHANGED <<listeners, others, asked>>
    BY <1>7 DEF Port!Record
  <2>2. Holding' = Holding \ {c} /\ c \in Holding
    BY <2>1 DEF Holding
  <2> QED
    BY <2>1, <2>2 DEF HeldPorts
<1>8. ASSUME NEW c \in Port!Callers, Port!TurnOff(c) PROVE PortInv'
  <2>1. /\ portAt[c] = "stopping" /\ listeners' = listeners \ {port} /\ port' = Off
        /\ portAt' = [portAt EXCEPT ![c] = "wishing"] /\ UNCHANGED <<others, asked, stray>>
    BY <1>8 DEF Port!TurnOff
  <2>2. Holding' = Holding
    BY <2>1 DEF Holding
  <2> QED
    BY <2>1, <2>2 DEF HeldPorts
<1>9. ASSUME NEW c \in Port!Callers, Port!Wish(c) \/ Port!Store(c) PROVE PortInv'
  <2>1. /\ portAt[c] \in {"wishing", "storing"} /\ UNCHANGED <<listeners, others, port, asked, stray>>
        /\ \/ portAt' = [portAt EXCEPT ![c] = "storing"] \/ portAt' = [portAt EXCEPT ![c] = "idle"]
    BY <1>9 DEF Port!Wish, Port!Store
  <2>2. Holding' = Holding
    BY <2>1 DEF Holding
  <2> QED
    BY <2>1, <2>2 DEF HeldPorts
<1>10. CASE UNCHANGED portVars
  BY <1>10 DEF portVars, HeldPorts, Holding
<1> QED
  BY <1>1, <1>2, <1>3, <1>4, <1>5, <1>6, <1>7, <1>8, <1>9, <1>10 DEF Port!Next

LEMMA HeldIsBound == PortInv => Port!StatusIsBound
<1> SUFFICES ASSUME PortInv PROVE Port!StatusIsBound
  OBVIOUS
<1>1. Port!Resting => Holding = {}
  BY DEF Port!Resting, Holding
<1> QED
  BY <1>1 DEF PortInv, HeldPorts, Port!StatusIsBound

\* acquire, start, connector_status: one server for a directory, whose address
\* or nothing is in the lock file; and a port that is shown is listened on.
THEOREM AddressesAreTrue == Spec => []AddressIsTrue
<1>1. Init => LockInv /\ PortInv
  BY LockInit, PortInit DEF Init
<1>2. [Next]_all => [Lock!Next]_lockVars /\ [Port!Next]_portVars
  BY DEF Next, all
<1>3. LockInv /\ PortInv => AddressIsTrue
  BY OwnerServes, HeldIsBound DEF AddressIsTrue
<1> QED
  BY <1>1, <1>2, <1>3, LockStep, PortStep, PTL DEF Spec, all

-----------------------------------------------------------------------------
(***************************************************************************)
(* Tasks.  A job is at work exactly while its task is shown as running,    *)
(* and its record says running until its end is saved.                     *)
(***************************************************************************)
TaskTypes ==
  /\ up \in BOOLEAN
  /\ memory \in [Jobs!Ids -> Jobs!Phases] /\ records \in [Jobs!Ids -> Jobs!Phases]
  /\ at \in [Jobs!Ids -> {"none", "saving", "inserting", "working", "ending", "telling",
                          "pruning", "deleting", "over"}]
  /\ ends = [i \in Jobs!Ids |-> ends[i]]
  /\ stamp \in [Jobs!Ids -> Nat] /\ clock \in Nat

\* What is known of a task at each place of its job.
JobsAre ==
  \A i \in Jobs!Ids :
    /\ at[i] \in {"none", "saving", "inserting"} => memory[i] = "absent"
    /\ at[i] \in {"none", "saving"} => records[i] = "absent"
    /\ at[i] \in {"inserting", "working", "ending"} => records[i] \in {"running", "absent"}
    /\ at[i] \in {"working", "ending", "telling"} <=> memory[i] = "running"
    /\ at[i] \in {"ending", "telling"} => ends[i] \in Jobs!Ended
    /\ at[i] = "telling" /\ records[i] # "absent" => Jobs!Recovered(records[i]) = ends[i]
    /\ ~up => at[i] \in {"none", "over"}

TaskInv == TaskTypes /\ JobsAre /\ Jobs!EndIsFinal /\ Jobs!HistoryBounded

Pruning == {i \in Jobs!Ids : at[i] = "pruning"}

\* The number of a set, as the module of tasks and this one have it.
LEMMA SameCount == /\ \A S : Jobs!Cardinality(S) = Cardinality(S)
                   /\ Keep \in Nat
BY MaintenanceAssumption DEF Jobs!Cardinality, Cardinality

LEMMA TasksFinite == \A S : S \subseteq Jobs!Ids => IsFiniteSet(S) /\ Cardinality(S) \in Nat
<1>1. IsFiniteSet(Jobs!Ids)
  BY MaintenanceAssumption, FS_Interval DEF Jobs!Ids
<1> QED
  BY <1>1, FS_Subset, FS_CardinalityType

\* What is left when the old ones are pruned: the oldest of these has all the
\* others after it.
LEMMA FewAreLeft == TaskTypes => Cardinality(Jobs!Finished \ Jobs!Pruned) <= Keep
<1> SUFFICES ASSUME TaskTypes PROVE Cardinality(Jobs!Finished \ Jobs!Pruned) <= Keep
  OBVIOUS
<1> DEFINE Newer(i) == {j \in Jobs!Finished : Jobs!Older(i, j)}
           R == {i \in Jobs!Finished : Cardinality(Newer(i)) < Keep}
           Oldest == {i \in R : \A j \in R : stamp[i] <= stamp[j]}
<1>0. Jobs!Finished \subseteq Jobs!Ids /\ Jobs!Ids \subseteq Nat /\ \A i \in Jobs!Ids : stamp[i] \in Nat
  BY DEF Jobs!Finished, Jobs!Ids, TaskTypes
<1>1. \A i \in Jobs!Finished : Cardinality(Newer(i)) \in Nat
  BY <1>0, TasksFinite
<1>2. Jobs!Finished \ Jobs!Pruned = R
  BY <1>1, SameCount DEF Jobs!Pruned
<1>3. CASE R = {}
  <2>1. Jobs!Finished \ Jobs!Pruned = {} /\ Cardinality({}) = 0
    BY <1>2, <1>3, FS_EmptySet
  <2> QED
    BY <2>1, SameCount
<1>4. CASE R # {}
  <2>1. PICK s \in {stamp[i] : i \in R} : \A k \in {stamp[i] : i \in R} : s <= k
    BY <1>0, <1>4, Smallest
  <2>2. Oldest # {} /\ Oldest \subseteq Nat
    <3>1. PICK i \in R : stamp[i] = s
      BY <2>1
    <3>2. i \in Oldest
      BY <2>1, <3>1
    <3> QED
      BY <1>0, <3>2
  <2>3. PICK m \in Oldest : \A k \in Oldest : m <= k
    BY <2>2, Smallest
  <2>4. \A k \in R \ {m} : Jobs!Older(m, k)
    <3> SUFFICES ASSUME NEW k \in R \ {m} PROVE stamp[m] < stamp[k] \/ (stamp[m] = stamp[k] /\ m < k)
      BY DEF Jobs!Older
    <3>1. m \in Nat /\ k \in Nat /\ stamp[m] \in Nat /\ stamp[k] \in Nat /\ stamp[m] <= stamp[k]
      BY <1>0, <2>3
    <3>2. CASE stamp[m] = stamp[k]
      <4>1. k \in Oldest
        BY <2>3, <3>2
      <4>2. m <= k /\ m # k
        BY <2>3, <4>1
      <4> QED
        BY <3>1, <3>2, <4>2
    <3>3. CASE stamp[m] # stamp[k]
      BY <3>1, <3>3
    <3> QED
      BY <3>2, <3>3
  <2>5. m \in R /\ R \ {m} \subseteq Newer(m) /\ Newer(m) \subseteq Jobs!Ids /\ R \subseteq Jobs!Ids
    BY <1>0, <2>3, <2>4
  <2> HIDE DEF R, Newer, Oldest
  <2>6. IsFiniteSet(Newer(m)) /\ IsFiniteSet(R) /\ Cardinality(R) \in Nat /\ Cardinality(Newer(m)) \in Nat
    BY <2>5, TasksFinite
  <2>7. Cardinality(R \ {m}) = Cardinality(R) - 1
    BY <2>5, <2>6, FS_RemoveElement
  <2>8. Cardinality(R \ {m}) <= Cardinality(Newer(m))
    BY <2>5, <2>6, FS_Subset
  <2>9. Cardinality(Newer(m)) < Keep
    BY <2>5 DEF R
  <2> QED
    BY <1>2, <2>6, <2>7, <2>8, <2>9, SameCount
<1> QED
  BY <1>3, <1>4

LEMMA TaskInit == Jobs!Init => TaskInv
<1> SUFFICES ASSUME Jobs!Init PROVE TaskInv
  OBVIOUS
<1>1. TaskTypes /\ JobsAre /\ Jobs!EndIsFinal
  BY DEF Jobs!Init, TaskTypes, JobsAre, Jobs!EndIsFinal, Jobs!Phases, Jobs!Ended, Jobs!Absent
<1>2. Jobs!Finished = {} /\ Pruning = {}
  BY DEF Jobs!Init, Jobs!Finished, Pruning, Jobs!Ended, Jobs!Absent
<1>3. Jobs!HistoryBounded
  BY <1>2, FS_EmptySet, SameCount DEF Jobs!HistoryBounded, Pruning
<1> QED
  BY <1>1, <1>3 DEF TaskInv

\* The history stays bounded when at most those that come to be pruned are more.
LEMMA HistoryStays ==
  ASSUME TaskTypes, Jobs!HistoryBounded,
         up' => up /\ Pruning' = Pruning /\ Jobs!Finished' \subseteq Jobs!Finished
  PROVE  Jobs!HistoryBounded'
<1> SUFFICES ASSUME up' PROVE Cardinality(Jobs!Finished') <= Keep + Cardinality(Pruning')
  BY SameCount DEF Jobs!HistoryBounded, Pruning, Jobs!Ids
<1>1. Jobs!Finished \subseteq Jobs!Ids /\ Pruning \subseteq Jobs!Ids
  BY DEF Jobs!Finished, Pruning
<1>2. Cardinality(Jobs!Finished) <= Keep + Cardinality(Pruning)
  BY SameCount DEF Jobs!HistoryBounded, Pruning
<1>3. Cardinality(Jobs!Finished') <= Cardinality(Jobs!Finished)
  BY <1>1, TasksFinite, FS_Subset
<1>4. Cardinality(Jobs!Finished') \in Nat
  BY <1>1, TasksFinite
<1> QED
  BY <1>1, <1>2, <1>3, <1>4, TasksFinite, SameCount

\* A step of a job at a place that says nothing of the end of its task.
JobAt(i, here, there) == at[i] = here /\ at' = [at EXCEPT ![i] = there]

LEMMA JobMoves ==
  ASSUME TaskInv, NEW i \in Jobs!Ids, NEW here, NEW there, JobAt(i, here, there),
         there \in {"saving", "inserting", "working", "ending", "telling", "deleting", "over"},
         here # "pruning", UNCHANGED memory
  PROVE  /\ at' \in [Jobs!Ids -> {"none", "saving", "inserting", "working", "ending", "telling",
                                  "pruning", "deleting", "over"}]
         /\ at'[i] = there /\ \A j \in Jobs!Ids \ {i} : at'[j] = at[j]
         /\ Pruning' = Pruning /\ Jobs!Finished' = Jobs!Finished
<1>1. /\ at' \in [Jobs!Ids -> {"none", "saving", "inserting", "working", "ending", "telling",
                               "pruning", "deleting", "over"}]
      /\ at'[i] = there /\ \A j \in Jobs!Ids \ {i} : at'[j] = at[j]
  BY DEF TaskInv, TaskTypes, JobAt
<1>2. at'[i] # "pruning" /\ at[i] # "pruning"
  BY <1>1 DEF JobAt
<1>3. \A j \in Jobs!Ids : at'[j] = "pruning" <=> at[j] = "pruning"
  BY <1>1, <1>2
<1> QED
  BY <1>1, <1>3 DEF Pruning, Jobs!Finished, Jobs!Ids, Jobs!Ended

LEMMA AskKeeps ==
  ASSUME TaskInv, NEW i \in Jobs!Ids, NEW k \in Jobs!Kinds, Jobs!Ask(i, k) PROVE TaskInv'
<1>1. /\ up /\ JobAt(i, "none", "saving") /\ UNCHANGED <<up, memory, records, stamp, ends, clock>>
  BY DEF Jobs!Ask, Jobs!Goes, Jobs!Registry, JobAt
<1>2. /\ at' \in [Jobs!Ids -> {"none", "saving", "inserting", "working", "ending", "telling",
                               "pruning", "deleting", "over"}]
      /\ at[i] = "none" /\ at'[i] = "saving" /\ \A j \in Jobs!Ids \ {i} : at'[j] = at[j]
      /\ Pruning' = Pruning /\ Jobs!Finished' = Jobs!Finished
  BY <1>1, JobMoves DEF JobAt
<1>3. TaskTypes'
  BY <1>1, <1>2 DEF TaskInv, TaskTypes, Jobs!Ids, Jobs!Phases, Jobs!Ended, Jobs!Absent
<1>4. JobsAre'
  BY <1>1, <1>2 DEF TaskInv, JobsAre, Jobs!Ids, Jobs!Ended, Jobs!Recovered
<1>5. Jobs!EndIsFinal'
  BY <1>1 DEF TaskInv, Jobs!EndIsFinal, Jobs!Ids, Jobs!Ended, Jobs!Recovered, Jobs!Absent
<1>6. Jobs!HistoryBounded'
  BY <1>1, <1>2, HistoryStays DEF TaskInv
<1> QED
  BY <1>3, <1>4, <1>5, <1>6 DEF TaskInv

LEMMA SaveStartKeeps == ASSUME TaskInv, NEW i \in Jobs!Ids, Jobs!SaveStart(i) PROVE TaskInv'
<1>1. PICK there \in {"inserting", "over"} :
        /\ JobAt(i, "saving", there) /\ UNCHANGED <<up, memory, stamp, ends, clock>>
        /\ \/ there = "inserting" /\ records' = [records EXCEPT ![i] = "running"]
           \/ there = "over" /\ records' = records
  BY DEF Jobs!SaveStart, Jobs!Goes, JobAt
<1>2. /\ at' \in [Jobs!Ids -> {"none", "saving", "inserting", "working", "ending", "telling",
                               "pruning", "deleting", "over"}]
      /\ at[i] = "saving" /\ at'[i] = there /\ \A j \in Jobs!Ids \ {i} : at'[j] = at[j]
      /\ Pruning' = Pruning /\ Jobs!Finished' = Jobs!Finished
  BY <1>1, JobMoves DEF JobAt
<1>3. /\ records' \in [Jobs!Ids -> Jobs!Phases] /\ records'[i] \in {"running", "absent"}
      /\ \A j \in Jobs!Ids \ {i} : records'[j] = records[j]
      /\ memory[i] = "absent"
  BY <1>1, <1>2 DEF TaskInv, TaskTypes, JobsAre, Jobs!Phases, Jobs!Absent
<1>4. TaskTypes'
  BY <1>1, <1>2, <1>3 DEF TaskInv, TaskTypes, Jobs!Ids, Jobs!Phases, Jobs!Ended, Jobs!Absent
<1>5. JobsAre'
  BY <1>1, <1>2, <1>3 DEF TaskInv, JobsAre, Jobs!Ids, Jobs!Ended, Jobs!Recovered
<1>6. Jobs!EndIsFinal'
  BY <1>1, <1>3 DEF TaskInv, Jobs!EndIsFinal, Jobs!Ids, Jobs!Ended, Jobs!Recovered, Jobs!Absent
<1>7. Jobs!HistoryBounded'
  BY <1>1, <1>2, HistoryStays DEF TaskInv
<1> QED
  BY <1>4, <1>5, <1>6, <1>7 DEF TaskInv

LEMMA InsertKeeps == ASSUME TaskInv, NEW i \in Jobs!Ids, Jobs!Insert(i) PROVE TaskInv'
<1>1. /\ at[i] = "inserting" /\ at' = [at EXCEPT ![i] = "working"]
      /\ memory' = [memory EXCEPT ![i] = "running"] /\ UNCHANGED <<up, records, stamp, ends, clock>>
  BY DEF Jobs!Insert, Jobs!Goes
<1>2. /\ at'[i] = "working" /\ \A j \in Jobs!Ids \ {i} : at'[j] = at[j]
      /\ memory'[i] = "running" /\ \A j \in Jobs!Ids \ {i} : memory'[j] = memory[j]
      /\ memory[i] = "absent"
  BY <1>1 DEF TaskInv, TaskTypes, JobsAre
<1>3. Pruning' = Pruning /\ Jobs!Finished' = Jobs!Finished
  BY <1>1, <1>2 DEF Pruning, Jobs!Finished, Jobs!Ids, Jobs!Ended
<1>4. TaskTypes'
  BY <1>1 DEF TaskInv, TaskTypes, Jobs!Ids, Jobs!Phases, Jobs!Ended, Jobs!Absent
<1>5. JobsAre'
  BY <1>1, <1>2 DEF TaskInv, JobsAre, Jobs!Ids, Jobs!Ended, Jobs!Recovered
<1>6. Jobs!EndIsFinal'
  BY <1>1, <1>2 DEF TaskInv, Jobs!EndIsFinal, Jobs!Ids, Jobs!Ended, Jobs!Recovered, Jobs!Absent
<1>7. Jobs!HistoryBounded'
  BY <1>1, <1>3, HistoryStays DEF TaskInv
<1> QED
  BY <1>4, <1>5, <1>6, <1>7 DEF TaskInv

\* The work itself, and what it comes to.
LEMMA WorkKeeps ==
  ASSUME TaskInv, NEW i \in Jobs!Ids,
         Jobs!Notices(i) \/ Jobs!Step(i) \/ Jobs!Fails(i) \/ Jobs!Concludes(i)
  PROVE  TaskInv'
<1>1. CASE UNCHANGED <<at, ends>>
  <2>1. UNCHANGED <<up, memory, records, stamp, ends, clock, at>>
    BY <1>1 DEF Jobs!Notices, Jobs!Step, Jobs!Fails, Jobs!Concludes, Jobs!Ends, Jobs!Registry
  <2>2. Pruning' = Pruning /\ Jobs!Finished' = Jobs!Finished
    BY <2>1 DEF Pruning, Jobs!Finished, Jobs!Ids, Jobs!Ended
  <2>3. Jobs!HistoryBounded'
    BY <2>1, <2>2, HistoryStays DEF TaskInv
  <2> QED
    BY <2>1, <2>3 DEF TaskInv, TaskTypes, JobsAre, Jobs!EndIsFinal, Jobs!Ids, Jobs!Phases, Jobs!Ended,
                      Jobs!Absent, Jobs!Recovered
<1>2. CASE \E phase \in Jobs!Ended : at[i] = "working" /\ Jobs!Ends(i, phase)
  <2>1. PICK phase \in Jobs!Ended :
          /\ JobAt(i, "working", "ending") /\ ends' = [ends EXCEPT ![i] = phase]
          /\ UNCHANGED <<up, memory, records, stamp, clock>>
    BY <1>2 DEF Jobs!Ends, Jobs!Goes, Jobs!Registry, JobAt
  <2>2. /\ at' \in [Jobs!Ids -> {"none", "saving", "inserting", "working", "ending", "telling",
                                 "pruning", "deleting", "over"}]
        /\ at[i] = "working" /\ at'[i] = "ending" /\ \A j \in Jobs!Ids \ {i} : at'[j] = at[j]
        /\ Pruning' = Pruning /\ Jobs!Finished' = Jobs!Finished
    BY <2>1, JobMoves DEF JobAt
  <2>3. ends' = [j \in Jobs!Ids |-> ends'[j]] /\ ends'[i] = phase /\ \A j \in Jobs!Ids \ {i} : ends'[j] = ends[j]
    BY <2>1 DEF TaskInv, TaskTypes
  <2>4. TaskTypes'
    BY <2>1, <2>2, <2>3 DEF TaskInv, TaskTypes, Jobs!Ids, Jobs!Phases, Jobs!Ended, Jobs!Absent
  <2>5. JobsAre'
    BY <2>1, <2>2, <2>3 DEF TaskInv, JobsAre, Jobs!Ids, Jobs!Ended, Jobs!Recovered
  <2>6. Jobs!EndIsFinal'
    BY <2>1 DEF TaskInv, Jobs!EndIsFinal, Jobs!Ids, Jobs!Ended, Jobs!Recovered, Jobs!Absent
  <2>7. Jobs!HistoryBounded'
    BY <2>1, <2>2, HistoryStays DEF TaskInv
  <2> QED
    BY <2>4, <2>5, <2>6, <2>7 DEF TaskInv
<1> QED
  BY <1>1, <1>2 DEF Jobs!Notices, Jobs!Step, Jobs!Fails, Jobs!Concludes, Jobs!Ended

\* What could not be saved is told as failed, as it will be read when it is
\* recovered.
LEMMA SaveEndKeeps == ASSUME TaskInv, NEW i \in Jobs!Ids, Jobs!SaveEnd(i) PROVE TaskInv'
<1>1. PICK saved \in BOOLEAN :
        /\ JobAt(i, "ending", "telling") /\ stamp' = [stamp EXCEPT ![i] = clock]
        /\ records' = IF saved THEN [records EXCEPT ![i] = ends[i]] ELSE records
        /\ ends' = [ends EXCEPT ![i] = IF saved THEN ends[i] ELSE "failed"]
        /\ UNCHANGED <<up, memory, clock>>
  BY DEF Jobs!SaveEnd, Jobs!Goes, JobAt, Jobs!Told
<1>2. /\ at' \in [Jobs!Ids -> {"none", "saving", "inserting", "working", "ending", "telling",
                               "pruning", "deleting", "over"}]
      /\ at[i] = "ending" /\ at'[i] = "telling" /\ \A j \in Jobs!Ids \ {i} : at'[j] = at[j]
      /\ Pruning' = Pruning /\ Jobs!Finished' = Jobs!Finished
  BY <1>1, JobMoves DEF JobAt
<1>3. ends[i] \in Jobs!Ended /\ records[i] \in {"running", "absent"} /\ memory[i] = "running"
  BY <1>2 DEF TaskInv, JobsAre
<1>4. /\ ends' = [j \in Jobs!Ids |-> ends'[j]] /\ stamp' \in [Jobs!Ids -> Nat]
      /\ \A j \in Jobs!Ids \ {i} : ends'[j] = ends[j]
  BY <1>1 DEF TaskInv, TaskTypes
<1>5. /\ ends'[i] \in Jobs!Ended /\ records' \in [Jobs!Ids -> Jobs!Phases]
      /\ records'[i] # "absent" => Jobs!Recovered(records'[i]) = ends'[i]
      /\ \A j \in Jobs!Ids \ {i} : records'[j] = records[j]
  <2>1. CASE saved
    BY <1>1, <1>3, <2>1 DEF TaskInv, TaskTypes, Jobs!Phases, Jobs!Ended, Jobs!Recovered
  <2>2. CASE ~saved
    BY <1>1, <1>3, <2>2 DEF TaskInv, TaskTypes, Jobs!Phases, Jobs!Ended, Jobs!Recovered
  <2> QED
    BY <2>1, <2>2
<1>6. TaskTypes'
  BY <1>1, <1>2, <1>4, <1>5 DEF TaskInv, TaskTypes, Jobs!Ids, Jobs!Phases, Jobs!Ended, Jobs!Absent
<1>7. JobsAre'
  BY <1>1, <1>2, <1>3, <1>4, <1>5 DEF TaskInv, JobsAre, Jobs!Ids, Jobs!Ended, Jobs!Recovered
<1>8. Jobs!EndIsFinal'
  BY <1>1, <1>3, <1>5 DEF TaskInv, Jobs!EndIsFinal, Jobs!Ids, Jobs!Ended, Jobs!Recovered, Jobs!Absent
<1>9. Jobs!HistoryBounded'
  BY <1>1, <1>2, HistoryStays DEF TaskInv
<1> QED
  BY <1>6, <1>7, <1>8, <1>9 DEF TaskInv

\* One more has finished, and is about to prune.
LEMMA TellKeeps == ASSUME TaskInv, NEW i \in Jobs!Ids, Jobs!Tell(i) PROVE TaskInv'
<1>1. /\ at[i] = "telling" /\ at' = [at EXCEPT ![i] = "pruning"]
      /\ memory' = [memory EXCEPT ![i] = ends[i]] /\ UNCHANGED <<up, records, stamp, ends, clock>>
  BY DEF Jobs!Tell, Jobs!Goes
<1>2. /\ at'[i] = "pruning" /\ \A j \in Jobs!Ids \ {i} : at'[j] = at[j]
      /\ memory'[i] = ends[i] /\ \A j \in Jobs!Ids \ {i} : memory'[j] = memory[j]
      /\ ends[i] \in Jobs!Ended /\ memory[i] = "running" /\ up
      /\ records[i] # "absent" => Jobs!Recovered(records[i]) = ends[i]
  BY <1>1 DEF TaskInv, TaskTypes, JobsAre
<1>3. TaskTypes'
  BY <1>1, <1>2 DEF TaskInv, TaskTypes, Jobs!Ids, Jobs!Phases, Jobs!Ended, Jobs!Absent
<1>4. JobsAre'
  BY <1>1, <1>2 DEF TaskInv, JobsAre, Jobs!Ids, Jobs!Ended, Jobs!Recovered
<1>5. Jobs!EndIsFinal'
  BY <1>1, <1>2 DEF TaskInv, Jobs!EndIsFinal, Jobs!Ids, Jobs!Ended, Jobs!Recovered, Jobs!Absent
<1>6. Jobs!HistoryBounded'
  <2>1. /\ Pruning' = Pruning \cup {i} /\ i \notin Pruning
        /\ Jobs!Finished' = Jobs!Finished \cup {i} /\ i \notin Jobs!Finished
    BY <1>1, <1>2 DEF Pruning, Jobs!Finished, Jobs!Ids, Jobs!Ended
  <2>2. Jobs!Finished \subseteq Jobs!Ids /\ Pruning \subseteq Jobs!Ids
    BY DEF Jobs!Finished, Pruning
  <2>3. /\ Cardinality(Jobs!Finished') = Cardinality(Jobs!Finished) + 1
        /\ Cardinality(Pruning') = Cardinality(Pruning) + 1
    BY <2>1, <2>2, TasksFinite, FS_AddElement
  <2>4. Cardinality(Jobs!Finished) <= Keep + Cardinality(Pruning)
    BY <1>2, SameCount DEF TaskInv, Jobs!HistoryBounded, Pruning
  <2>5. Cardinality(Jobs!Finished) \in Nat /\ Cardinality(Pruning) \in Nat
    BY <2>2, TasksFinite
  <2>6. Cardinality(Jobs!Finished') <= Keep + Cardinality(Pruning')
    BY <2>3, <2>4, <2>5, SameCount
  <2> QED
    BY <2>6, SameCount DEF Jobs!HistoryBounded, Pruning, Jobs!Ids
<1> QED
  BY <1>3, <1>4, <1>5, <1>6 DEF TaskInv

\* Pruning leaves no more than are kept.
LEMMA PrunedKeeps ==
  ASSUME TaskInv, memory' = [j \in Jobs!Ids |-> IF j \in Jobs!Pruned THEN "absent" ELSE memory[j]]
  PROVE  /\ Jobs!HistoryBounded'
         /\ memory' \in [Jobs!Ids -> Jobs!Phases]
         /\ \A j \in Jobs!Ids : /\ memory'[j] = memory[j] \/ memory'[j] = "absent"
                                /\ memory[j] \notin Jobs!Ended => memory'[j] = memory[j]
<1>1. \A j \in Jobs!Ids : memory'[j] = IF j \in Jobs!Pruned THEN "absent" ELSE memory[j]
  OBVIOUS
<1>2. Jobs!Pruned \subseteq Jobs!Finished
  BY DEF Jobs!Pruned
<1>3. Jobs!Finished' = Jobs!Finished \ Jobs!Pruned
  BY <1>1 DEF Jobs!Finished, Jobs!Ids, Jobs!Ended
<1>4. Cardinality(Jobs!Finished') <= Keep
  BY <1>3, FewAreLeft DEF TaskInv
<1>5. Cardinality(Jobs!Finished') \in Nat /\ Cardinality(Pruning') \in Nat
  <2>1. Jobs!Finished' \subseteq Jobs!Ids /\ Pruning' \subseteq Jobs!Ids
    BY DEF Jobs!Finished, Pruning, Jobs!Ids
  <2> QED
    BY <2>1, TasksFinite
<1>6. Jobs!HistoryBounded'
  <2>1. Cardinality(Jobs!Finished') <= Keep + Cardinality(Pruning')
    BY <1>4, <1>5, SameCount
  <2> QED
    BY <2>1, SameCount DEF Jobs!HistoryBounded, Pruning, Jobs!Ids
<1>7. memory' \in [Jobs!Ids -> Jobs!Phases]
  BY <1>1 DEF TaskInv, TaskTypes, Jobs!Phases, Jobs!Absent
<1> QED
  BY <1>1, <1>2, <1>6, <1>7 DEF Jobs!Finished

LEMMA ForgetKeeps == ASSUME TaskInv, NEW i \in Jobs!Ids, Jobs!Forget(i) PROVE TaskInv'
<1>1. /\ at[i] = "pruning" /\ at' = [at EXCEPT ![i] = "deleting"]
      /\ memory' = [j \in Jobs!Ids |-> IF j \in Jobs!Pruned THEN "absent" ELSE memory[j]]
      /\ UNCHANGED <<up, records, stamp, ends, clock>>
  BY DEF Jobs!Forget, Jobs!Goes, Jobs!Absent
<1>2. at'[i] = "deleting" /\ \A j \in Jobs!Ids \ {i} : at'[j] = at[j]
  BY <1>1 DEF TaskInv, TaskTypes
<1>3. /\ Jobs!HistoryBounded' /\ memory' \in [Jobs!Ids -> Jobs!Phases]
      /\ \A j \in Jobs!Ids : /\ memory'[j] = memory[j] \/ memory'[j] = "absent"
                             /\ memory[j] \notin Jobs!Ended => memory'[j] = memory[j]
  BY <1>1, PrunedKeeps
<1>4. TaskTypes'
  BY <1>1, <1>3 DEF TaskInv, TaskTypes, Jobs!Ids, Jobs!Phases, Jobs!Ended, Jobs!Absent
<1>5. JobsAre'
  BY <1>1, <1>2, <1>3 DEF TaskInv, JobsAre, Jobs!Ids, Jobs!Ended, Jobs!Recovered
<1>6. Jobs!EndIsFinal'
  BY <1>1, <1>3 DEF TaskInv, Jobs!EndIsFinal, Jobs!Ids, Jobs!Ended, Jobs!Recovered, Jobs!Absent
<1> QED
  BY <1>3, <1>4, <1>5, <1>6 DEF TaskInv

LEMMA DeleteRecordsKeeps == ASSUME TaskInv, NEW i \in Jobs!Ids, Jobs!DeleteRecords(i) PROVE TaskInv'
<1>1. JobAt(i, "deleting", "over") /\ UNCHANGED <<up, memory, stamp, ends, clock>>
  BY DEF Jobs!DeleteRecords, Jobs!Goes, JobAt
<1>2. /\ at' \in [Jobs!Ids -> {"none", "saving", "inserting", "working", "ending", "telling",
                               "pruning", "deleting", "over"}]
      /\ at[i] = "deleting" /\ at'[i] = "over" /\ \A j \in Jobs!Ids \ {i} : at'[j] = at[j]
      /\ Pruning' = Pruning /\ Jobs!Finished' = Jobs!Finished
  BY <1>1, JobMoves DEF JobAt
<1>3. /\ records' \in [Jobs!Ids -> Jobs!Phases]
      /\ \A j \in Jobs!Ids : records'[j] = records[j] \/ records'[j] = "absent"
  BY DEF Jobs!DeleteRecords, TaskInv, TaskTypes, Jobs!Phases, Jobs!Absent
<1>4. TaskTypes'
  BY <1>1, <1>2, <1>3 DEF TaskInv, TaskTypes, Jobs!Ids, Jobs!Phases, Jobs!Ended, Jobs!Absent
<1>5. JobsAre'
  BY <1>1, <1>2, <1>3 DEF TaskInv, JobsAre, Jobs!Ids, Jobs!Ended, Jobs!Recovered
<1>6. Jobs!EndIsFinal'
  BY <1>1, <1>3 DEF TaskInv, Jobs!EndIsFinal, Jobs!Ids, Jobs!Ended, Jobs!Recovered, Jobs!Absent
<1>7. Jobs!HistoryBounded'
  BY <1>1, <1>2, HistoryStays DEF TaskInv
<1> QED
  BY <1>4, <1>5, <1>6, <1>7 DEF TaskInv

LEMMA TaskStep == TaskInv /\ [Jobs!Next]_taskVars => TaskInv'
<1> SUFFICES ASSUME TaskInv, [Jobs!Next]_taskVars PROVE TaskInv'
  OBVIOUS
<1>1. ASSUME UNCHANGED taskVars \/ Jobs!Tick \/ \E i \in Jobs!Ids : Jobs!Cancel(i) PROVE TaskInv'
  <2>1. UNCHANGED <<up, memory, records, stamp, at, ends>> /\ clock' \in Nat
    BY <1>1 DEF taskVars, Jobs!Tick, Jobs!Cancel, Jobs!job, TaskInv, TaskTypes
  <2>2. Pruning' = Pruning /\ Jobs!Finished' = Jobs!Finished
    BY <2>1 DEF Pruning, Jobs!Finished, Jobs!Ids, Jobs!Ended
  <2>3. Jobs!HistoryBounded'
    BY <2>1, <2>2, HistoryStays DEF TaskInv
  <2> QED
    BY <2>1, <2>3 DEF TaskInv, TaskTypes, JobsAre, Jobs!EndIsFinal, Jobs!Ids, Jobs!Phases, Jobs!Ended,
                      Jobs!Absent, Jobs!Recovered
<1>2. CASE Jobs!Stop
  <2>1. /\ up' = FALSE /\ memory' = [i \in Jobs!Ids |-> "absent"] /\ UNCHANGED <<records, stamp, clock>>
        /\ at' = [i \in Jobs!Ids |-> IF at[i] = "none" THEN "none" ELSE "over"]
        /\ ends' = [i \in Jobs!Ids |-> "absent"]
    BY <1>2 DEF Jobs!Stop, Jobs!Absent
  <2>2. TaskTypes'
    BY <2>1 DEF TaskInv, TaskTypes, Jobs!Ids, Jobs!Phases, Jobs!Ended, Jobs!Absent
  <2>3. JobsAre' /\ Jobs!EndIsFinal'
    BY <2>1 DEF TaskInv, JobsAre, Jobs!EndIsFinal, Jobs!Ids, Jobs!Ended, Jobs!Recovered, Jobs!Absent
  <2>4. Jobs!HistoryBounded'
    BY <2>1 DEF Jobs!HistoryBounded
  <2> QED
    BY <2>2, <2>3, <2>4 DEF TaskInv
<1>3. ASSUME NEW i \in Jobs!Ids, Jobs!Open(i) PROVE TaskInv'
  <2>1. /\ ~up /\ memory[i] = "absent" /\ records[i] # "absent" /\ UNCHANGED <<up, at, ends, clock>>
        /\ memory' = [memory EXCEPT ![i] = Jobs!Recovered(records[i])]
        /\ records' = [records EXCEPT ![i] = Jobs!Recovered(records[i])]
        /\ stamp' = stamp \/ stamp' = [stamp EXCEPT ![i] = clock]
    BY <1>3 DEF Jobs!Open, Jobs!job, Jobs!Absent
  <2>2. Jobs!Recovered(records[i]) \in Jobs!Ended
    BY <2>1 DEF TaskInv, TaskTypes, Jobs!Recovered, Jobs!Phases, Jobs!Ended, Jobs!Absent
  <2>3. /\ memory'[i] = Jobs!Recovered(records[i]) /\ \A j \in Jobs!Ids \ {i} : memory'[j] = memory[j]
        /\ records'[i] = memory'[i] /\ \A j \in Jobs!Ids \ {i} : records'[j] = records[j]
        /\ at[i] = "over"
    BY <2>1 DEF TaskInv, TaskTypes, JobsAre
  <2>4. TaskTypes'
    <3>1. stamp' \in [Jobs!Ids -> Nat]
      BY <2>1 DEF TaskInv, TaskTypes
    <3> QED
      BY <2>1, <2>2, <3>1 DEF TaskInv, TaskTypes, Jobs!Ids, Jobs!Phases, Jobs!Ended, Jobs!Absent
  <2>5. JobsAre'
    BY <2>1, <2>2, <2>3 DEF TaskInv, JobsAre, Jobs!Ids, Jobs!Ended, Jobs!Recovered
  <2>6. Jobs!EndIsFinal'
    BY <2>1, <2>2, <2>3 DEF TaskInv, Jobs!EndIsFinal, Jobs!Ids, Jobs!Ended, Jobs!Recovered, Jobs!Absent
  <2>7. Jobs!HistoryBounded'
    BY <2>1 DEF Jobs!HistoryBounded
  <2> QED
    BY <2>4, <2>5, <2>6, <2>7 DEF TaskInv
<1>4. CASE Jobs!Opened
  <2>1. /\ memory' = [j \in Jobs!Ids |-> IF j \in Jobs!Pruned THEN "absent" ELSE memory[j]]
        /\ ~up /\ up' = TRUE /\ UNCHANGED <<stamp, at, ends, clock>>
        /\ \/ records' = [j \in Jobs!Ids |-> IF j \in Jobs!Pruned THEN "absent" ELSE records[j]]
           \/ UNCHANGED records
    BY <1>4 DEF Jobs!Opened, Jobs!job, Jobs!Absent
  <2>2. /\ Jobs!HistoryBounded' /\ memory' \in [Jobs!Ids -> Jobs!Phases]
        /\ \A j \in Jobs!Ids : /\ memory'[j] = memory[j] \/ memory'[j] = "absent"
                               /\ memory[j] \notin Jobs!Ended => memory'[j] = memory[j]
    BY <2>1, PrunedKeeps
  <2>3. /\ records' \in [Jobs!Ids -> Jobs!Phases]
        /\ \A j \in Jobs!Ids : records'[j] = records[j] \/ records'[j] = "absent"
    BY <2>1 DEF TaskInv, TaskTypes, Jobs!Phases, Jobs!Absent
  <2>4. TaskTypes'
    BY <2>1, <2>2, <2>3 DEF TaskInv, TaskTypes, Jobs!Ids, Jobs!Phases, Jobs!Ended, Jobs!Absent
  <2>5. JobsAre'
    BY <2>1, <2>2, <2>3 DEF TaskInv, JobsAre, Jobs!Ids, Jobs!Ended, Jobs!Recovered
  <2>6. Jobs!EndIsFinal'
    BY <2>1, <2>2, <2>3 DEF TaskInv, Jobs!EndIsFinal, Jobs!Ids, Jobs!Ended, Jobs!Recovered, Jobs!Absent
  <2> QED
    BY <2>2, <2>4, <2>5, <2>6 DEF TaskInv
<1> QED
  BY <1>1, <1>2, <1>3, <1>4, AskKeeps, SaveStartKeeps, InsertKeeps, WorkKeeps, SaveEndKeeps, TellKeeps,
     ForgetKeeps, DeleteRecordsKeeps DEF Jobs!Next, Jobs!Runs

\* running, complete, open, prune: a task that is shown as running has a job
\* that runs, what was said of its end is never unsaid, and the history does
\* not grow, whatever could not be saved and wherever the server stopped.
THEOREM EndsAreTold == Spec => []TasksToldApart
<1>1. Init => TaskInv
  BY TaskInit DEF Init
<1>2. [Next]_all => [Jobs!Next]_taskVars
  BY DEF Next, all
<1>3. TaskInv => TasksToldApart
  BY DEF TaskInv, JobsAre, TasksToldApart, Jobs!TasksToldApart, Jobs!RunningHasJob
<1> QED
  BY <1>1, <1>2, <1>3, TaskStep, PTL DEF Spec, all

-----------------------------------------------------------------------------
(***************************************************************************)
(* Backups.  What a run is about to delete has a later copy of its month,  *)
(* or one that was spoiled; and a copy that is no longer being written to  *)
(* was spoiled, or has one.                                                *)
(***************************************************************************)
BackupTypes ==
  /\ today \in Copies!AllDays
  /\ file = [d \in Copies!AllDays |-> file[d]]
  /\ run = [r \in Copiers |-> run[r]]
  /\ \A r \in Copiers : /\ run[r] = [at |-> run[r].at, day |-> run[r].day]
                        /\ run[r].at # "idle" => run[r].day \in Copies!AllDays
  /\ dropped \in [Copiers -> SUBSET Copies!AllDays]
  /\ copying \in [Copies!AllDays -> SUBSET Copiers]
  /\ completed \subseteq Copies!AllDays

Kept(e) == file[e] # "none" \/ e \in spoiled
Superseded(d) == \E e \in Copies!Later(d, Copies!AllDays) : Month[e] = Month[d] /\ Kept(e)

OneWriter ==
  \A d \in Copies!AllDays : \A r \in copying[d] :
    /\ copying[d] = {r} /\ file[d] = "partial"
    /\ run[r].at = "copying" /\ run[r].day = d

DroppedAreSuperseded == \A r \in Copiers : \A d \in dropped[r] : Superseded(d)

CopiesStay ==
  \A r \in Copiers, d \in Copies!AllDays : run[r].at = "copying" /\ run[r].day = d =>
    r \in copying[d] \/ d \in spoiled \/ Superseded(d)

BackupInv == BackupTypes /\ OneWriter /\ DroppedAreSuperseded /\ CopiesStay /\ Copies!MonthsKept

LEMMA BackupInit == Copies!Init => BackupInv
<1> SUFFICES ASSUME Copies!Init PROVE BackupInv
  OBVIOUS
<1>1. BackupTypes
  BY MaintenanceAssumption DEF Copies!Init, BackupTypes, Copies!AllDays, Copies!Idle
<1> QED
  BY <1>1 DEF Copies!Init, BackupInv, OneWriter, DroppedAreSuperseded, CopiesStay, Copies!MonthsKept, Copies!Idle

\* A copy that goes leaves those it stood for with what stands for it.
LEMMA StillSuperseded ==
  ASSUME BackupInv, NEW d \in Copies!AllDays, Superseded(d), NEW gone,
         gone \in Copies!AllDays /\ Kept(gone) => Kept(gone)' \/ Superseded(gone),
         \A e \in Copies!AllDays : e # gone /\ Kept(e) => Kept(e)'
  PROVE  Superseded(d)'
<1>1. PICK e \in Copies!Later(d, Copies!AllDays) : Month[e] = Month[d] /\ Kept(e)
  BY DEF Superseded
<1>2. e \in Copies!AllDays /\ e > d
  BY <1>1 DEF Copies!Later
<1>3. CASE Kept(e)'
  BY <1>1, <1>3 DEF Superseded, Copies!Later, Copies!AllDays
<1>4. CASE e = gone /\ Superseded(gone)
  <2>1. PICK f \in Copies!Later(e, Copies!AllDays) : Month[f] = Month[e] /\ Kept(f)
    BY <1>4 DEF Superseded
  <2>2. f \in Copies!AllDays /\ f > e
    BY <2>1 DEF Copies!Later
  <2>3. Kept(f)' /\ f \in Copies!Later(d, Copies!AllDays)
    BY <1>2, <1>4, <2>1, <2>2 DEF Copies!Later, Copies!AllDays
  <2> QED
    BY <1>1, <2>1, <2>3 DEF Superseded, Copies!Later, Copies!AllDays
<1> QED
  BY <1>1, <1>2, <1>3, <1>4

\* The days whose copies stay, or are superseded, stay so.
LEMMA StillKept ==
  ASSUME BackupInv, NEW gone,
         gone \in Copies!AllDays /\ Kept(gone) => Kept(gone)' \/ Superseded(gone),
         \A e \in Copies!AllDays : e # gone /\ Kept(e) => Kept(e)'
  PROVE  /\ \A d \in Copies!AllDays : Superseded(d) => Superseded(d)'
         /\ \A d \in Copies!AllDays : Kept(d) => Kept(d)' \/ Superseded(d)'
         /\ \A d \in completed : Kept(d)' \/ Superseded(d)'
<1>1. ASSUME NEW d \in Copies!AllDays, Superseded(d) PROVE Superseded(d)'
  BY <1>1, StillSuperseded
<1>2. ASSUME NEW d \in Copies!AllDays, Kept(d) PROVE Kept(d)' \/ Superseded(d)'
  BY <1>1, <1>2
<1>3. ASSUME NEW d \in completed PROVE Kept(d) \/ Superseded(d)
  BY DEF BackupInv, Copies!MonthsKept, Kept, Superseded
<1>4. completed \subseteq Copies!AllDays
  BY DEF BackupInv, BackupTypes
<1> QED
  BY <1>1, <1>2, <1>3, <1>4

LEMMA KeptIsEnough ==
  ASSUME \A d \in completed' : Kept(d)' \/ Superseded(d)' PROVE Copies!MonthsKept'
BY DEF Copies!MonthsKept, Kept, Superseded, Copies!Later, Copies!AllDays

LEMMA WritersStay ==
  ASSUME BackupInv,
         \A d \in Copies!AllDays : \A r \in copying'[d] :
           /\ copying'[d] = {r} /\ file'[d] = "partial"
           /\ run'[r].at = "copying" /\ run'[r].day = d
  PROVE  OneWriter'
BY DEF OneWriter, Copies!AllDays

LEMMA ReplaceKeeps == ASSUME BackupInv, NEW r \in Copiers, Copies!Replace(r) PROVE BackupInv'
<1>d. PICK d \in Copies!AllDays : d = run[r].day /\ run[r].at = "replacing"
  BY DEF Copies!Replace, BackupInv, BackupTypes
<1>1. /\ run[r].at = "replacing" /\ file' = [file EXCEPT ![d] = "none"]
      /\ copying' = [copying EXCEPT ![d] = {}]
      /\ spoiled' = IF file[d] = "none" THEN spoiled ELSE spoiled \cup {d}
      /\ run' = [run EXCEPT ![r].at = "starting"]
      /\ UNCHANGED <<today, dropped, completed>>
  BY <1>d DEF Copies!Replace, Copies!Goes
<1>2. d \in Copies!AllDays
  OBVIOUS
<1>3. \A e \in Copies!AllDays : Kept(e) => Kept(e)'
  BY <1>1, <1>2 DEF BackupInv, BackupTypes, Kept
<1>4. run'[r].at = "starting" /\ run'[r].day = d /\ \A q \in Copiers \ {r} : run'[q] = run[q]
  BY <1>d, <1>1 DEF BackupInv, BackupTypes
<1>5. BackupTypes'
  <2>1. /\ file' = [e \in Copies!AllDays |-> file'[e]] /\ run' = [q \in Copiers |-> run'[q]]
        /\ copying' \in [Copies!AllDays -> SUBSET Copiers]
    BY <1>1, <1>2 DEF BackupInv, BackupTypes
  <2>2. \A q \in Copiers : run'[q] = [at |-> run'[q].at, day |-> run'[q].day]
    BY <1>1 DEF BackupInv, BackupTypes
  <2> QED
    BY <1>1, <1>2, <1>4, <2>1, <2>2 DEF BackupInv, BackupTypes, Copies!AllDays
<1>6. /\ copying'[d] = {} /\ \A e \in Copies!AllDays \ {d} : copying'[e] = copying[e] /\ file'[e] = file[e]
      /\ \A e \in Copies!AllDays : r \notin copying[e]
  <2>1. copying'[d] = {} /\ \A e \in Copies!AllDays \ {d} : copying'[e] = copying[e] /\ file'[e] = file[e]
    BY <1>1, <1>2 DEF BackupInv, BackupTypes
  <2>2. \A e \in Copies!AllDays : r \notin copying[e]
    BY <1>1 DEF BackupInv, OneWriter
  <2> QED
    BY <2>1, <2>2
<1>7. OneWriter'
  <2> SUFFICES ASSUME NEW e \in Copies!AllDays, NEW q \in copying'[e]
               PROVE  copying'[e] = {q} /\ file'[e] = "partial" /\ run'[q].at = "copying" /\ run'[q].day = e
    BY WritersStay
  <2>1. e # d /\ q \in copying[e] /\ q \in Copiers \ {r}
    BY <1>6 DEF BackupInv, BackupTypes
  <2> QED
    BY <1>4, <1>6, <2>1 DEF BackupInv, OneWriter
<1>8. /\ \A e \in Copies!AllDays : Superseded(e) => Superseded(e)'
      /\ \A e \in completed : Kept(e)' \/ Superseded(e)'
  BY <1>2, <1>3, StillKept
<1>9. DroppedAreSuperseded'
  BY <1>1, <1>8 DEF BackupInv, BackupTypes, DroppedAreSuperseded
<1>10. CopiesStay'
  <2> SUFFICES ASSUME NEW q \in Copiers, NEW e \in Copies!AllDays,
                      run'[q].at = "copying", run'[q].day = e
               PROVE  q \in copying'[e] \/ e \in spoiled' \/ Superseded(e)'
    BY DEF CopiesStay, Copies!AllDays
  <2>1. q # r /\ run'[q] = run[q]
    BY <1>4
  <2>2. CASE e = d /\ q \in copying[d]
    BY <1>1, <1>2, <2>1, <2>2 DEF BackupInv, OneWriter
  <2>3. CASE e # d \/ q \notin copying[d]
    <3>1. q \in copying[e] \/ e \in spoiled \/ Superseded(e)
      BY <2>1 DEF BackupInv, CopiesStay
    <3> QED
      BY <1>1, <1>6, <1>8, <2>3, <3>1
  <2> QED
    BY <2>2, <2>3
<1> QED
  BY <1>1, <1>5, <1>7, <1>8, <1>9, <1>10, KeptIsEnough DEF BackupInv

LEMMA StartCopyKeeps == ASSUME BackupInv, NEW r \in Copiers, Copies!StartCopy(r) PROVE BackupInv'
<1>d. PICK d \in Copies!AllDays : d = run[r].day
  BY DEF Copies!StartCopy, BackupInv, BackupTypes
<1>1. /\ run[r].at = "starting" /\ d \in Copies!AllDays
      /\ UNCHANGED <<today, dropped, completed, spoiled>>
  BY <1>d DEF Copies!StartCopy, BackupInv, BackupTypes
<1>2. \A e \in Copies!AllDays : r \notin copying[e]
  BY <1>1 DEF BackupInv, OneWriter
<1>3. CASE file[d] # "none"
  <2>1. run' = [run EXCEPT ![r] = Copies!Idle] /\ UNCHANGED <<file, copying>>
    BY <1>d, <1>3 DEF Copies!StartCopy
  <2>2. run'[r].at = "idle" /\ \A q \in Copiers \ {r} : run'[q] = run[q]
    BY <2>1 DEF BackupInv, BackupTypes, Copies!Idle
  <2>3. BackupTypes'
    BY <1>1, <2>1 DEF BackupInv, BackupTypes, Copies!Idle, Copies!AllDays
  <2>4. OneWriter'
    <3> SUFFICES ASSUME NEW e \in Copies!AllDays, NEW q \in copying[e]
                 PROVE  copying[e] = {q} /\ file[e] = "partial" /\ run'[q].at = "copying" /\ run'[q].day = e
      BY <2>1, WritersStay
    <3>1. q \in Copiers \ {r}
      BY <1>2 DEF BackupInv, BackupTypes
    <3> QED
      BY <2>2, <3>1 DEF BackupInv, OneWriter
  <2>5. \A e : Superseded(e)' = Superseded(e)
    BY <1>1, <2>1 DEF Superseded, Kept, Copies!Later, Copies!AllDays
  <2>6. DroppedAreSuperseded' /\ CopiesStay'
    BY <1>1, <2>1, <2>2, <2>5 DEF BackupInv, DroppedAreSuperseded, CopiesStay, Copies!AllDays
  <2>7. Copies!MonthsKept'
    BY <1>1, <2>1 DEF BackupInv, Copies!MonthsKept, Copies!Later, Copies!AllDays
  <2> QED
    BY <2>3, <2>4, <2>6, <2>7 DEF BackupInv
<1>4. CASE file[d] = "none"
  <2>1. /\ file' = [file EXCEPT ![d] = "partial"] /\ copying' = [copying EXCEPT ![d] = {r}]
        /\ run' = [run EXCEPT ![r].at = "copying"]
    BY <1>d, <1>4 DEF Copies!StartCopy, Copies!Goes
  <2>2. run'[r].at = "copying" /\ run'[r].day = d /\ \A q \in Copiers \ {r} : run'[q] = run[q]
    BY <1>d, <2>1 DEF BackupInv, BackupTypes
  <2>3. BackupTypes'
    <3>1. /\ file' = [e \in Copies!AllDays |-> file'[e]] /\ run' = [q \in Copiers |-> run'[q]]
          /\ copying' \in [Copies!AllDays -> SUBSET Copiers]
      BY <1>1, <2>1 DEF BackupInv, BackupTypes
    <3>2. \A q \in Copiers : run'[q] = [at |-> run'[q].at, day |-> run'[q].day]
      BY <2>1 DEF BackupInv, BackupTypes
    <3> QED
      BY <1>1, <2>2, <3>1, <3>2 DEF BackupInv, BackupTypes, Copies!AllDays
  <2>4. /\ copying'[d] = {r} /\ file'[d] = "partial"
        /\ \A e \in Copies!AllDays \ {d} : copying'[e] = copying[e] /\ file'[e] = file[e]
        /\ copying[d] = {}
    <3>1. copying'[d] = {r} /\ \A e \in Copies!AllDays \ {d} : copying'[e] = copying[e]
      BY <1>1, <2>1 DEF BackupInv, BackupTypes
    <3>2. file'[d] = "partial" /\ \A e \in Copies!AllDays \ {d} : file'[e] = file[e]
      BY <1>1, <2>1 DEF BackupInv, BackupTypes
    <3>3. copying[d] = {}
      BY <1>1, <1>4 DEF BackupInv, OneWriter
    <3> QED
      BY <3>1, <3>2, <3>3
  <2>5. OneWriter'
    <3> SUFFICES ASSUME NEW e \in Copies!AllDays, NEW q \in copying'[e]
                 PROVE  copying'[e] = {q} /\ file'[e] = "partial" /\ run'[q].at = "copying" /\ run'[q].day = e
      BY WritersStay
    <3>1. CASE e = d
      BY <2>2, <2>4, <3>1
    <3>2. CASE e # d
      <4>1. q \in copying[e] /\ q \in Copiers \ {r}
        BY <1>2, <2>4, <3>2 DEF BackupInv, BackupTypes
      <4> QED
        BY <2>2, <2>4, <3>2, <4>1 DEF BackupInv, OneWriter
    <3> QED
      BY <3>1, <3>2
  <2>6. \A e \in Copies!AllDays : Kept(e) => Kept(e)'
    BY <1>1, <2>4 DEF Kept
  <2>7. /\ \A e \in Copies!AllDays : Superseded(e) => Superseded(e)'
        /\ \A e \in completed : Kept(e)' \/ Superseded(e)'
    <3>1. Kept(d)'
      <4>1. file'[d] # "none"
        BY <2>4
      <4> QED
        BY <4>1 DEF Kept
    <3> QED
      BY <2>6, <3>1, StillKept
  <2>8. DroppedAreSuperseded'
    BY <1>1, <2>7 DEF BackupInv, BackupTypes, DroppedAreSuperseded
  <2>9. CopiesStay'
    <3> SUFFICES ASSUME NEW q \in Copiers, NEW e \in Copies!AllDays,
                        run'[q].at = "copying", run'[q].day = e
                 PROVE  q \in copying'[e] \/ e \in spoiled' \/ Superseded(e)'
      BY DEF CopiesStay, Copies!AllDays
    <3>1. CASE q = r
      BY <2>2, <2>4, <3>1
    <3>2. CASE q # r
      <4>1. run'[q] = run[q]
        BY <2>2, <3>2
      <4>2. q \in copying[e] \/ e \in spoiled \/ Superseded(e)
        BY <4>1 DEF BackupInv, CopiesStay
      <4> QED
        BY <1>1, <2>4, <2>7, <4>2
    <3> QED
      BY <3>1, <3>2
  <2> QED
    BY <1>1, <2>3, <2>5, <2>7, <2>8, <2>9, KeptIsEnough DEF BackupInv
<1> QED
  BY <1>3, <1>4

\* A copy that is made while its file was removed is nowhere; the one that
\* removed it has spoiled it, or has a later one.
LEMMA CopiedKeeps == ASSUME BackupInv, NEW r \in Copiers, Copies!Copied(r) PROVE BackupInv'
<1>1. PICK d \in Copies!AllDays : d = run[r].day /\ run[r].at = "copying"
  BY DEF Copies!Copied, BackupInv, BackupTypes
<1>2. /\ copying' = [copying EXCEPT ![d] = copying[d] \ {r}] /\ UNCHANGED <<today, dropped>>
      /\ \/ /\ file' = IF r \in copying[d] THEN [file EXCEPT ![d] = "whole"] ELSE file
            /\ completed' = completed \cup {d} /\ run' = [run EXCEPT ![r].at = "listing"]
            /\ UNCHANGED spoiled
         \/ /\ file' = IF r \in copying[d] THEN [file EXCEPT ![d] = "none"] ELSE file
            /\ run' = [run EXCEPT ![r] = Copies!Idle] /\ spoiled' = spoiled \cup {d}
            /\ UNCHANGED completed
  BY <1>1 DEF Copies!Copied, Copies!Goes
<1>3. /\ run'[r].at \in {"listing", "idle"} /\ (run'[r].at = "listing" => run'[r].day = d)
      /\ run'[r] = [at |-> run'[r].at, day |-> run'[r].day]
      /\ \A q \in Copiers \ {r} : run'[q] = run[q]
      /\ run' = [q \in Copiers |-> run'[q]]
  BY <1>1, <1>2 DEF BackupInv, BackupTypes, Copies!Idle
<1>4. /\ copying'[d] = copying[d] \ {r}
      /\ \A e \in Copies!AllDays \ {d} : copying'[e] = copying[e] /\ file'[e] = file[e]
      /\ r \notin copying[d] => file'[d] = file[d]
      /\ r \in copying[d] => copying[d] = {r}
  <2>1. copying' = [copying EXCEPT ![d] = copying[d] \ {r}] /\ copying \in [Copies!AllDays -> SUBSET Copiers]
    BY <1>2 DEF BackupInv, BackupTypes
  <2>2. \/ file' = file \/ file' = [file EXCEPT ![d] = "whole"] \/ file' = [file EXCEPT ![d] = "none"]
    BY <1>2
  <2>3. \A e \in Copies!AllDays \ {d} : file'[e] = file[e]
    BY <2>2 DEF BackupInv, BackupTypes
  <2>4. r \notin copying[d] => file' = file
    BY <1>2
  <2>5. r \in copying[d] => copying[d] = {r}
    BY DEF BackupInv, OneWriter
  <2> QED
    BY <2>1, <2>3, <2>4, <2>5
<1>5. BackupTypes'
  <2>1. /\ file' = [e \in Copies!AllDays |-> file'[e]] /\ completed' \subseteq Copies!AllDays
        /\ copying' \in [Copies!AllDays -> SUBSET Copiers]
    BY <1>2 DEF BackupInv, BackupTypes
  <2>2. \A q \in Copiers : /\ run'[q] = [at |-> run'[q].at, day |-> run'[q].day]
                           /\ run'[q].at # "idle" => run'[q].day \in Copies!AllDays
    BY <1>3 DEF BackupInv, BackupTypes
  <2> QED
    BY <1>2, <1>3, <2>1, <2>2 DEF BackupInv, BackupTypes, Copies!AllDays
<1>6. OneWriter'
  <2> SUFFICES ASSUME NEW e \in Copies!AllDays, NEW q \in copying'[e]
               PROVE  copying'[e] = {q} /\ file'[e] = "partial" /\ run'[q].at = "copying" /\ run'[q].day = e
    BY WritersStay
  <2>1. q \in copying[e] /\ q \in Copiers
    BY <1>4 DEF BackupInv, BackupTypes
  <2>2. q # r
    BY <1>1, <1>4, <2>1 DEF BackupInv, OneWriter
  <2> QED
    BY <1>3, <1>4, <2>1, <2>2 DEF BackupInv, OneWriter
<1>7. \A e \in Copies!AllDays : Kept(e) => Kept(e)'
  BY <1>2 DEF BackupInv, BackupTypes, Kept
<1>8. /\ \A e \in Copies!AllDays : Superseded(e) => Superseded(e)'
      /\ \A e \in completed : Kept(e)' \/ Superseded(e)'
  BY <1>7, StillKept
<1>9. DroppedAreSuperseded'
  BY <1>2, <1>8 DEF BackupInv, BackupTypes, DroppedAreSuperseded
<1>10. CopiesStay'
  <2> SUFFICES ASSUME NEW q \in Copiers, NEW e \in Copies!AllDays,
                      run'[q].at = "copying", run'[q].day = e
               PROVE  q \in copying'[e] \/ e \in spoiled' \/ Superseded(e)'
    BY DEF CopiesStay, Copies!AllDays
  <2>1. q # r /\ run'[q] = run[q]
    BY <1>3
  <2>2. q \in copying[e] \/ e \in spoiled \/ Superseded(e)
    BY <2>1 DEF BackupInv, CopiesStay
  <2> QED
    BY <1>2, <1>4, <1>8, <2>1, <2>2
<1>11. \A e \in completed' : Kept(e)' \/ Superseded(e)'
  <2>1. CASE completed' = completed
    BY <1>8, <2>1
  <2>2. CASE completed' # completed
    <3>1. completed' = completed \cup {d}
      BY <1>2, <2>2
    <3>2. Kept(d)' \/ Superseded(d)'
      <4>1. CASE r \in copying[d]
        <5>1. file'[d] = "whole"
          BY <1>2, <2>2, <4>1 DEF BackupInv, BackupTypes
        <5> QED
          BY <5>1 DEF Kept
      <4>2. CASE r \notin copying[d]
        <5>1. d \in spoiled \/ Superseded(d)
          BY <1>1, <4>2 DEF BackupInv, CopiesStay
        <5> QED
          BY <1>7, <1>8, <5>1 DEF Kept
      <4> QED
        BY <4>1, <4>2
    <3> QED
      BY <1>8, <3>1, <3>2
  <2> QED
    BY <2>1, <2>2
<1> QED
  BY <1>5, <1>6, <1>9, <1>10, <1>11, KeptIsEnough DEF BackupInv

\* What was doomed is deleted, though the day it was doomed for may be gone by
\* now: what stood for that stands for it too.
LEMMA DeleteOneKeeps == ASSUME BackupInv, NEW r \in Copiers, Copies!DeleteOne(r) PROVE BackupInv'
<1>1. run[r].at = "deleting" /\ UNCHANGED <<today, completed, spoiled>>
  BY DEF Copies!DeleteOne
<1>2. \A e \in Copies!AllDays : r \notin copying[e]
  BY <1>1 DEF BackupInv, OneWriter
<1>3. CASE dropped[r] = {}
  <2>1. run' = [run EXCEPT ![r] = Copies!Idle] /\ UNCHANGED <<file, copying, dropped>>
    BY <1>3 DEF Copies!DeleteOne
  <2>2. run'[r].at = "idle" /\ \A q \in Copiers \ {r} : run'[q] = run[q]
    BY <2>1 DEF BackupInv, BackupTypes, Copies!Idle
  <2>3. BackupTypes'
    BY <1>1, <2>1 DEF BackupInv, BackupTypes, Copies!Idle, Copies!AllDays
  <2>4. OneWriter'
    <3> SUFFICES ASSUME NEW e \in Copies!AllDays, NEW q \in copying[e]
                 PROVE  copying[e] = {q} /\ file[e] = "partial" /\ run'[q].at = "copying" /\ run'[q].day = e
      BY <2>1, WritersStay
    <3>1. q \in Copiers \ {r}
      BY <1>2 DEF BackupInv, BackupTypes
    <3> QED
      BY <2>2, <3>1 DEF BackupInv, OneWriter
  <2>5. \A e : Superseded(e)' = Superseded(e)
    BY <1>1, <2>1 DEF Superseded, Kept, Copies!Later, Copies!AllDays
  <2>6. DroppedAreSuperseded' /\ CopiesStay'
    BY <1>1, <2>1, <2>2, <2>5 DEF BackupInv, DroppedAreSuperseded, CopiesStay, Copies!AllDays
  <2>7. Copies!MonthsKept'
    BY <1>1, <2>1 DEF BackupInv, Copies!MonthsKept, Copies!Later, Copies!AllDays
  <2> QED
    BY <2>3, <2>4, <2>6, <2>7 DEF BackupInv
<1>4. CASE dropped[r] # {}
  <2>1. PICK d \in dropped[r] :
          /\ file' = [file EXCEPT ![d] = "none"] /\ copying' = [copying EXCEPT ![d] = {}]
          /\ dropped' = [dropped EXCEPT ![r] = dropped[r] \ {d}] /\ UNCHANGED run
    BY <1>4 DEF Copies!DeleteOne
  <2>2. d \in Copies!AllDays /\ Superseded(d)
    BY DEF BackupInv, BackupTypes, DroppedAreSuperseded
  <2>3. /\ copying'[d] = {}
        /\ \A e \in Copies!AllDays \ {d} : copying'[e] = copying[e] /\ file'[e] = file[e]
    BY <2>1, <2>2 DEF BackupInv, BackupTypes
  <2>4. \A e \in Copies!AllDays : e # d /\ Kept(e) => Kept(e)'
    BY <1>1, <2>3 DEF Kept
  <2>5. /\ \A e \in Copies!AllDays : Superseded(e) => Superseded(e)'
        /\ \A e \in completed : Kept(e)' \/ Superseded(e)'
    BY <2>2, <2>4, StillKept
  <2>6. BackupTypes'
    BY <1>1, <2>1 DEF BackupInv, BackupTypes, Copies!AllDays
  <2>7. OneWriter'
    <3> SUFFICES ASSUME NEW e \in Copies!AllDays, NEW q \in copying'[e]
                 PROVE  copying'[e] = {q} /\ file'[e] = "partial" /\ run'[q].at = "copying" /\ run'[q].day = e
      BY WritersStay
    <3> QED
      BY <2>1, <2>3 DEF BackupInv, OneWriter
  <2>8. DroppedAreSuperseded'
    <3>1. \A q \in Copiers : dropped'[q] \subseteq dropped[q] /\ dropped[q] \subseteq Copies!AllDays
      BY <2>1 DEF BackupInv, BackupTypes
    <3> QED
      BY <2>5, <3>1 DEF BackupInv, DroppedAreSuperseded
  <2>9. CopiesStay'
    <3> SUFFICES ASSUME NEW q \in Copiers, NEW e \in Copies!AllDays,
                        run'[q].at = "copying", run'[q].day = e
                 PROVE  q \in copying'[e] \/ e \in spoiled' \/ Superseded(e)'
      BY DEF CopiesStay, Copies!AllDays
    <3>1. q \in copying[e] \/ e \in spoiled \/ Superseded(e)
      BY <2>1 DEF BackupInv, CopiesStay
    <3> QED
      BY <1>1, <2>2, <2>3, <2>5, <3>1
  <2> QED
    BY <1>1, <2>5, <2>6, <2>7, <2>8, <2>9, KeptIsEnough DEF BackupInv
<1> QED
  BY <1>3, <1>4

\* A run begins, or has made its list.
LEMMA BeginKeeps ==
  ASSUME BackupInv, NEW r \in Copiers, Copies!Begin(r) \/ Copies!ListAndPrune(r)
  PROVE  BackupInv'
<1>1. /\ UNCHANGED <<today, file, copying, completed, spoiled>>
      /\ run[r].at # "copying" /\ run'[r].at \in {"replacing", "deleting"}
      /\ run'[r].day \in Copies!AllDays /\ run'[r] = [at |-> run'[r].at, day |-> run'[r].day]
      /\ run' = [q \in Copiers |-> run'[q]]
      /\ \A q \in Copiers \ {r} : run'[q] = run[q]
  BY DEF Copies!Begin, Copies!ListAndPrune, Copies!Goes, BackupInv, BackupTypes
<1>2. dropped' \in [Copiers -> SUBSET Copies!AllDays]
      /\ \A q \in Copiers : dropped'[q] = dropped[q] \/ dropped'[q] = Copies!Prune(Copies!OnDisk)
  <2>1. Copies!Prune(Copies!OnDisk) \subseteq Copies!AllDays
    BY DEF Copies!Prune, Copies!OnDisk
  <2> QED
    BY <2>1 DEF Copies!Begin, Copies!ListAndPrune, BackupInv, BackupTypes
<1>3. \A d \in Copies!Prune(Copies!OnDisk) : Superseded(d)
  BY DEF Copies!Prune, Copies!OnDisk, Copies!Later, Superseded, Kept
<1>4. \A e : Superseded(e)' = Superseded(e)
  BY <1>1 DEF Superseded, Kept, Copies!Later, Copies!AllDays
<1>5. BackupTypes'
  BY <1>1, <1>2 DEF BackupInv, BackupTypes, Copies!AllDays
<1>6. OneWriter'
  <2> SUFFICES ASSUME NEW e \in Copies!AllDays, NEW q \in copying[e]
               PROVE  copying[e] = {q} /\ file[e] = "partial" /\ run'[q].at = "copying" /\ run'[q].day = e
    BY <1>1, WritersStay
  <2>1. q \in Copiers /\ run[q].at = "copying" /\ run[q].day = e /\ copying[e] = {q} /\ file[e] = "partial"
    BY DEF BackupInv, BackupTypes, OneWriter
  <2> QED
    BY <1>1, <2>1
<1>7. DroppedAreSuperseded'
  BY <1>2, <1>3, <1>4 DEF BackupInv, DroppedAreSuperseded
<1>8. CopiesStay'
  BY <1>1, <1>4 DEF BackupInv, CopiesStay, Copies!AllDays
<1>9. Copies!MonthsKept'
  BY <1>1 DEF BackupInv, Copies!MonthsKept, Copies!Later, Copies!AllDays
<1> QED
  BY <1>5, <1>6, <1>7, <1>8, <1>9 DEF BackupInv

LEMMA BackupStep == BackupInv /\ [Copies!Next]_backupVars => BackupInv'
<1> SUFFICES ASSUME BackupInv, [Copies!Next]_backupVars PROVE BackupInv'
  OBVIOUS
<1>1. ASSUME Copies!NextDay \/ UNCHANGED backupVars PROVE BackupInv'
  <2>1. UNCHANGED <<file, run, dropped, copying, completed, spoiled>>
    BY <1>1 DEF Copies!NextDay, backupVars
  <2>2. today' \in Copies!AllDays
    <3>1. today \in 1 .. Days /\ Days \in Nat
      BY MaintenanceAssumption DEF BackupInv, BackupTypes, Copies!AllDays
    <3>2. today' = today \/ (today < Days /\ today' = today + 1)
      BY <1>1 DEF Copies!NextDay, backupVars
    <3> QED
      BY <3>1, <3>2 DEF Copies!AllDays
  <2>3. \A e : Superseded(e)' = Superseded(e)
    BY <2>1 DEF Superseded, Kept, Copies!Later, Copies!AllDays
  <2>4. BackupTypes'
    BY <2>1, <2>2 DEF BackupInv, BackupTypes, Copies!AllDays
  <2>5. OneWriter'
    BY <2>1 DEF BackupInv, OneWriter, Copies!AllDays
  <2>6. DroppedAreSuperseded' /\ CopiesStay'
    BY <2>1, <2>3 DEF BackupInv, DroppedAreSuperseded, CopiesStay, Copies!AllDays
  <2>7. Copies!MonthsKept'
    BY <2>1 DEF BackupInv, Copies!MonthsKept, Copies!Later, Copies!AllDays
  <2> QED
    BY <2>4, <2>5, <2>6, <2>7 DEF BackupInv
<1>2. CASE Copies!Stop
  <2>1. /\ run' = [r \in Copiers |-> Copies!Idle] /\ dropped' = [r \in Copiers |-> {}]
        /\ copying' = [d \in Copies!AllDays |-> {}] /\ spoiled \subseteq spoiled'
        /\ UNCHANGED <<today, file, completed>>
    BY <1>2 DEF Copies!Stop
  <2>2. BackupTypes'
    BY <2>1 DEF BackupInv, BackupTypes, Copies!Idle, Copies!AllDays
  <2>3. OneWriter' /\ DroppedAreSuperseded' /\ CopiesStay'
    BY <2>1 DEF OneWriter, DroppedAreSuperseded, CopiesStay, Copies!Idle, Copies!AllDays
  <2>4. Copies!MonthsKept'
    BY <2>1 DEF BackupInv, Copies!MonthsKept, Copies!Later, Copies!AllDays
  <2> QED
    BY <2>2, <2>3, <2>4 DEF BackupInv
<1> QED
  BY <1>1, <1>2, BeginKeeps, ReplaceKeeps, StartCopyKeeps, CopiedKeeps, DeleteOneKeeps DEF Copies!Next

-----------------------------------------------------------------------------
(***************************************************************************)
(* Migrations.  What has a name is there, or was taken to be.              *)
(***************************************************************************)
SchemaInv ==
  /\ program \in Seq(STRING) /\ next \in Nat \ {0} /\ userVersion \in Nat
  /\ old \subseteq schema /\ schema \subseteq names \cup old
  /\ names \subseteq schema \cup assumed /\ known \subseteq names
  /\ migrating = "applying" =>
       \A n \in 1 .. Len(program) : n < next => program[n] \in schema \cup assumed
  /\ migrating = "open" => \A n \in 1 .. Len(program) : program[n] \in schema \cup assumed

LEMMA SchemaInit == Init => SchemaInv
<1>1. ASSUME Schema!Init PROVE SchemaInv
  <2>1. program \in Seq(STRING)
    BY <1>1, MaintenanceAssumption DEF Schema!Init
  <2> QED
    BY <1>1, <2>1 DEF Schema!Init, SchemaInv
<1>2. ASSUME /\ program = <<>> /\ userVersion = 0 /\ schema = {} /\ old = {} /\ assumed = {}
             /\ names = {} /\ known = {} /\ opens = 0 /\ migrating = "closed" /\ next = 1
      PROVE  SchemaInv
  BY <1>2 DEF SchemaInv
<1> QED
  BY <1>1, <1>2 DEF Init

LEMMA SchemaStep == SchemaInv /\ [Schema!Next]_migrationVars => SchemaInv'
<1> SUFFICES ASSUME SchemaInv, [Schema!Next]_migrationVars PROVE SchemaInv'
  OBVIOUS
<1> USE DEF SchemaInv, Schema!Goes
<1>1. ASSUME NEW p \in Programs, Schema!Open(p) PROVE SchemaInv'
  BY <1>1, MaintenanceAssumption DEF Schema!Open
<1>2. CASE Schema!NameOne
  BY <1>2 DEF Schema!NameOne
<1>3. CASE Schema!ReadNames
  BY <1>3 DEF Schema!ReadNames
<1>4. CASE Schema!Skip
  <2>1. /\ migrating = "applying" /\ next <= Len(program) /\ program[next] \in known
        /\ migrating' = "applying" /\ next' = next + 1
        /\ UNCHANGED <<schema, names, userVersion, program, known, old, assumed>>
    BY <1>4 DEF Schema!Skip, Schema!Applied
  <2>2. ASSUME NEW n \in 1 .. Len(program), n < next + 1 PROVE program[n] \in schema \cup assumed
    BY <2>1, <2>2
  <2> QED
    BY <2>1, <2>2
<1>5. CASE Schema!Apply
  <2>1. CASE program[next] \in schema
    BY <1>5, <2>1 DEF Schema!Apply
  <2>2. CASE program[next] \notin schema
    <3>1. /\ migrating = "applying" /\ next <= Len(program)
          /\ schema' = schema \cup {program[next]} /\ names' = names \cup {program[next]}
          /\ userVersion' = next /\ migrating' = "applying" /\ next' = next + 1
          /\ UNCHANGED <<program, known, old, assumed>>
      BY <1>5, <2>2 DEF Schema!Apply
    <3>2. ASSUME NEW n \in 1 .. Len(program), n < next + 1 PROVE program[n] \in schema' \cup assumed
      BY <3>1, <3>2
    <3> QED
      BY <3>1, <3>2
  <2> QED
    BY <2>1, <2>2
<1>6. CASE Schema!Ready
  <2>1. /\ migrating = "applying" /\ next > Len(program) /\ migrating' = "open" /\ next' = 1
        /\ UNCHANGED <<schema, names, userVersion, program, known, old, assumed>>
    BY <1>6 DEF Schema!Ready
  <2>2. \A n \in 1 .. Len(program) : n < next
    BY <2>1
  <2> QED
    BY <2>1, <2>2
<1>7. CASE Schema!Stop
  BY <1>7 DEF Schema!Stop
<1>8. CASE UNCHANGED migrationVars
  BY <1>8 DEF migrationVars
<1> QED
  BY <1>1, <1>2, <1>3, <1>4, <1>5, <1>6, <1>7, <1>8 DEF Schema!Next

LEMMA OpenedIsComplete == SchemaInv => Schema!SchemaComplete
BY DEF SchemaInv, Schema!SchemaComplete, Schema!Listed, Schema!ToSet

\* run, prune, migrate, backfill_names: of every month in which a backup was
\* made there is one as late as it, but for what was spoiled; and a database
\* that opens has everything its program lists, whatever cut it off before.
THEOREM NothingDropped == Spec => []NothingIsDropped
<1>1. Init => BackupInv /\ SchemaInv
  BY BackupInit, SchemaInit DEF Init
<1>2. [Next]_all => [Copies!Next]_backupVars /\ [Schema!Next]_migrationVars
  BY DEF Next, all
<1>3. BackupInv /\ SchemaInv => NothingIsDropped
  BY OpenedIsComplete DEF BackupInv, NothingIsDropped
<1> QED
  BY <1>1, <1>2, <1>3, BackupStep, SchemaStep, PTL DEF Spec, all

-----------------------------------------------------------------------------
(***************************************************************************)
(* Export and restore.                                                     *)
(***************************************************************************)
Rows == [parent : Keys \cup {NoKey}, trashed : BOOLEAN, added : Nat]

ArchiveTypes ==
  /\ items \in [Keys -> Rows] /\ archive \in [items : [Keys -> Rows], files : [Keys -> Nat]]
  /\ files \in [Keys -> Nat] /\ added \in Nat
  /\ \A k \in Keys : items[k] = Archives!None \/ items[k].added > 0
  /\ \A k \in Keys : archive.items[k] = Archives!None \/ archive.items[k].added > 0
  /\ page \subseteq Archives!Archived /\ present \subseteq page
  /\ handled \subseteq Keys /\ steady \subseteq Keys

\* The export: a file that was there all along is still to be met, or is in.
SteadyTravel ==
  /\ exporting # "idle" => \A k \in steady : files[k] # 0 /\ (k \in left \/ archive.files[k] # 0)
  /\ exporting = "done" => left = {}
  /\ restoring = "idle" => page = {}
  /\ restoring # "idle" => exporting = "done"

\* The restore: what it has been through has arrived, unless users touched it.
Arrived(k) == k \in Archives!Here /\ (archive.items[k].trashed => items[k].trashed)

SoFar ==
  /\ restoring \in {"paging", "creating", "binning"} => \A k \in handled \ touched : Arrived(k)
  /\ restoring = "creating" => present \subseteq Archives!Here \cup touched
  /\ restoring = "binning" => page \subseteq Archives!Here \cup touched
  /\ restoring \in {"filing", "done"} =>
       /\ \A k \in Archives!Archived \ touched : Arrived(k)
       /\ \A k \in handled \ touched : archive.files[k] # 0 => files[k] = archive.files[k]
  /\ restoring = "done" => \A k \in Keys : archive.files[k] # 0 => k \in handled

ArchiveInv == ArchiveTypes /\ SteadyTravel /\ SoFar

LEMMA ArchiveInit == Archives!Init => ArchiveInv
<1> SUFFICES ASSUME Archives!Init PROVE ArchiveInv
  OBVIOUS
<1>1. Archives!None \in Rows
  BY DEF Archives!None, Rows
<1>2. ArchiveTypes
  BY <1>1 DEF Archives!Init, ArchiveTypes, Archives!NoArchive
<1> QED
  BY <1>2 DEF Archives!Init, ArchiveInv, SteadyTravel, SoFar

\* What users write is touched while something is restored; a file that was
\* there all along stays, or is no longer said to.
LEMMA UsersKeep ==
  ASSUME ArchiveInv, NEW S,
         UNCHANGED <<archive, exporting, left, restoring, page, handled, present>>,
         touched' = IF restoring = "idle" THEN {} ELSE touched \cup S,
         items' \in [Keys -> Rows], files' \in [Keys -> Nat], added' \in Nat,
         \A k \in Keys : items'[k] = Archives!None \/ items'[k].added > 0,
         \A k \in Keys \ S : items'[k] = items[k] /\ files'[k] = files[k],
         steady' \subseteq steady, \A k \in steady' : files[k] # 0 => files'[k] # 0
  PROVE  ArchiveInv'
<1>1. ArchiveTypes'
  BY DEF ArchiveInv, ArchiveTypes, Archives!Archived, Archives!None, Rows
<1>2. SteadyTravel'
  BY DEF ArchiveInv, SteadyTravel
<1>3. ASSUME restoring = "idle" PROVE SoFar'
  <2>1. restoring' = "idle"
    BY <1>3
  <2> QED
    BY <2>1 DEF SoFar
<1>4. ASSUME restoring # "idle" PROVE SoFar'
  <2>1. touched' = touched \cup S
    BY <1>4
  <2>2. \A k \in Keys \ S : k \in Archives!Here => (k \in Archives!Here)'
    BY DEF Archives!Here, Archives!None
  <2>3. \A k \in Keys \ S : Arrived(k) => Arrived(k)'
    BY <2>2 DEF Arrived
  <2>4. Archives!Here \subseteq Keys /\ Archives!Archived \subseteq Keys
        /\ Archives!Archived' = Archives!Archived
    BY DEF Archives!Here, Archives!Archived, Archives!None
  <2>5. page \subseteq Keys /\ present \subseteq Keys /\ handled \subseteq Keys
    BY <2>4 DEF ArchiveInv, ArchiveTypes
  <2>6. /\ restoring \in {"paging", "creating", "binning"} => \A k \in handled' \ touched' : Arrived(k)'
        /\ restoring \in {"filing", "done"} => \A k \in Archives!Archived' \ touched' : Arrived(k)'
    <3>1. \A k \in handled' \ touched' : k \in handled \ touched /\ k \in Keys \ S
      BY <2>1, <2>5
    <3>2. \A k \in Archives!Archived' \ touched' : k \in Archives!Archived \ touched /\ k \in Keys \ S
      BY <2>1, <2>4
    <3> QED
      BY <2>3, <3>1, <3>2 DEF ArchiveInv, SoFar
  <2>7. /\ restoring = "creating" => present' \subseteq Archives!Here' \cup touched'
        /\ restoring = "binning" => page' \subseteq Archives!Here' \cup touched'
    BY <2>1, <2>2, <2>5 DEF ArchiveInv, SoFar
  <2>8. restoring \in {"filing", "done"} =>
          \A k \in handled' \ touched' : archive'.files[k] # 0 => files'[k] = archive'.files[k]
    BY <2>1, <2>5 DEF ArchiveInv, SoFar
  <2>9. restoring = "done" => \A k \in Keys : archive'.files[k] # 0 => k \in handled'
    BY DEF ArchiveInv, SoFar
  <2> QED
    BY <2>6, <2>7, <2>8, <2>9 DEF SoFar
<1> QED
  BY <1>1, <1>2, <1>3, <1>4 DEF ArchiveInv

LEMMA CreateKeeps ==
  ASSUME ArchiveInv, NEW k \in Keys, NEW p \in Keys \cup {NoKey}, Archives!Create(k, p) PROVE ArchiveInv'
<1>1. /\ UNCHANGED <<archive, exporting, left, restoring, page, handled, present, files, steady>>
      /\ touched' = IF restoring = "idle" THEN {} ELSE touched \cup {k}
      /\ items' = [items EXCEPT ![k] = Archives!Row(p, FALSE, added + 1)] /\ added' = added + 1
  BY DEF Archives!Create, Archives!export, Archives!restore
<1>2. Archives!Row(p, FALSE, added + 1) \in Rows /\ Archives!Row(p, FALSE, added + 1).added > 0
      /\ added + 1 \in Nat
  BY DEF Archives!Row, Rows, ArchiveInv, ArchiveTypes
<1>3. items' \in [Keys -> Rows] /\ \A h \in Keys : items'[h] = Archives!None \/ items'[h].added > 0
  BY <1>1, <1>2 DEF ArchiveInv, ArchiveTypes
<1>4. \A h \in Keys \ {k} : items'[h] = items[h] /\ files'[h] = files[h]
  BY <1>1 DEF ArchiveInv, ArchiveTypes
<1> QED
  BY <1>1, <1>2, <1>3, <1>4, UsersKeep DEF ArchiveInv, ArchiveTypes


\* A row that is marked, or moved, is a row, and is not taken for none.
LEMMA UserEditsKeep ==
  ASSUME ArchiveInv, NEW k \in Keys,
         \/ \E t \in BOOLEAN : Archives!SetTrashed(k, t)
         \/ \E h \in Keys : Archives!Merge(k, h)
         \/ Archives!Delete(k) \/ Archives!PutFile(k)
  PROVE  ArchiveInv'
<1> USE DEF Archives!Edit, Archives!export, Archives!restore
<1>1. ASSUME NEW t \in BOOLEAN, Archives!SetTrashed(k, t) PROVE ArchiveInv'
  <2> DEFINE S == {k} \cup Archives!Children({k})
  <2>1. /\ UNCHANGED <<archive, exporting, left, restoring, page, handled, present, files, added, steady>>
        /\ touched' = IF restoring = "idle" THEN {} ELSE touched \cup S
        /\ items' = [h \in Keys |-> IF h \in S THEN [items[h] EXCEPT !.trashed = t] ELSE items[h]]
        /\ k \in Archives!Here
    BY <1>1 DEF Archives!SetTrashed
  <2>2. S \subseteq Archives!Here
    BY <2>1 DEF Archives!Children
  <2>3. \A h \in Archives!Here : [items[h] EXCEPT !.trashed = t] \in Rows
                                 /\ [items[h] EXCEPT !.trashed = t].added = items[h].added
                                 /\ items[h].added > 0
    BY DEF ArchiveInv, ArchiveTypes, Rows, Archives!Here
  <2> HIDE DEF S
  <2>4. items' \in [Keys -> Rows] /\ \A h \in Keys : items'[h] = Archives!None \/ items'[h].added > 0
    BY <2>1, <2>2, <2>3 DEF ArchiveInv, ArchiveTypes
  <2>5. \A h \in Keys \ S : items'[h] = items[h] /\ files'[h] = files[h]
    BY <2>1
  <2> QED
    BY <2>1, <2>4, <2>5, UsersKeep DEF ArchiveInv, ArchiveTypes
<1>2. ASSUME NEW h \in Keys, Archives!Merge(k, h) PROVE ArchiveInv'
  <2> DEFINE S == Archives!Children({h})
  <2>1. /\ UNCHANGED <<archive, exporting, left, restoring, page, handled, present, files, added, steady>>
        /\ touched' = IF restoring = "idle" THEN {} ELSE touched \cup (S \cup {k, h})
        /\ items' = [g \in Keys |-> IF g \in S THEN [items[g] EXCEPT !.parent = k]
                                    ELSE IF g = h THEN [items[g] EXCEPT !.trashed = TRUE]
                                    ELSE items[g]]
        /\ h \in Archives!Here
    BY <1>2 DEF Archives!Merge
  <2>2. S \subseteq Archives!Here
    BY DEF Archives!Children
  <2>3. \A g \in Archives!Here : /\ [items[g] EXCEPT !.parent = k] \in Rows
                                 /\ [items[g] EXCEPT !.trashed = TRUE] \in Rows
                                 /\ [items[g] EXCEPT !.parent = k].added = items[g].added
                                 /\ [items[g] EXCEPT !.trashed = TRUE].added = items[g].added
                                 /\ items[g].added > 0
    BY DEF ArchiveInv, ArchiveTypes, Rows, Archives!Here
  <2> HIDE DEF S
  <2>4. items' \in [Keys -> Rows] /\ \A g \in Keys : items'[g] = Archives!None \/ items'[g].added > 0
    BY <2>1, <2>2, <2>3 DEF ArchiveInv, ArchiveTypes
  <2>5. \A g \in Keys \ (S \cup {k, h}) : items'[g] = items[g] /\ files'[g] = files[g]
    BY <2>1
  <2> QED
    BY <2>1, <2>4, <2>5, UsersKeep DEF ArchiveInv, ArchiveTypes
<1>3. CASE Archives!Delete(k)
  <2> DEFINE S == Archives!Below({k})
  <2>1. /\ UNCHANGED <<archive, exporting, left, restoring, page, handled, present, added>>
        /\ touched' = IF restoring = "idle" THEN {} ELSE touched \cup S
        /\ items' = [h \in Keys |-> IF h \in S THEN Archives!None ELSE items[h]]
        /\ files' = [h \in Keys |-> IF h \in S THEN 0 ELSE files[h]] /\ steady' = steady \ S
    BY <1>3 DEF Archives!Delete
  <2> HIDE DEF S
  <2>2. Archives!None \in Rows
    BY DEF Archives!None, Rows
  <2>3. items' \in [Keys -> Rows] /\ \A h \in Keys : items'[h] = Archives!None \/ items'[h].added > 0
    BY <2>1, <2>2 DEF ArchiveInv, ArchiveTypes
  <2>4. files' \in [Keys -> Nat] /\ \A h \in Keys \ S : items'[h] = items[h] /\ files'[h] = files[h]
    BY <2>1 DEF ArchiveInv, ArchiveTypes
  <2>5. steady' \subseteq steady /\ \A h \in steady' : files[h] # 0 => files'[h] # 0
    BY <2>1, <2>4 DEF ArchiveInv, ArchiveTypes
  <2> QED
    BY <2>1, <2>3, <2>4, <2>5, UsersKeep DEF ArchiveInv, ArchiveTypes
<1>4. CASE Archives!PutFile(k)
  <2>1. /\ UNCHANGED <<archive, exporting, left, restoring, page, handled, present, items, added, steady>>
        /\ touched' = IF restoring = "idle" THEN {} ELSE touched \cup {k}
        /\ files' = [files EXCEPT ![k] = files[k] + 1]
    BY <1>4 DEF Archives!PutFile
  <2>2. files' \in [Keys -> Nat] /\ \A h \in Keys \ {k} : items'[h] = items[h] /\ files'[h] = files[h]
    BY <2>1 DEF ArchiveInv, ArchiveTypes
  <2>3. \A h \in steady' : files[h] # 0 => files'[h] # 0
    BY <2>1 DEF ArchiveInv, ArchiveTypes
  <2>4. items' \in [Keys -> Rows] /\ \A h \in Keys : items'[h] = Archives!None \/ items'[h].added > 0
    BY <2>1 DEF ArchiveInv, ArchiveTypes
  <2> QED
    BY <2>1, <2>2, <2>3, <2>4, UsersKeep DEF ArchiveInv, ArchiveTypes
<1> QED
  BY <1>1, <1>2, <1>3, <1>4

LEMMA MoveKeeps == ASSUME ArchiveInv, Archives!Move PROVE ArchiveInv'
<1>1. /\ UNCHANGED <<archive, exporting, left, restoring, page, handled, present, added>>
      /\ restoring = "idle" /\ touched' = {} /\ steady' = {}
      /\ items' = [k \in Keys |-> Archives!None] /\ files' = [k \in Keys |-> 0]
  BY DEF Archives!Move, Archives!Edit, Archives!export, Archives!restore
<1>2. Archives!None \in Rows
  BY DEF Archives!None, Rows
<1>3. /\ items' \in [Keys -> Rows] /\ \A k \in Keys : items'[k] = Archives!None \/ items'[k].added > 0
      /\ files' \in [Keys -> Nat]
  BY <1>1, <1>2
<1> QED
  BY <1>1, <1>3, UsersKeep DEF ArchiveInv, ArchiveTypes

\* The export goes on while nothing is restored from it.
LEMMA ExportKeeps ==
  ASSUME ArchiveInv, Archives!Snapshot \/ Archives!Exported \/ \E k \in Keys : Archives!CopyFile(k)
  PROVE  ArchiveInv'
<1>1. /\ UNCHANGED <<items, files, restoring, page, handled, present, added, touched>>
      /\ exporting \in {"idle", "copying"} /\ exporting' \in {"copying", "done"}
  BY DEF Archives!Snapshot, Archives!Exported, Archives!CopyFile, Archives!library, Archives!restore
<1>2. restoring = "idle" /\ page = {} /\ present = {}
  BY <1>1 DEF ArchiveInv, ArchiveTypes, SteadyTravel
<1>3. SoFar'
  <2>1. restoring' = "idle"
    BY <1>1, <1>2
  <2> QED
    BY <2>1 DEF SoFar
<1>4. CASE Archives!Snapshot
  <2>1. /\ archive' = [items |-> items, files |-> [k \in Keys |-> 0]]
        /\ left' = {k \in Keys : files[k] # 0} /\ steady' = {k \in Archives!Here : files[k] # 0}
        /\ exporting' = "copying"
    BY <1>4 DEF Archives!Snapshot
  <2>2. archive' \in [items : [Keys -> Rows], files : [Keys -> Nat]] /\ archive'.items = items
    BY <2>1 DEF ArchiveInv, ArchiveTypes
  <2>3. steady' \subseteq Keys /\ \A k \in steady' : files[k] # 0 /\ k \in left'
    BY <2>1 DEF Archives!Here
  <2>4. ArchiveTypes'
    BY <1>1, <1>2, <2>2, <2>3 DEF ArchiveInv, ArchiveTypes, Archives!None, Rows, Archives!Archived
  <2>5. SteadyTravel'
    BY <1>1, <1>2, <2>1, <2>3 DEF SteadyTravel
  <2> QED
    BY <1>3, <2>4, <2>5 DEF ArchiveInv
<1>5. ASSUME NEW k \in Keys, Archives!CopyFile(k) PROVE ArchiveInv'
  <2>1. /\ archive' = [archive EXCEPT !.files[k] = files[k]] /\ left' = left \ {k}
        /\ exporting = "copying" /\ UNCHANGED <<exporting, steady>>
    BY <1>5 DEF Archives!CopyFile
  <2>2. /\ archive' \in [items : [Keys -> Rows], files : [Keys -> Nat]]
        /\ archive'.items = archive.items /\ archive'.files[k] = files[k]
        /\ \A h \in Keys \ {k} : archive'.files[h] = archive.files[h]
    BY <2>1 DEF ArchiveInv, ArchiveTypes
  <2>3. ArchiveTypes'
    BY <1>1, <1>2, <2>1, <2>2 DEF ArchiveInv, ArchiveTypes, Archives!None, Rows, Archives!Archived
  <2>4. SteadyTravel'
    BY <1>1, <1>2, <2>1, <2>2 DEF ArchiveInv, ArchiveTypes, SteadyTravel
  <2> QED
    BY <1>3, <2>3, <2>4 DEF ArchiveInv
<1>6. CASE Archives!Exported
  <2>1. left = {} /\ exporting = "copying" /\ exporting' = "done" /\ UNCHANGED <<archive, left, steady>>
    BY <1>6 DEF Archives!Exported, Archives!Walked
  <2>2. ArchiveTypes'
    BY <1>1, <2>1 DEF ArchiveInv, ArchiveTypes, Archives!None, Rows, Archives!Archived
  <2>3. SteadyTravel'
    BY <1>1, <1>2, <2>1 DEF ArchiveInv, SteadyTravel
  <2> QED
    BY <1>3, <2>2, <2>3 DEF ArchiveInv
<1> QED
  BY <1>4, <1>5, <1>6

\* A restore begins, or is left, or cut off; a restore of nothing is idle.
LEMMA BoundsKeep ==
  ASSUME ArchiveInv, Archives!Begin \/ Archives!Leave \/ Archives!Stop PROVE ArchiveInv'
<1>1. /\ UNCHANGED <<items, files, added, steady>>
      /\ page' = {} /\ handled' = {} /\ present' = {} /\ touched' = {}
  BY DEF Archives!Begin, Archives!Leave, Archives!Stop, Archives!library, Archives!Restore
<1>2. \/ restoring' = "paging" /\ exporting = "done" /\ UNCHANGED <<archive, exporting, left>>
      \/ restoring' = "idle" /\ UNCHANGED <<archive, exporting, left>>
      \/ restoring' = "idle" /\ archive' = Archives!NoArchive /\ exporting' = "idle"
  BY DEF Archives!Begin, Archives!Leave, Archives!Stop, Archives!export, Archives!Restore
<1>3. SoFar'
  BY <1>1, <1>2 DEF SoFar
<1>4. /\ archive' \in [items : [Keys -> Rows], files : [Keys -> Nat]]
      /\ \A k \in Keys : archive'.items[k] = Archives!None \/ archive'.items[k].added > 0
  <2>1. Archives!None \in Rows
    BY DEF Archives!None, Rows
  <2>2. CASE archive' = archive
    BY <2>2 DEF ArchiveInv, ArchiveTypes
  <2>3. CASE archive' = Archives!NoArchive
    BY <2>1, <2>3 DEF Archives!NoArchive
  <2> QED
    BY <1>2, <2>2, <2>3
<1>5. ArchiveTypes'
  BY <1>1, <1>4 DEF ArchiveInv, ArchiveTypes, Archives!None, Rows
<1>6. SteadyTravel'
  BY <1>1, <1>2 DEF ArchiveInv, SteadyTravel
<1> QED
  BY <1>3, <1>5, <1>6 DEF ArchiveInv

\* A page is empty when nothing is left: otherwise what was added first of all
\* that is left is on it.
LEMMA ReadPageKeeps == ASSUME ArchiveInv, Archives!ReadPage PROVE ArchiveInv'
<1> DEFINE rest == Archives!Archived \ handled
           before(k) == {h \in rest : archive.items[h].added < archive.items[k].added}
           onPage == {k \in rest : Cardinality(before(k)) < Page}
<1>1. /\ restoring = "paging" /\ page' = onPage /\ present' = onPage \cap Archives!Here
      /\ \/ onPage = {} /\ restoring' = "filing" /\ handled' = {}
         \/ onPage # {} /\ restoring' = "creating" /\ handled' = handled
      /\ UNCHANGED <<items, files, archive, exporting, left, added, steady, touched>>
  <2>1. \A S : Archives!Cardinality(S) = Cardinality(S)
    BY DEF Archives!Cardinality, Cardinality
  <2> QED
    BY <2>1 DEF Archives!ReadPage, Archives!Restore, Archives!library, Archives!export
<1>2. onPage = {} => rest = {}
  <2> SUFFICES ASSUME rest # {} PROVE \E k \in rest : Cardinality(before(k)) < Page
    OBVIOUS
  <2>1. \A k \in rest : archive.items[k].added \in Nat
    BY DEF Archives!Archived, ArchiveInv, ArchiveTypes, Rows
  <2>2. PICK n \in {archive.items[k].added : k \in rest} :
               \A o \in {archive.items[k].added : k \in rest} : n <= o
    BY <2>1, Smallest
  <2>3. PICK k \in rest : archive.items[k].added = n
    BY <2>2
  <2>4. before(k) = {}
    <3> SUFFICES ASSUME NEW h \in rest, archive.items[h].added < archive.items[k].added PROVE FALSE
      OBVIOUS
    <3> HIDE DEF rest
    <3>1. n <= archive.items[h].added /\ n \in Nat /\ archive.items[h].added \in Nat
      BY <2>1, <2>2, <2>3
    <3> QED
      BY <2>3, <3>1
  <2>5. Cardinality({}) = 0
    BY FS_EmptySet
  <2>6. 0 < Page
    BY MaintenanceAssumption
  <2>7. Cardinality(before(k)) = 0
    BY <2>4, <2>5
  <2> QED
    BY <2>6, <2>7
<1>3. onPage \subseteq Archives!Archived /\ rest = Archives!Archived \ handled
  OBVIOUS
<1> HIDE DEF onPage, rest
<1>4. ArchiveTypes'
  BY <1>1, <1>3 DEF ArchiveInv, ArchiveTypes, Archives!None, Rows, Archives!Archived
<1>5. SteadyTravel'
  BY <1>1 DEF ArchiveInv, SteadyTravel
<1>6. \A k \in handled \ touched : Arrived(k)'
  BY <1>1 DEF ArchiveInv, SoFar, Arrived, Archives!Here, Archives!None
<1>7. SoFar'
  <2>1. CASE onPage = {}
    <3>1. restoring' = "filing" /\ handled' = {} /\ touched' = touched /\ Archives!Archived' = Archives!Archived
      BY <1>1, <2>1 DEF Archives!Archived, Archives!None
    <3>2. \A k \in Archives!Archived' \ touched' : Arrived(k)'
      BY <1>2, <1>3, <1>6, <2>1, <3>1
    <3> QED
      BY <3>1, <3>2 DEF SoFar
  <2>2. CASE onPage # {}
    <3>1. restoring' = "creating" /\ UNCHANGED <<handled, touched>>
      BY <1>1, <2>2
    <3>2. present' \subseteq Archives!Here'
      BY <1>1 DEF Archives!Here, Archives!None
    <3> QED
      BY <1>6, <3>1, <3>2 DEF SoFar
  <2> QED
    BY <2>1, <2>2
<1> QED
  BY <1>4, <1>5, <1>7 DEF ArchiveInv

\* What is created is none of what is there, and what is not is said to be
\* touched.
LEMMA CreatePageKeeps == ASSUME ArchiveInv, Archives!CreatePage PROVE ArchiveInv'
<1> DEFINE new == Archives!Created(page \ present)
           draft(k) == [archive.items[k] EXCEPT !.trashed = FALSE]
<1>1. /\ restoring = "creating" /\ restoring' = "binning"
      /\ items' = [k \in Keys |-> IF k \in new THEN draft(k) ELSE items[k]]
      /\ touched' = touched \cup (page \ (present \cup new))
      /\ UNCHANGED <<files, archive, exporting, left, page, handled, present, added, steady>>
  BY DEF Archives!CreatePage, Archives!Restore, Archives!export
<1>2. new \subseteq page \ Archives!Here
  BY DEF Archives!Created
<1>3. page \subseteq Archives!Archived /\ Archives!Archived \subseteq Keys /\ Archives!Here \subseteq Keys
  BY DEF Archives!Archived, Archives!Here, ArchiveInv, ArchiveTypes
<1> HIDE DEF new
<1>4. \A k \in new : draft(k) \in Rows /\ draft(k).added > 0 /\ draft(k) # Archives!None
  <2> SUFFICES ASSUME NEW k \in new PROVE draft(k) \in Rows /\ draft(k).added > 0 /\ draft(k) # Archives!None
    OBVIOUS
  <2>1. k \in Keys /\ archive.items[k] # Archives!None
    BY <1>2, <1>3 DEF Archives!Archived
  <2>2. archive.items[k] \in Rows /\ archive.items[k].added > 0
    BY <2>1 DEF ArchiveInv, ArchiveTypes
  <2>3. draft(k) \in Rows /\ draft(k).added > 0
    BY <2>2 DEF Rows
  <2> QED
    BY <2>3 DEF Archives!None, Rows
<1> HIDE DEF draft
<1>5. /\ items' \in [Keys -> Rows] /\ \A k \in Keys : items'[k] = Archives!None \/ items'[k].added > 0
      /\ \A k \in Keys : k \in Archives!Here => items'[k] = items[k]
      /\ \A k \in new : items'[k] # Archives!None
  BY <1>1, <1>2, <1>3, <1>4 DEF ArchiveInv, ArchiveTypes
<1>6. Archives!Here' = Archives!Here \cup new
  <2>1. \A k \in Keys : items'[k] # Archives!None <=> items[k] # Archives!None \/ k \in new
    BY <1>1, <1>5 DEF Archives!Here
  <2> QED
    BY <1>2, <1>3, <2>1 DEF Archives!Here, Archives!None
<1>7. ArchiveTypes'
  BY <1>1, <1>5 DEF ArchiveInv, ArchiveTypes, Archives!None, Rows, Archives!Archived
<1>8. SteadyTravel'
  BY <1>1 DEF ArchiveInv, SteadyTravel
<1>9. \A k \in handled' \ touched' : Arrived(k)'
  <2> SUFFICES ASSUME NEW k \in handled \ touched PROVE Arrived(k)'
    BY <1>1
  <2>1. Arrived(k)
    BY <1>1 DEF ArchiveInv, SoFar
  <2> QED
    BY <1>1, <1>3, <1>5, <1>6, <2>1 DEF Arrived
<1>10. page' \subseteq Archives!Here' \cup touched'
  <2>1. present \subseteq Archives!Here \cup touched
    BY <1>1 DEF ArchiveInv, SoFar
  <2> QED
    BY <1>1, <1>6, <2>1
<1>11. SoFar'
  BY <1>1, <1>9, <1>10 DEF SoFar
<1> QED
  BY <1>7, <1>8, <1>11 DEF ArchiveInv

LEMMA BinPageKeeps == ASSUME ArchiveInv, Archives!BinPage PROVE ArchiveInv'
<1> DEFINE S == (Archives!Binned \cap Archives!Here) \cup Archives!Children(Archives!Binned)
           binned(k) == [items[k] EXCEPT !.trashed = TRUE]
<1>1. /\ restoring = "binning" /\ restoring' = "paging" /\ handled' = handled \cup page
      /\ items' = [k \in Keys |-> IF k \in S THEN binned(k) ELSE items[k]]
      /\ UNCHANGED <<files, archive, exporting, left, page, present, added, steady, touched>>
  BY DEF Archives!BinPage, Archives!Restore, Archives!export
<1>2. S \subseteq Archives!Here /\ Archives!Here \subseteq Keys
      /\ \A k \in page \cap Archives!Here : archive.items[k].trashed => k \in S
  BY DEF Archives!Binned, Archives!Children, Archives!Here
<1>3. page \subseteq Archives!Archived /\ Archives!Archived \subseteq Keys
  BY DEF Archives!Archived, ArchiveInv, ArchiveTypes
<1> HIDE DEF S
<1>4. \A k \in S : /\ binned(k) \in Rows /\ binned(k).added > 0 /\ binned(k).trashed
                   /\ binned(k) # Archives!None
  <2> SUFFICES ASSUME NEW k \in S PROVE /\ binned(k) \in Rows /\ binned(k).added > 0 /\ binned(k).trashed
                                        /\ binned(k) # Archives!None
    OBVIOUS
  <2>1. items[k] \in Rows /\ items[k].added > 0
    BY <1>2 DEF ArchiveInv, ArchiveTypes, Archives!Here
  <2>2. binned(k) \in Rows /\ binned(k).added > 0 /\ binned(k).trashed
    BY <2>1 DEF Rows
  <2> QED
    BY <2>2 DEF Archives!None, Rows
<1> HIDE DEF binned
<1>5. /\ items' \in [Keys -> Rows] /\ \A k \in Keys : items'[k] = Archives!None \/ items'[k].added > 0
      /\ \A k \in S : items'[k].trashed /\ items'[k] # Archives!None
      /\ \A k \in Keys \ S : items'[k] = items[k]
  BY <1>1, <1>2, <1>4 DEF ArchiveInv, ArchiveTypes
<1>6. Archives!Here' = Archives!Here
  <2>1. \A k \in Keys : items'[k] # Archives!None <=> items[k] # Archives!None
    BY <1>2, <1>5 DEF Archives!Here
  <2> QED
    BY <2>1 DEF Archives!Here, Archives!None
<1>7. ArchiveTypes'
  BY <1>1, <1>3, <1>5 DEF ArchiveInv, ArchiveTypes, Archives!None, Rows, Archives!Archived
<1>8. SteadyTravel'
  BY <1>1 DEF ArchiveInv, SteadyTravel
<1>9. \A k \in handled' \ touched' : Arrived(k)'
  <2> SUFFICES ASSUME NEW k \in (handled \cup page) \ touched PROVE Arrived(k)'
    BY <1>1
  <2>1. k \in Archives!Here /\ (archive.items[k].trashed => items[k].trashed \/ k \in S)
    <3>1. CASE k \in handled
      BY <1>1, <3>1 DEF ArchiveInv, SoFar, Arrived
    <3>2. CASE k \in page
      BY <1>1, <1>2, <3>2 DEF ArchiveInv, SoFar
    <3> QED
      BY <3>1, <3>2
  <2>2. archive.items[k].trashed => items'[k].trashed
    BY <1>2, <1>5, <2>1
  <2> QED
    BY <1>1, <1>6, <2>1, <2>2 DEF Arrived
<1>10. SoFar'
  BY <1>1, <1>9 DEF SoFar
<1> QED
  BY <1>7, <1>8, <1>10 DEF ArchiveInv

LEMMA FilesKeep ==
  ASSUME ArchiveInv, Archives!Restored \/ \E k \in Keys : Archives!RestoreFile(k) PROVE ArchiveInv'
<1>1. /\ UNCHANGED <<items, archive, exporting, left, page, present, added, steady>>
      /\ restoring = "filing" /\ restoring' \in {"filing", "done"} /\ touched \subseteq touched'
  BY DEF Archives!Restored, Archives!RestoreFile, Archives!Restore, Archives!library, Archives!export
<1>2. \A k \in Archives!Archived' \ touched' : Arrived(k)'
  <2>1. Archives!Archived' = Archives!Archived /\ Archives!Here' = Archives!Here
    BY <1>1 DEF Archives!Archived, Archives!Here, Archives!None
  <2> SUFFICES ASSUME NEW k \in Archives!Archived \ touched PROVE Arrived(k)'
    BY <1>1, <2>1
  <2>2. Arrived(k)
    BY <1>1 DEF ArchiveInv, SoFar
  <2> QED
    BY <1>1, <2>1, <2>2 DEF Arrived
<1>3. CASE Archives!Restored
  <2>1. /\ UNCHANGED <<files, handled, touched>> /\ \A k \in Keys : archive.files[k] # 0 => k \in handled
    BY <1>3 DEF Archives!Restored, Archives!library
  <2>2. ArchiveTypes' /\ SteadyTravel'
    BY <1>1, <2>1 DEF ArchiveInv, ArchiveTypes, SteadyTravel, Archives!None, Rows, Archives!Archived
  <2>3. \A k \in handled' \ touched' : archive'.files[k] # 0 => files'[k] = archive'.files[k]
    BY <1>1, <2>1 DEF ArchiveInv, SoFar
  <2>4. SoFar'
    BY <1>1, <1>2, <2>1, <2>3 DEF SoFar
  <2> QED
    BY <2>2, <2>4 DEF ArchiveInv
<1>4. ASSUME NEW k \in Keys, Archives!RestoreFile(k) PROVE ArchiveInv'
  <2>1. /\ archive.files[k] # 0 /\ handled' = handled \cup {k} /\ restoring' = "filing"
        /\ \/ files' = [files EXCEPT ![k] = archive.files[k]] /\ touched' = touched
           \/ touched' = touched \cup {k} /\ files' = files
    BY <1>1, <1>4 DEF Archives!RestoreFile
  <2>2. /\ files' \in [Keys -> Nat] /\ \A h \in Keys \ {k} : files'[h] = files[h]
        /\ files'[k] = archive.files[k] \/ (files'[k] = files[k] /\ k \in touched')
        /\ handled' \subseteq Keys
    BY <2>1 DEF ArchiveInv, ArchiveTypes
  <2>3. ArchiveTypes'
    BY <1>1, <2>2 DEF ArchiveInv, ArchiveTypes, Archives!None, Rows, Archives!Archived
  <2>4. SteadyTravel'
    <3>1. \A h \in steady : files[h] # 0 => files'[h] # 0
      BY <2>1, <2>2 DEF ArchiveInv, ArchiveTypes
    <3> QED
      BY <1>1, <2>1, <3>1 DEF ArchiveInv, SteadyTravel
  <2>5. \A h \in handled' \ touched' : archive'.files[h] # 0 => files'[h] = archive'.files[h]
    <3> SUFFICES ASSUME NEW h \in (handled \cup {k}) \ touched', archive.files[h] # 0
                 PROVE  files'[h] = archive.files[h]
      BY <1>1, <2>1
    <3>1. CASE h = k
      BY <2>2, <3>1
    <3>2. CASE h # k
      <4>1. h \in handled \ touched /\ h \in Keys
        BY <1>1, <3>2 DEF ArchiveInv, ArchiveTypes
      <4> QED
        BY <1>1, <2>2, <3>2, <4>1 DEF ArchiveInv, SoFar
    <3> QED
      BY <3>1, <3>2
  <2>6. SoFar'
    BY <1>2, <2>1, <2>5 DEF SoFar
  <2> QED
    BY <2>3, <2>4, <2>6 DEF ArchiveInv
<1> QED
  BY <1>3, <1>4

LEMMA ArchiveStep == ArchiveInv /\ [Archives!Next]_archiveVars => ArchiveInv'
<1> SUFFICES ASSUME ArchiveInv, [Archives!Next]_archiveVars PROVE ArchiveInv'
  OBVIOUS
<1>1. CASE UNCHANGED archiveVars
  <2>1. /\ UNCHANGED <<items, files, archive, exporting, left, restoring, page, handled, present,
                       added, steady, touched>>
    BY <1>1 DEF archiveVars
  <2>2. Archives!Archived' = Archives!Archived /\ Archives!Here' = Archives!Here
    BY <2>1 DEF Archives!Archived, Archives!Here, Archives!None
  <2>3. ArchiveTypes'
    BY <2>1, <2>2 DEF ArchiveInv, ArchiveTypes, Archives!None, Rows
  <2>4. SteadyTravel'
    BY <2>1 DEF ArchiveInv, SteadyTravel
  <2>5. SoFar'
    BY <2>1, <2>2 DEF ArchiveInv, SoFar, Arrived
  <2> QED
    BY <2>3, <2>4, <2>5 DEF ArchiveInv
<1> QED
  BY <1>1, CreateKeeps, UserEditsKeep, MoveKeeps, ExportKeeps, BoundsKeep, ReadPageKeeps, CreatePageKeeps,
     BinPageKeeps, FilesKeep DEF Archives!Next

\* export::run, restore::run: a file that was there while the library was
\* exported is in the archive; and when a restore has ended, what no user has
\* touched is there, in the trash if it was there, with its file.
THEOREM ExportedComesBack == Spec => []ArchiveComesBack
<1>1. Init => ArchiveInv
  BY ArchiveInit DEF Init
<1>2. [Next]_all => [Archives!Next]_archiveVars
  BY DEF Next, all
<1>3. ArchiveInv => ArchiveComesBack
  <2> SUFFICES ASSUME ArchiveInv PROVE Archives!FilesTravel /\ Archives!ArchiveComesBack
    BY DEF ArchiveComesBack
  <2>1. Archives!FilesTravel
    BY DEF ArchiveInv, SteadyTravel, Archives!FilesTravel
  <2>2. Archives!ArchiveComesBack
    BY DEF ArchiveInv, SoFar, Arrived, Archives!ArchiveComesBack, Archives!Archived
  <2> QED
    BY <2>1, <2>2
<1> QED
  BY <1>1, <1>2, <1>3, ArchiveStep, PTL DEF Spec, all
=============================================================================
