------------------------------ MODULE ServerLock ------------------------------
(***************************************************************************)
(* One server per data directory (crates/yk-server/src/lock.rs): processes *)
(* that start a server, which takes an advisory lock on a file and writes  *)
(* into it where it listens, and processes that ask who serves             *)
(* (`yinkote open`, the MCP bridge), which test the same lock.             *)
(***************************************************************************)
EXTENDS Integers, FiniteSets

CONSTANTS
  Procs,      \* processes, each with an address of its own
  Nobody,
  MaxStarts   \* bound on the starts of processes

VARIABLES
  made,       \* the file exists
  line,       \* whose address is written in it, Nobody if none can be read
  owner,      \* who has the lock
  doing,      \* what each process is at
  met,        \* what the owner was at when the lock was refused
  answer,     \* the address a process was given
  starts

vars == <<made, line, owner, doing, met, answer, starts>>

Alive == {p \in Procs : doing[p] # "none"}
Servers == {p \in Procs : doing[p] \in {"claiming", "writing", "serving"}}

Does(p, what) == doing' = [doing EXCEPT ![p] = what]

-----------------------------------------------------------------------------
\* A server opens the file, made if absent; a question does not make it.
Start(p, what) ==
  /\ doing[p] = "none" /\ starts < MaxStarts /\ starts' = starts + 1
  /\ met' = [met EXCEPT ![p] = "none"] /\ answer' = [answer EXCEPT ![p] = Nobody]
  /\ \/ what = "server" /\ made' = TRUE /\ Does(p, "acquiring")
     \/ what = "question" /\ UNCHANGED made /\ Does(p, IF made THEN "asking" ELSE "told")
  /\ UNCHANGED <<line, owner>>

\* Mutant of the next: it is not looked at.
Always(p) == TRUE

Free(p) == owner = Nobody

TryLock(p) ==
  /\ doing[p] \in {"acquiring", "asking"}
  /\ IF Free(p)
     THEN /\ owner' = p /\ UNCHANGED met
          /\ Does(p, IF doing[p] = "acquiring" THEN "claiming" ELSE "testing")
     ELSE /\ met' = [met EXCEPT ![p] = doing[owner]] /\ UNCHANGED owner
          /\ Does(p, IF doing[p] = "acquiring" THEN "refused" ELSE "pointed")
  /\ UNCHANGED <<made, line, answer, starts>>

\* The lock is given straight back: nobody serves.
GiveBack(p) ==
  /\ doing[p] = "testing"
  /\ owner' = Nobody /\ Does(p, "told")
  /\ UNCHANGED <<made, line, met, answer, starts>>

\* What is written is read without the lock.
ReadLine(p) ==
  /\ doing[p] \in {"refused", "pointed"}
  /\ answer' = [answer EXCEPT ![p] = line] /\ Does(p, "told")
  /\ UNCHANGED <<made, line, owner, met, starts>>

Empty(p) ==
  /\ doing[p] = "claiming"
  /\ line' = Nobody /\ Does(p, "writing")
  /\ UNCHANGED <<made, owner, met, answer, starts>>

\* Allowed to fail.
Write(p) ==
  /\ doing[p] = "writing"
  /\ line' \in {p, Nobody} /\ Does(p, "serving")
  /\ UNCHANGED <<made, owner, met, answer, starts>>

\* However a process ends, its lock is released.
End(p) ==
  /\ p \in Alive
  /\ owner' = IF owner = p THEN Nobody ELSE owner
  /\ Does(p, "none")
  /\ UNCHANGED <<made, line, met, answer, starts>>

-----------------------------------------------------------------------------
Init ==
  /\ made = FALSE /\ line = Nobody /\ owner = Nobody /\ starts = 0
  /\ doing = [p \in Procs |-> "none"] /\ met = [p \in Procs |-> "none"]
  /\ answer = [p \in Procs |-> Nobody]

Next ==
  \E p \in Procs :
    \/ \E what \in {"server", "question"} : Start(p, what)
    \/ TryLock(p) \/ GiveBack(p) \/ ReadLine(p) \/ Empty(p) \/ Write(p) \/ End(p)

Spec == Init /\ [][Next]_vars

-----------------------------------------------------------------------------
\* Never do two servers share a library, and what the file says of a server
\* that runs is nothing, or its own address and not that of one long gone
\* (acquire).
OneServer ==
  /\ Cardinality(Servers) <= 1
  /\ \A p \in Procs : doing[p] = "serving" => line \in {p, Nobody}

\* "If the directory can be locked, nobody is serving it, and if it cannot, the
\* holder is alive and has written down where it listens"; "another Yinkote is
\* already using this data directory": a refusal met a server (acquire, holder).
RefusedByAServer ==
  \A p \in Procs : met[p] # "testing"
=============================================================================
