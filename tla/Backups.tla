------------------------------- MODULE Backups -------------------------------
(***************************************************************************)
(* Backups of the database, one file for each day, and which of them are   *)
(* kept (crates/yk-server/src/maintenance/backups.rs, Db::backup_to):      *)
(* several may run together, and be cut off.                               *)
(***************************************************************************)
EXTENDS Integers, FiniteSetsExt

CONSTANTS
  Runs,       \* backups that may run together
  Days,       \* the last day
  Month,      \* the month of each day
  KeepRecent,
  MaxStops

VARIABLES
  today,
  file,       \* what there is of each day
  run,        \* where each backup is, and for what day
  doomed,     \* what it is about to delete
  copying,    \* which run writes a file
  stops,
  completed,  \* history: the days that were ever copied
  spoiled     \* history: those whose copy was replaced, failed or was cut off

vars == <<today, file, run, doomed, copying, stops, completed, spoiled>>

AllDays == 1 .. Days
Idle == [at |-> "idle", day |-> 0]
OnDisk == {d \in AllDays : file[d] # "none"}
Goes(r, where) == run' = [run EXCEPT ![r].at = where]

-----------------------------------------------------------------------------
NextDay ==
  /\ today < Days /\ today' = today + 1
  /\ UNCHANGED <<file, run, doomed, copying, stops, completed, spoiled>>

\* The name is of the day it begins.
Begin(r) ==
  /\ run[r].at = "idle"
  /\ run' = [run EXCEPT ![r] = [at |-> "replacing", day |-> today]]
  /\ UNCHANGED <<today, file, doomed, copying, stops, completed, spoiled>>

\* "The second one supersedes the first."
Replace(r) ==
  LET d == run[r].day IN
  /\ run[r].at = "replacing"
  /\ file' = [file EXCEPT ![d] = "none"]
  /\ copying' = [copying EXCEPT ![d] = {}]
  /\ spoiled' = IF file[d] = "none" THEN spoiled ELSE spoiled \cup {d}
  /\ Goes(r, "starting")
  /\ UNCHANGED <<today, doomed, stops, completed>>

\* Refused if another has made the file meanwhile.
StartCopy(r) ==
  LET d == run[r].day IN
  /\ run[r].at = "starting"
  /\ IF file[d] # "none" THEN run' = [run EXCEPT ![r] = Idle] /\ UNCHANGED <<file, copying>>
     ELSE /\ file' = [file EXCEPT ![d] = "partial"]
          /\ copying' = [copying EXCEPT ![d] = {r}]
          /\ Goes(r, "copying")
  /\ UNCHANGED <<today, doomed, stops, completed, spoiled>>

\* A copy whose file was removed meanwhile is made, and is nowhere.
Copied(r) ==
  LET d == run[r].day IN
  /\ run[r].at = "copying"
  /\ \/ /\ file' = IF r \in copying[d] THEN [file EXCEPT ![d] = "whole"] ELSE file
        /\ completed' = completed \cup {d} /\ Goes(r, "listing")
        /\ UNCHANGED spoiled
     \/ /\ file' = IF r \in copying[d] THEN [file EXCEPT ![d] = "none"] ELSE file
        /\ run' = [run EXCEPT ![r] = Idle] /\ spoiled' = spoiled \cup {d}
        /\ UNCHANGED completed
  /\ copying' = [copying EXCEPT ![d] = @ \ {r}]
  /\ UNCHANGED <<today, doomed, stops>>

Later(d, S) == {e \in S : e > d}

\* Mutant of the next: the oldest of a month stands for it.
PruneNewer(S) ==
  {d \in S : Cardinality(Later(d, S)) >= KeepRecent /\ \E e \in S : e < d /\ Month[e] = Month[d]}

\* All but the newest, and the newest of each month before them.
Prune(S) ==
  {d \in S : Cardinality(Later(d, S)) >= KeepRecent /\ \E e \in Later(d, S) : Month[e] = Month[d]}

ListAndPrune(r) ==
  /\ run[r].at = "listing"
  /\ doomed' = [doomed EXCEPT ![r] = Prune(OnDisk)]
  /\ Goes(r, "deleting")
  /\ UNCHANGED <<today, file, copying, stops, completed, spoiled>>

DeleteOne(r) ==
  /\ run[r].at = "deleting"
  /\ IF doomed[r] = {} THEN run' = [run EXCEPT ![r] = Idle] /\ UNCHANGED <<file, doomed, copying>>
     ELSE LET d == CHOOSE e \in doomed[r] : TRUE IN
          /\ file' = [file EXCEPT ![d] = "none"]
          /\ copying' = [copying EXCEPT ![d] = {}]
          /\ doomed' = [doomed EXCEPT ![r] = @ \ {d}] /\ UNCHANGED run
  /\ UNCHANGED <<today, stops, completed, spoiled>>

\* What was being written is left behind.
Stop ==
  /\ stops < MaxStops /\ stops' = stops + 1
  /\ run' = [r \in Runs |-> Idle] /\ doomed' = [r \in Runs |-> {}]
  /\ copying' = [d \in AllDays |-> {}]
  /\ spoiled' = spoiled \cup {d \in AllDays : file[d] = "partial"}
  /\ UNCHANGED <<today, file, completed>>

-----------------------------------------------------------------------------
Init ==
  /\ today = 1 /\ stops = 0 /\ completed = {} /\ spoiled = {}
  /\ file = [d \in AllDays |-> "none"] /\ copying = [d \in AllDays |-> {}]
  /\ run = [r \in Runs |-> Idle] /\ doomed = [r \in Runs |-> {}]

Next ==
  \/ NextDay \/ Stop
  \/ \E r \in Runs : \/ Begin(r) \/ Replace(r) \/ StartCopy(r) \/ Copied(r)
                     \/ ListAndPrune(r) \/ DeleteOne(r)

Spec == Init /\ [][Next]_vars

-----------------------------------------------------------------------------
\* "The copy from before whatever went wrong" is not thrown away: of every
\* month in which a backup was made there is one as late as it, unless that one
\* was replaced, failed or was cut off (run, prune).
MonthsKept ==
  \A d \in completed :
    \E e \in {d} \cup Later(d, AllDays) :
      Month[e] = Month[d] /\ (file[e] # "none" \/ e \in spoiled)

\* "A failure leaves nothing behind to be mistaken for a backup": what is listed
\* is a backup, or is being written (backup_to, list).
OnlyBackups ==
  \A d \in AllDays : file[d] = "partial" => copying[d] # {}
=============================================================================
