------------------------------ MODULE PluginHost ------------------------------
(***************************************************************************)
(* One plugin in the registry (crates/yk-plugin/src/host.rs): requests     *)
(* call it, turn it on and off, reload the registry and remember its       *)
(* badges (crates/yk-server/src/badges.rs, routes/plugins.rs), each a      *)
(* number of steps with no lock over them.  Of other plugins it is only    *)
(* modelled what they share with this one: turning any of them on or off   *)
(* forgets all badges and writes the whole setting of what is turned off.  *)
(*                                                                         *)
(* An instance lives as long as the entry or a request holds it: the child *)
(* is killed when the last of them lets go (kill_on_drop).                 *)
(***************************************************************************)
EXTENDS Naturals, FiniteSets

CONSTANTS
  Requests,     \* concurrent requests
  MaxOps,       \* bound on what they do in all
  MaxStarts,    \* bound on the instances started
  MaxStops      \* bound on stops of the server

Instances == 1 .. MaxStarts
Ops == {"call", "badges", "enable", "disable", "reload", "shutdown", "other"}

VARIABLES
  state,     \* of the entry; "absent" when discovery did not find the plugin
  inst,      \* the instance of the entry, or 0
  disabled,  \* the ids turned off hold this one
  alive,     \* instances that run, as far as is known
  started,   \* instances so far
  badges,    \* BadgeService: an answer is remembered
  saved,     \* the setting plugins.disabled names it
  op,        \* of each request, what it does
  where,     \* and where it is
  held,      \* the instance it holds, or 0
  seenOff,   \* what load read of disabled, and persist_disabled of the state
  ops, stops,
  off        \* history: "yes" once turned off by a request that nothing overlapped,
             \* "unlisted" when the setting was then written while it was absent

entry == <<state, inst>>
local == <<op, where, held, seenOff>>
vars == <<entry, disabled, alive, started, badges, saved, local, ops, stops, off>>

Goes(r, w) == where' = [where EXCEPT ![r] = w]
Holds(r, i) == held' = [held EXCEPT ![r] = i]
KeepSaved == UNCHANGED <<saved, stops>>
Keep == UNCHANGED <<op, seenOff, ops, off>> /\ KeepSaved

\* set_state and others do nothing to an entry that is absent.
SetState(s) == state' = IF state = "absent" THEN state ELSE s

Held == {inst} \cup {held[r] : r \in Requests}
Running == alive \cap Held

Idle(r) == where[r] = "idle"
Doing(o) == \E r \in Requests : ~Idle(r) /\ op[r] = o

-----------------------------------------------------------------------------
(***************************************************************************)
(* Requests begin.                                                         *)
(***************************************************************************)

\* Badges are asked of ready plugins; stop takes what a plugin offers.
Offered == state = "ready" /\ inst # 0

Begin(r, o) ==
  /\ Idle(r) /\ ops < MaxOps /\ ops' = ops + 1
  /\ op' = [op EXCEPT ![r] = o]
  /\ off' = CASE o = "disable" -> IF state # "absent" /\ (\A q \in Requests : Idle(q))
                                   THEN "yes" ELSE "no"
              [] o = "enable" \/ (o # "disable" /\ Doing("disable")) -> "no"
              [] OTHER -> off
  /\ Goes(r, CASE o = "call" -> "looking"
               [] o = "badges" -> IF Offered /\ ~badges THEN "looking" ELSE "idle"
               [] o \in {"enable", "disable"} -> IF state = "absent" THEN "idle" ELSE o
               [] o = "other" -> "clearing"
               [] OTHER -> "taking")
  /\ UNCHANGED <<entry, disabled, alive, started, badges, held, seenOff>> /\ KeepSaved

\* set_enabled, its first write.
Enable(r) ==
  /\ where[r] = "enable"
  /\ disabled' = FALSE
  /\ Goes(r, "resetting")
  /\ UNCHANGED <<entry, alive, started, badges, held>> /\ Keep

Disable(r) ==
  /\ where[r] = "disable"
  /\ disabled' = TRUE
  /\ Goes(r, "taking")
  /\ UNCHANGED <<entry, alive, started, badges, held>> /\ Keep

Reset(r) ==
  /\ where[r] = "resetting"
  /\ SetState("stopped") /\ Goes(r, "starting")
  /\ UNCHANGED <<inst, disabled, alive, started, badges, held>> /\ Keep

-----------------------------------------------------------------------------
(***************************************************************************)
(* instance_of, and the call that follows.                                 *)
(***************************************************************************)

AfterCall(r) == IF op[r] = "badges" THEN "remembering" ELSE "idle"

Look(r) ==
  /\ where[r] = "looking"
  /\ IF state = "absent" THEN Goes(r, AfterCall(r)) /\ UNCHANGED held
     ELSE IF inst \in alive THEN Goes(r, "calling") /\ Holds(r, inst)
     ELSE Goes(r, IF state = "disabled" THEN AfterCall(r) ELSE "taking") /\ UNCHANGED held
  /\ UNCHANGED <<entry, disabled, alive, started, badges>> /\ Keep

\* After the one attempt to start it.
Resolve(r) ==
  /\ where[r] = "resolving"
  /\ IF inst = 0 THEN Goes(r, AfterCall(r)) /\ UNCHANGED held
     ELSE Goes(r, "calling") /\ Holds(r, inst)
  /\ UNCHANGED <<entry, disabled, alive, started, badges>> /\ Keep

\* Mutant of the next: the request goes on holding the instance.
Clung(r) == UNCHANGED held

LetGo(r) == Holds(r, 0)

\* The call ends, with an answer or without; its instance is let go.
CallEnds(r) ==
  /\ where[r] = "calling"
  /\ Goes(r, AfterCall(r)) /\ LetGo(r)
  /\ UNCHANGED <<entry, disabled, alive, started, badges>> /\ Keep

\* What was asked is remembered, no answer as an empty one.
Remember(r) ==
  /\ where[r] = "remembering"
  /\ badges' = TRUE
  /\ Goes(r, "idle")
  /\ UNCHANGED <<entry, disabled, alive, started, held>> /\ Keep

-----------------------------------------------------------------------------
(***************************************************************************)
(* stop, start and load.                                                   *)
(***************************************************************************)

Take(r) ==
  /\ where[r] = "taking"
  /\ inst' = 0 /\ Holds(r, inst)
  /\ Goes(r, "killing")
  /\ UNCHANGED <<state, disabled, alive, started, badges>> /\ Keep

Kill(r) ==
  /\ where[r] = "killing"
  /\ alive' = alive \ {held[r]} /\ Holds(r, 0)
  /\ Goes(r, CASE op[r] = "disable" -> "marking" [] op[r] = "reload" -> "loading"
               [] op[r] = "shutdown" -> "idle" [] OTHER -> "starting")
  /\ UNCHANGED <<entry, disabled, started, badges>> /\ Keep

Mark(r) ==
  /\ where[r] = "marking"
  /\ SetState("disabled")
  /\ Goes(r, IF state = "absent" THEN "idle" ELSE "clearing")
  /\ UNCHANGED <<inst, disabled, alive, started, badges, held>> /\ Keep

\* Where a request goes when the plugin was started, or could not be.
AfterStart(r) ==
  CASE op[r] = "enable" -> "clearing"
    [] op[r] = "reload" -> "clearing"
    [] OTHER -> "resolving"

\* set_enabled and call return the error; load goes on.
AfterFailure(r) == IF op[r] = "reload" THEN "clearing"
                   ELSE IF op[r] = "enable" THEN "idle" ELSE AfterCall(r)

Start(r) ==
  /\ where[r] = "starting"
  /\ SetState("starting")
  /\ Goes(r, IF state = "absent" THEN AfterFailure(r) ELSE "spawning")
  /\ UNCHANGED <<inst, disabled, alive, started, badges, held>> /\ Keep

Spawn(r) ==
  /\ where[r] = "spawning" /\ started < MaxStarts
  /\ started' = started + 1
  /\ alive' = alive \cup {started + 1} /\ Holds(r, started + 1)
  /\ Goes(r, "greeting")
  /\ UNCHANGED <<entry, disabled, badges>> /\ Keep

SpawnFails(r) ==
  /\ where[r] = "spawning"
  /\ SetState("failed") /\ Goes(r, AfterFailure(r))
  /\ UNCHANGED <<inst, disabled, alive, started, badges, held>> /\ Keep

\* The handshake fails: the instance is stopped, and then the state set.
GreetFails(r) ==
  /\ where[r] = "greeting"
  /\ alive' = alive \ {held[r]} /\ Holds(r, 0)
  /\ Goes(r, "failing")
  /\ UNCHANGED <<entry, disabled, started, badges>> /\ Keep

MarkFailed(r) ==
  /\ where[r] = "failing"
  /\ SetState("failed") /\ Goes(r, AfterFailure(r))
  /\ UNCHANGED <<inst, disabled, alive, started, badges, held>> /\ Keep

\* The instance replaces what the entry holds; the plugin is ready.
Install(r) ==
  /\ where[r] = "greeting" /\ held[r] \in alive
  /\ SetState("ready")
  /\ inst' = IF state = "absent" THEN inst ELSE held[r]
  /\ Holds(r, 0) /\ Goes(r, AfterStart(r))
  /\ UNCHANGED <<disabled, alive, started, badges>> /\ Keep

LoadRead(r) ==
  /\ where[r] = "loading"
  /\ seenOff' = [seenOff EXCEPT ![r] = disabled]
  /\ Goes(r, "replacing")
  /\ UNCHANGED <<entry, disabled, alive, started, badges, op, held, ops, off>> /\ KeepSaved

\* Mutant of the next: a reload forgets what was turned off.
LoadedOn(r) == "stopped"

Loaded(r) == IF seenOff[r] THEN "disabled" ELSE "stopped"

\* The entries are replaced by what was discovered, if it was.
LoadWrite(r) ==
  /\ where[r] = "replacing"
  /\ \/ state' = Loaded(r) \/ state' = "absent"
  /\ inst' = 0
  /\ Goes(r, "listing")
  /\ UNCHANGED <<disabled, alive, started, badges, held>> /\ Keep

LoadStart(r) ==
  /\ where[r] = "listing"
  /\ Goes(r, IF state = "stopped" THEN "starting" ELSE "clearing")
  /\ UNCHANGED <<entry, disabled, alive, started, badges, held>> /\ Keep

\* The route forgets the badges, once the registry has answered.
ClearBadges(r) ==
  /\ where[r] = "clearing"
  /\ badges' = FALSE
  /\ Goes(r, IF op[r] = "reload" THEN "idle" ELSE "listed")
  /\ UNCHANGED <<entry, disabled, alive, started, held>> /\ Keep

\* persist_disabled lists the plugins that are found, and stores those whose
\* state is disabled, whichever of them was turned on or off.
ListDisabled(r) ==
  /\ where[r] = "listed"
  /\ seenOff' = [seenOff EXCEPT ![r] = (state = "disabled")]
  /\ off' = IF off = "yes" /\ state = "absent" THEN "unlisted" ELSE off
  /\ Goes(r, "saving")
  /\ UNCHANGED <<entry, disabled, alive, started, badges, op, held, ops>> /\ KeepSaved

SaveDisabled(r) ==
  /\ where[r] = "saving"
  /\ saved' = seenOff[r]
  /\ Goes(r, "idle")
  /\ UNCHANGED <<entry, disabled, alive, started, badges, op, held, seenOff, ops, stops, off>>

\* A request is dropped with its client, or its setting cannot be saved.
Drop(r) ==
  /\ ~Idle(r)
  /\ Goes(r, "idle") /\ Holds(r, 0)
  /\ off' = IF op[r] = "disable" THEN "no" ELSE off
  /\ UNCHANGED <<entry, disabled, alive, started, badges, saved, op, seenOff, ops, stops>>

Crash(i) ==
  /\ i \in Running /\ alive' = alive \ {i}
  /\ UNCHANGED <<entry, disabled, started, badges, saved, local, ops, stops, off>>

\* The server stops; the next one loads by the setting before it serves.
Restart ==
  /\ stops < MaxStops /\ stops' = stops + 1
  /\ disabled' = saved
  /\ \/ state' = (IF saved THEN "disabled" ELSE "failed") /\ inst' = 0
     \/ state' = "absent" /\ inst' = 0
     \/ ~saved /\ state' = "ready" /\ inst' = started + 1
  /\ started' = IF inst' = 0 THEN started ELSE inst'
  /\ started' <= MaxStarts
  /\ alive' = {inst'} \ {0} /\ badges' = FALSE
  /\ where' = [r \in Requests |-> "idle"] /\ held' = [r \in Requests |-> 0]
  /\ off' = IF off = "yes" /\ ~Doing("disable") THEN "yes" ELSE "no"
  /\ UNCHANGED <<saved, op, seenOff, ops>>

-----------------------------------------------------------------------------
Init ==
  /\ \/ state = "ready" /\ inst = 1 /\ alive = {1} /\ started = 1
     \/ state = "failed" /\ inst = 0 /\ alive = {} /\ started = 0
  /\ disabled = FALSE /\ badges = FALSE /\ saved = FALSE
  /\ op = [r \in Requests |-> "call"]
  /\ where = [r \in Requests |-> "idle"]
  /\ held = [r \in Requests |-> 0]
  /\ seenOff = [r \in Requests |-> FALSE]
  /\ ops = 0 /\ stops = 0 /\ off = "no"

Step(r) ==
  \/ Enable(r) \/ Disable(r) \/ Reset(r) \/ Look(r) \/ Resolve(r) \/ CallEnds(r)
  \/ Remember(r) \/ Take(r) \/ Kill(r) \/ Mark(r) \/ Start(r) \/ Spawn(r)
  \/ SpawnFails(r) \/ GreetFails(r) \/ MarkFailed(r) \/ Install(r) \/ LoadRead(r)
  \/ LoadWrite(r) \/ LoadStart(r) \/ ClearBadges(r)
  \/ ListDisabled(r) \/ SaveDisabled(r)

Next ==
  \/ \E r \in Requests : Step(r) \/ Drop(r) \/ \E o \in Ops : Begin(r, o)
  \/ \E i \in Instances : Crash(i)
  \/ Restart

Spec == Init /\ [][Next]_vars

-----------------------------------------------------------------------------
\* The types; a request holds an instance while it starts, stops or calls one.
TypeOK ==
  /\ state \in {"stopped", "starting", "ready", "failed", "disabled", "absent"}
  /\ inst \in 0 .. MaxStarts /\ started \in 0 .. MaxStarts /\ alive \subseteq Instances
  /\ disabled \in BOOLEAN /\ badges \in BOOLEAN /\ saved \in BOOLEAN
  /\ off \in {"no", "yes", "unlisted"} /\ stops \in 0 .. MaxStops
  /\ op \in [Requests -> Ops] /\ seenOff \in [Requests -> BOOLEAN]
  /\ held \in [Requests -> 0 .. MaxStarts] /\ ops \in 0 .. MaxOps
  /\ \A r \in Requests : held[r] # 0 => where[r] \in {"killing", "greeting", "calling"}

\* "Ids explicitly turned off by the user; survives reloads", and restarts: once
\* a plugin was turned off while nothing else was under way, no call, badge,
\* reload or restart starts it until it is turned on, nothing of it runs, and
\* none of its badges is remembered (set_enabled, instance_of, load).  Only if
\* another plugin was turned on or off while this one was not found, the
\* setting has lost it, and it stays off until the next restart.
OffStaysOff ==
  off # "no" /\ ~Doing("disable") =>
    state \in {"disabled", "absent"} /\ Running = {} /\ ~badges
=============================================================================
