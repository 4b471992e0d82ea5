------------------------------ MODULE MCPlugins ------------------------------
(***************************************************************************)
(* The registry and one process, each checked on its own: a behaviour is   *)
(* of one part, the other stays where it began.                            *)
(***************************************************************************)
EXTENDS PluginProcess

CONSTANTS Requests, MaxOps, MaxStarts, MaxStops

VARIABLES
  part,
  state, inst, disabled, alive, started, badges, saved, op, where, held,
  seenOff, ops, stops, off

hostVars == <<state, inst, disabled, alive, started, badges, saved, op, where,
              held, seenOff, ops, stops, off>>

Host == INSTANCE PluginHost

PluginsInit == part \in {"host", "process"} /\ Host!Init /\ Init

PluginsNext ==
  /\ UNCHANGED part
  /\ \/ part = "host" /\ Host!Next /\ UNCHANGED vars
     \/ part = "process" /\ Next /\ UNCHANGED hostVars

PluginsSpec == PluginsInit /\ [][PluginsNext]_<<part, hostVars, vars>>

\* What was turned off stays off (PluginHost).
OffStaysOff == Host!OffStaysOff
=============================================================================
