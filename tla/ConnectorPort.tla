---------------------------- MODULE ConnectorPort ----------------------------
(***************************************************************************)
(* Turning saving from the browser on and off while the server runs        *)
(* (crates/yk-server/src/connector_listener.rs, put_connector in           *)
(* routes/system.rs, serve_connector and connector_status): a port that    *)
(* another program may own, requests that run together, and restarts.      *)
(***************************************************************************)
EXTENDS Integers, FiniteSets

CONSTANTS
  Ports, Off, Never,
  Requests,
  MaxAsks, MaxStops   \* bounds on requests and restarts

VARIABLES
  listeners,  \* the ports this server listens on
  others,     \* the ports another program owns
  port,       \* Connector.port
  wish,       \* config.connector_port
  stored,     \* the setting, Never if it was never chosen
  at, asked,  \* where each request, and the start of the server, is
  asks, stops,
  stray       \* history: listeners that were let go of while they listened

vars == <<listeners, others, port, wish, stored, at, asked, asks, stops, stray>>

\* The start of the server is one of those who begin listeners.
Callers == Requests \cup {"start"}

Goes(c, where) == at' = [at EXCEPT ![c] = where]

-----------------------------------------------------------------------------
\* A program that owns the port comes or goes.
Other(p) ==
  /\ p \notin listeners
  /\ others' = IF p \in others THEN others \ {p} ELSE others \cup {p}
  /\ UNCHANGED <<listeners, port, wish, stored, at, asked, asks, stops, stray>>

Put(c, p) ==
  /\ c \in Requests /\ at[c] = "idle" /\ at["start"] = "idle"
  /\ asks < MaxAsks /\ asks' = asks + 1
  /\ asked' = [asked EXCEPT ![c] = p]
  /\ Goes(c, IF p = Off THEN "stopping" ELSE "binding")
  /\ UNCHANGED <<listeners, others, port, wish, stored, stops, stray>>

\* What the user chose last, or what the command line says.
StartUp ==
  /\ at["start"] = "up"
  /\ wish' = IF stored = Never THEN wish ELSE stored
  /\ asked' = [asked EXCEPT !["start"] = wish']
  /\ Goes("start", IF wish' = Off THEN "idle" ELSE "binding")
  /\ UNCHANGED <<listeners, others, port, stored, asks, stops, stray>>

\* Mutant of the next: a port that is taken is taken for bound.
Taken(c) == TRUE

Bound(c) == asked[c] \notin listeners \cup others

\* Before the old one is stopped.  The new one holds its port from here on.
Bind(c) ==
  /\ at[c] = "binding"
  /\ IF Bound(c)
     THEN listeners' = listeners \cup {asked[c]} /\ Goes(c, "replacing")
     ELSE Goes(c, "idle") /\ UNCHANGED listeners
  /\ UNCHANGED <<others, port, wish, stored, asked, asks, stops, stray>>

\* stop: the listener that is known.
Replace(c) ==
  /\ at[c] = "replacing"
  /\ listeners' = listeners \ {port} /\ port' = Off
  /\ Goes(c, "recording")
  /\ UNCHANGED <<others, wish, stored, asked, asks, stops, stray>>

\* Whatever was recorded meanwhile is forgotten, and goes on.
Record(c) ==
  /\ at[c] = "recording"
  /\ port' = asked[c]
  /\ stray' = stray \cup ({port} \cap listeners)
  /\ Goes(c, IF c = "start" THEN "idle" ELSE "wishing")
  /\ UNCHANGED <<listeners, others, wish, stored, asked, asks, stops>>

TurnOff(c) ==
  /\ at[c] = "stopping"
  /\ listeners' = listeners \ {port} /\ port' = Off
  /\ Goes(c, "wishing")
  /\ UNCHANGED <<others, wish, stored, asked, asks, stops, stray>>

Wish(c) ==
  /\ at[c] = "wishing"
  /\ wish' = asked[c] /\ Goes(c, "storing")
  /\ UNCHANGED <<listeners, others, port, stored, asked, asks, stops, stray>>

\* May fail.
Store(c) ==
  /\ at[c] = "storing" /\ Goes(c, "idle")
  /\ stored' \in {stored, asked[c]}
  /\ UNCHANGED <<listeners, others, port, wish, asked, asks, stops, stray>>

Restart ==
  /\ stops < MaxStops /\ stops' = stops + 1
  /\ listeners' = {} /\ port' = Off /\ stray' = {}
  /\ wish' \in Ports \cup {Off}
  /\ at' = [c \in Callers |-> IF c = "start" THEN "up" ELSE "idle"]
  /\ UNCHANGED <<others, stored, asked, asks>>

-----------------------------------------------------------------------------
Init ==
  /\ listeners = {} /\ others = {} /\ port = Off /\ wish \in Ports \cup {Off}
  /\ stored = Never
  /\ at = [c \in Callers |-> IF c = "start" THEN "up" ELSE "idle"]
  /\ asked = [c \in Callers |-> Off] /\ asks = 0 /\ stops = 0 /\ stray = {}

Next ==
  \/ \E p \in Ports : Other(p)
  \/ \E c \in Requests, p \in Ports \cup {Off} : Put(c, p)
  \/ StartUp \/ Restart
  \/ \E c \in Callers : Bind(c) \/ Replace(c) \/ Record(c) \/ TurnOff(c) \/ Wish(c) \/ Store(c)

Spec == Init /\ [][Next]_vars

-----------------------------------------------------------------------------
Resting == \A c \in Callers : at[c] = "idle"

\* "Holds the port that is bound, never the port that was asked for": what the
\* status calls listening is listened on by this server, and what it does not
\* mention is not, but for what two requests at a time let go of (start,
\* connector_status).
StatusIsBound ==
  /\ port # Off => port \in listeners /\ port \notin others
  /\ Resting => listeners \subseteq {port} \cup stray

\* "Stop serving the connector port": when saving is off, and nothing is under
\* way, no port is served (stop).
OffServesNothing ==
  Resting /\ port = Off => listeners = {}
=============================================================================
