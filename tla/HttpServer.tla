------------------------------ MODULE HttpServer ------------------------------
(***************************************************************************)
(* HttpServer (packages/http-server/src/http-server.ts): a socket that is  *)
(* opened, listens, is closed and is done when its last connection ends.   *)
(* A server object is used once; RestServer makes one for each start.      *)
(* A request has a connection of its own, which stays after the response   *)
(* until the client or the keep-alive timeout ends it.                     *)
(***************************************************************************)
EXTENDS Naturals, FiniteSets

CONSTANTS
    MaxServers,  \* bound: server objects
    Requests,    \* the requests that may come in
    Ports,       \* the ports there are; 0 stands for any of them
    Graceful     \* is gracePeriodForClose given?

ASSUME HttpConstants ==
    /\ MaxServers \in Nat
    /\ Ports \subseteq Nat \ {0}
    /\ Graceful \in BOOLEAN

Servers == 1 .. MaxServers

VARIABLES
    phase,  \* phase[s]: what has become of server s
    addr,   \* addr[s]: the port it was asked for, then the one it has
    conn    \* conn[r]: the server that r is connected to, or 0

httpVars == <<phase, addr, conn>>

HttpTypeOK ==
    /\ phase \in [Servers -> {"none", "opening", "listening", "closing", "closed", "failed"}]
    /\ addr \in [Servers -> Ports \cup {0}]
    /\ conn \in [Requests -> Servers \cup {0}]

HttpInit ==
    /\ phase = [s \in Servers |-> "none"]
    /\ addr = [s \in Servers |-> 0]
    /\ conn = [r \in Requests |-> 0]

\* The flag _listening: it is cleared when the server is closed, not when that
\* begins.
Listening(s) == phase[s] \in {"listening", "closing"}

Connected(s) == {r \in Requests : conn[r] = s}
FreePorts == Ports \ {addr[s] : s \in {t \in Servers : phase[t] = "listening"}}

\* start() begins: the socket is being opened.
Open(s, port) ==
    /\ phase[s] = "none"
    /\ phase' = [phase EXCEPT ![s] = "opening"]
    /\ addr' = [addr EXCEPT ![s] = port]
    /\ UNCHANGED conn

\* The event "listening".
Opened(s) ==
    /\ phase[s] = "opening"
    /\ \E p \in FreePorts :
          /\ addr[s] \in {0, p}
          /\ addr' = [addr EXCEPT ![s] = p]
    /\ phase' = [phase EXCEPT ![s] = "listening"]
    /\ UNCHANGED conn

\* The event "error": the port is in use.
OpenFails(s) ==
    /\ phase[s] = "opening"
    /\ FreePorts = {} \/ addr[s] \notin FreePorts \cup {0}
    /\ phase' = [phase EXCEPT ![s] = "failed"]
    /\ UNCHANGED <<addr, conn>>

\* stop() begins: the socket is closed, if it listens.
Close(s) ==
    /\ Listening(s)
    /\ phase' = [phase EXCEPT ![s] = "closing"]
    /\ UNCHANGED <<addr, conn>>

ClosedWhen(s, ready) ==
    /\ phase[s] = "closing" /\ ready
    /\ phase' = [phase EXCEPT ![s] = "closed"]
    /\ UNCHANGED <<addr, conn>>

\* Fault: stop() does not wait for the event "close".
ClosedAtOnce(s) == ClosedWhen(s, TRUE)

\* The event "close": no connection is left.
Closed(s) == ClosedWhen(s, Connected(s) = {})

\* stoppable: it ends the connections that are left after a period of grace.
GraceEnds(s) ==
    /\ Graceful /\ phase[s] = "closing" /\ Connected(s) # {}
    /\ conn' = [r \in Requests |-> IF conn[r] = s THEN 0 ELSE conn[r]]
    /\ UNCHANGED <<phase, addr>>

Accept(r, s) ==
    /\ phase[s] = "listening"
    /\ conn' = [conn EXCEPT ![r] = s]
    /\ UNCHANGED <<phase, addr>>

\* The client, or the keep-alive timeout, ends the connection.
Disconnect(r) ==
    /\ conn[r] # 0
    /\ conn' = [conn EXCEPT ![r] = 0]
    /\ UNCHANGED <<phase, addr>>
=============================================================================
