----------------------------- MODULE FleetServer -----------------------------
(***************************************************************************)
(* The fleet's HTTP and MCP server (src/crates/tpt-t-cloud/src/server.rs,  *)
(* auth.rs, mcp.rs) with the trust store and the roles of tpt-t-sec        *)
(* (zerotrust.rs, rbac.rs), over the fleet of module Fleet.  One thread    *)
(* runs run_once over and over: the events of the platform loop, a pump    *)
(* that accepts and serves whatever is there, registration, and a sweep of *)
(* idle connections.  Clients connect, send a request in pieces, and may   *)
(* stall or hang up at any time.                                           *)
(*                                                                         *)
(* What a request says matters only once it is parsed, so it is chosen     *)
(* there.  A call the fleet refuses (409) changes nothing and is not a     *)
(* step of its own: the request is answered by Refused.                    *)
(***************************************************************************)
EXTENDS Fleet

CONSTANTS
    Client,         \* client connections
    Cred,           \* attestations that decode and whose signature verifies
    NoCred,         \* a missing, malformed or forged attestation
    Enrolled,       \* TrustStore: a function from some of Cred to roles
    MaxConns,       \* ServerLimits.max_conns, 0 for no limit
    IdleTimeout,    \* ServerLimits.idle_timeout, in ticks
    RequestLen      \* pieces of a request

ASSUME ServerAssumption ==
    /\ NoCred \notin Cred
    /\ MaxConns \in Nat /\ IdleTimeout \in Nat /\ RequestLen \in Nat \ {0}

VARIABLES
    gated,      \* with_security was called
    client,     \* what each client did and got
    backlog,    \* connections the kernel holds for accept
    conns,      \* FleetServer.conns by client: "none", or a connection
    loop,       \* where run_once is
    todo,       \* connections the current loop over tokens still visits
    sessions,   \* FleetServer.sessions
    served      \* the last request that acted on the fleet: by whom, and as what tool

serverVars == <<gated, client, backlog, conns, loop, todo, sessions, served>>
allVars == <<fleetVars, serverVars>>

NoConn == [got |-> 0, age |-> 0, registered |-> FALSE, open |-> FALSE]
Open == {c \in Client : conns[c].open}

-----------------------------------------------------------------------------
(* Admission.                                                              *)

\* Policy::default
Grants == [Guest    |-> {},
           Observer |-> {"ViewTelemetry", "AuditLog"},
           Operator |-> {"ViewTelemetry", "SendControl", "EngageAutonomy", "TakeManualControl"},
           AiAgent  |-> {"ViewTelemetry", "SendControl", "EngageAutonomy"},
           Admin    |-> {"ViewTelemetry", "SendControl", "EngageAutonomy", "TakeManualControl",
                         "ManageFleet", "AuditLog"}]

ASSUME RoleAssumption == \A cred \in DOMAIN Enrolled : Enrolled[cred] \in DOMAIN Grants

\* dispatch_permission, for the tools the server and the MCP endpoint name.
DispatchPermission ==
    [list_units |-> "ViewTelemetry", assign_unit |-> "ManageFleet",
     engage_autonomy |-> "EngageAutonomy", take_manual_control |-> "TakeManualControl",
     send_control |-> "SendControl"]

\* TrustStore::verify: the key is enrolled for the unit it claims.
Verified(cred) == cred \in DOMAIN Enrolled

\* extract_attestation and authenticate_request
Authenticated(cred) == cred # NoCred /\ Verified(cred)

\* ZeroTrustBroker::authenticate: the enrolled role, whatever role is claimed.
PrincipalRole(cred) == Enrolled[cred]

\* Policy::authorize, authorize_dispatch
Authorized(cred, tool) ==
    Authenticated(cred) /\ DispatchPermission[tool] \in Grants[PrincipalRole(cred)]

\* require_auth: the gate of the API; without one configured it is open.
RequireAuth(cred, tool) ==
    IF ~gated THEN 200 ELSE IF ~Authenticated(cred) THEN 401
    ELSE IF Authorized(cred, tool) THEN 200 ELSE 403

\* The actions of /api/units/<id>/<action>, by the tool name they are checked
\* under, and the tools of the MCP endpoint.
ApiAction == {"assign_unit", "engage_autonomy", "take_manual_control", "send_control"}
McpTool == {"list_units", "assign_unit", "engage_autonomy", "take_manual_control"}

\* The fleet operation behind an action or a tool.
Perform(tool, u) ==
    \/ tool = "list_units" /\ UNCHANGED fleetVars
    \/ tool = "assign_unit" /\ \E op \in FleetOperator : Assign(u, op)
    \/ tool = "engage_autonomy" /\ SetMode(u, "Auto")
    \/ tool = "take_manual_control" /\ SetMode(u, "FullTeleop")
    \/ tool = "send_control" /\ \E m \in Mode : SetMode(u, m)

-----------------------------------------------------------------------------
(* Clients.                                                                *)

ServerInit ==
    /\ FleetInit
    /\ gated \in BOOLEAN
    /\ client = [c \in Client |-> [st |-> "idle", sent |-> 0, unread |-> 0, eof |-> FALSE]]
    /\ backlog = << >>
    /\ conns = [c \in Client |-> NoConn]
    /\ loop = "dispatch" /\ todo = {}
    /\ sessions = [u \in Unit |-> NoCred]
    /\ served = [by |-> NoCred, tool |-> "none"]

Connect(c) ==
    /\ client[c].st = "idle"
    /\ client' = [client EXCEPT ![c].st = "queued"]
    /\ backlog' = Append(backlog, c)
    /\ UNCHANGED <<fleetVars, gated, conns, loop, todo, sessions, served>>

SendPiece(c) ==
    /\ client[c].st \in {"queued", "open"} /\ ~client[c].eof
    /\ client[c].sent < RequestLen
    /\ client' = [client EXCEPT ![c].sent = @ + 1, ![c].unread = @ + 1]
    /\ UNCHANGED <<fleetVars, gated, backlog, conns, loop, todo, sessions, served>>

HangUp(c) ==
    /\ client[c].st \in {"queued", "open"} /\ ~client[c].eof
    /\ client' = [client EXCEPT ![c].eof = TRUE]
    /\ UNCHANGED <<fleetVars, gated, backlog, conns, loop, todo, sessions, served>>

\* Time passes for every connection.
Tick ==
    /\ \E c \in Open : conns[c].age <= IdleTimeout
    /\ conns' = [c \in Client |-> IF conns[c].open /\ conns[c].age <= IdleTimeout
                                  THEN [conns[c] EXCEPT !.age = @ + 1] ELSE conns[c]]
    /\ UNCHANGED <<fleetVars, gated, client, backlog, loop, todo, sessions, served>>

-----------------------------------------------------------------------------
(* The server.                                                             *)

\* A mutated form: the cap is compared with > instead of >=.
RoomOneMore == IF MaxConns = 0 \/ MaxConns - Cardinality(Open) + 1 >= Len(backlog)
               THEN Len(backlog) ELSE MaxConns - Cardinality(Open) + 1

\* try_accept: how many of the backlog there is room for.
Room == IF MaxConns = 0 \/ MaxConns - Cardinality(Open) >= Len(backlog)
        THEN Len(backlog) ELSE MaxConns - Cardinality(Open)

\* try_accept: everyone in the backlog, up to the cap.  The connection that
\* finds the cap reached has left the backlog by then and is closed.
TryAccept ==
    LET taken == {backlog[i] : i \in 1 .. Room}
        refused == {backlog[i] : i \in {Room + 1} \cap DOMAIN backlog}
    IN  /\ conns' = [c \in Client |-> IF c \in taken THEN [NoConn EXCEPT !.open = TRUE] ELSE conns[c]]
        /\ client' = [c \in Client |->
              IF c \in taken THEN [client[c] EXCEPT !.st = "open"]
              ELSE IF c \in refused THEN [client[c] EXCEPT !.st = "closed"] ELSE client[c]]
        /\ backlog' = SubSeq(backlog, Room + 2, Len(backlog))

\* EventHandler::ready is called for a registered connection with something to read.
Ready(c) == conns[c].registered /\ (client[c].unread > 0 \/ client[c].eof)

\* run_once, ev.dispatch: some of what is ready; the listener's event accepts.
Dispatch ==
    /\ loop = "dispatch"
    /\ todo' \in SUBSET {c \in Open : Ready(c)}
    /\ TryAccept \/ UNCHANGED <<conns, client, backlog>>
    /\ loop' = "events"
    /\ UNCHANGED <<fleetVars, gated, sessions, served>>

\* pump: accept, and visit every connection.
Pump ==
    /\ loop = "events" /\ todo = {}
    /\ TryAccept
    /\ todo' = {c \in Client : conns'[c].open}
    /\ loop' = "serve"
    /\ UNCHANGED <<fleetVars, gated, sessions, served>>

\* sweep_idle
Idle(c) == conns[c].age > IdleTimeout

\* register_pending (a registration may fail and is tried again) and sweep_idle.
RegisterAndSweep ==
    /\ loop = "serve" /\ todo = {}
    /\ \E failed \in SUBSET {c \in Open : ~conns[c].registered} :
          conns' = [c \in Client |->
             IF ~conns[c].open THEN conns[c]
             ELSE IF Idle(c) THEN NoConn
             ELSE [conns[c] EXCEPT !.registered = c \notin failed]]
    /\ client' = [c \in Client |->
          IF conns[c].open /\ ~conns'[c].open THEN [client[c] EXCEPT !.st = "closed"] ELSE client[c]]
    /\ loop' = "dispatch"
    /\ UNCHANGED <<fleetVars, gated, backlog, todo, sessions, served>>

\* The connection is dropped, answered or not.
Close(c, how) ==
    /\ conns' = [conns EXCEPT ![c] = NoConn]
    /\ client' = [client EXCEPT ![c].st = how, ![c].unread = 0]

\* A mutated form: every visit counts as activity.
ServeReadTouching(c) ==
    /\ c \in todo /\ conns[c].open /\ ~client[c].eof
    /\ conns' = [conns EXCEPT ![c].got = @ + client[c].unread, ![c].age = 0]
    /\ client' = [client EXCEPT ![c].unread = 0]

\* service_conn, the read loop when it ends with WouldBlock.  That it ends is an
\* assumption on the peer: the loop has no bound, and the limit of 1 MiB is
\* looked at after it, so the server stays with a peer for as long as that peer
\* sends faster than the server reads.
ServeRead(c) ==
    /\ c \in todo /\ conns[c].open /\ ~client[c].eof
    /\ conns' = [conns EXCEPT ![c].got = @ + client[c].unread,
                              ![c].age = IF client[c].unread > 0 THEN 0 ELSE @]
    /\ client' = [client EXCEPT ![c].unread = 0]

\* service_conn: end of stream drops the connection, even when the bytes read
\* before it complete a request; so do a malformed and an oversized request
\* and an error of the socket.
ServeDrop(c) ==
    /\ c \in todo /\ conns[c].open
    /\ client[c].eof \/ conns[c].got + client[c].unread > 0
    /\ Close(c, "closed")
    /\ todo' = todo \ {c}
    /\ UNCHANGED <<fleetVars, gated, backlog, loop, sessions, served>>

\* service_conn: the request is not complete, keep what was read.
ServePartial(c) ==
    /\ conns[c].got + client[c].unread < RequestLen
    /\ ServeRead(c)
    /\ todo' = todo \ {c}
    /\ UNCHANGED <<fleetVars, gated, backlog, loop, sessions, served>>

\* The request of c is complete, and is answered.
Answer(c) ==
    /\ c \in todo /\ conns[c].open /\ ~client[c].eof
    /\ conns[c].got + client[c].unread = RequestLen
    /\ Close(c, "answered")
    /\ todo' = todo \ {c}
    /\ UNCHANGED <<gated, backlog, loop>>

\* dispatch: a request that only reads, or is not found, or is refused by the
\* gate, by the fleet or for what its body says.
Refused(c) ==
    /\ Answer(c)
    /\ UNCHANGED <<fleetVars, sessions, served>>

\* handle_secure_handshake: the session of the attested peer is kept for the
\* unit the path names.
Handshake(c, u, cred) ==
    /\ gated
    /\ Answer(c)
    /\ sessions' = [sessions EXCEPT ![u] = cred]
    /\ UNCHANGED <<fleetVars, served>>

\* api_response and mode_action: the fleet's operation runs once the gate let
\* the request through.
ApiCall(c, tool, u, cred) ==
    /\ RequireAuth(cred, tool) = 200
    /\ Answer(c)
    /\ Perform(tool, u)
    /\ served' = [by |-> cred, tool |-> tool]
    /\ UNCHANGED sessions

\* A mutated form: the tool call is run without asking the gate.
McpCallUngated(c, tool, u, cred) ==
    /\ gated => Authenticated(cred)
    /\ Answer(c)
    /\ Perform(tool, u)
    /\ served' = [by |-> cred, tool |-> tool]
    /\ UNCHANGED sessions

\* dispatch of /mcp authenticates, McpServer::handle and call_tool ask the gate
\* for the tool and run it.
McpCall(c, tool, u, cred) ==
    /\ gated => Authenticated(cred) /\ Authorized(cred, tool)
    /\ Answer(c)
    /\ Perform(tool, u)
    /\ served' = [by |-> cred, tool |-> tool]
    /\ UNCHANGED sessions

ServeConn(c) ==
    \/ ServeDrop(c) \/ ServePartial(c) \/ Refused(c)
    \/ \E u \in Unit, cred \in Cred : Handshake(c, u, cred)
    \/ \E u \in Unit, cred \in Cred \cup {NoCred} :
          \/ \E tool \in ApiAction : ApiCall(c, tool, u, cred)
          \/ \E tool \in McpTool : McpCall(c, tool, u, cred)

Server == Dispatch \/ Pump \/ RegisterAndSweep \/ \E c \in Client : ServeConn(c)

\* The application that embeds the server registers its units.
Register(u) ==
    /\ RegisterUnit(u, "null")
    /\ UNCHANGED serverVars

ServerNext ==
    \/ Server \/ Tick
    \/ \E c \in Client : Connect(c) \/ SendPiece(c) \/ HangUp(c)
    \/ \E u \in Unit : Register(u)

\* run_once is called in a loop, and the clock runs.  Clients owe nothing.
ServerFair == WF_allVars(Server) /\ WF_allVars(Tick)

ServerSpec == ServerInit /\ [][ServerNext]_allVars /\ ServerFair

-----------------------------------------------------------------------------
(* Properties.                                                             *)

\* "bound concurrent connections" (server.rs, doc of ServerLimits): the table
\* never holds more than the cap, and holds exactly the clients that were
\* accepted and neither answered nor dropped.
ConnsAccounted ==
    /\ MaxConns > 0 => Cardinality(Open) <= MaxConns
    /\ Open = {c \in Client : client[c].st = "open"}
    /\ {backlog[i] : i \in DOMAIN backlog} = {c \in Client : client[c].st = "queued"}

\* "missing or insufficient attestation yields 401 / 403 before any fleet
\* mutation runs" (auth.rs), told by what changes: on a gated server only an
\* administrator assigns units, and the mode of a unit changes only for an
\* enrolled operator, AI agent or administrator; an AI agent gets a unit into
\* FullTeleop by no tool of the MCP endpoint and no action but POST /command,
\* through every path of one or two segments and every failure on it.  That it
\* does by POST /command is what ManualControlScoped is about.
GatedMutation ==
    [][gated =>
          \A u \in {w \in Unit : Known(w)} :
             /\ units'[u].mode # units[u].mode =>
                   /\ served'.by \in DOMAIN Enrolled
                   /\ Enrolled[served'.by] \in {"Operator", "AiAgent", "Admin"}
                   /\ units'[u].mode = "FullTeleop" /\ served'.tool # "send_control" =>
                         Enrolled[served'.by] # "AiAgent"
             /\ units'[u].operator # units[u].operator =>
                   served'.by \in DOMAIN Enrolled /\ Enrolled[served'.by] = "Admin"]_allVars

\* "Take manual (Full-Teleop) control" (rbac.rs, doc of
\* Permission::TakeManualControl), and "scopes tools such as [...]
\* `take_manual_control` to the appropriate roles" (SECURITY.md): on a gated
\* server a unit gets into FullTeleop only for a role with that permission.
ManualControlScoped ==
    [][gated =>
          \A u \in {w \in Unit : Known(w)} :
             units[u].mode # "FullTeleop" /\ units'[u].mode = "FullTeleop" =>
                "TakeManualControl" \in Grants[Enrolled[served'.by]]]_allVars

\* "drop idle ones so a single peer cannot exhaust file descriptors or pin
\* memory" (server.rs, doc of ServerLimits): every client that connects is in
\* the end answered or dropped, whether it sends its request in pieces, stalls,
\* or hangs up, at the cap too.  A request is finite here: see ServeRead.
ClientResolved ==
    \A c \in Client : client[c].st = "queued" ~> client[c].st \in {"answered", "closed"}
=============================================================================
