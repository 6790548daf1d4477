------------------------------- MODULE Server -------------------------------
(***************************************************************************)
(* The tables of a Server and the handler tasks it runs: which addresses   *)
(* have a Connection, which of those are peers, the address each GUID      *)
(* connects from, and close().  Datagram callbacks, ticks of the update    *)
(* loop and handlers run in turns on one event loop; close() waits between *)
(* its parts.  A connection is seen here by its state and the signals it   *)
(* gives; module Connection has the rest of it.                            *)
(***************************************************************************)
EXTENDS Naturals, FiniteSets, Sequences, Functions

CONSTANTS
    Addr,             \* remote addresses
    Guid,             \* GUIDs of clients
    ZeroGuid,         \* GUID 0, which the removal takes for none
    Offers,           \* <<a, g>>: a client at address a may present GUID g
    MaxConnections,   \* max_connections
    MaxCreated,       \* bound: connections created
    MayClose,         \* whether close() is called
    NoAddr            \* for a GUID without an address

ASSUME ServerAssumption ==
    /\ Offers \subseteq Addr \X Guid /\ NoAddr \notin Addr
    /\ MaxConnections \in Nat /\ MaxCreated \in Nat /\ MayClose \in BOOLEAN

VARIABLES
    conn,       \* the connections ever created, in order: remote_guid is guid,
                \* and entered the GUID under which _guid_to_addr has it
    registry,   \* _connections: address -> connection, None if there is none
    peers,      \* _peers, likewise
    tasks,      \* _handler_tasks, likewise, a task being known by its connection
    guidAddr,   \* _guid_to_addr
    handlers,   \* the connections whose handler is running
    fed,        \* those whose iterator has been given the end
    phase,      \* how far close() has come
    notify,     \* its argument
    joining     \* the tasks it has still to cancel and await

tables == <<registry, peers, tasks, guidAddr>>
closing == <<phase, notify, joining>>
vars == <<conn, tables, handlers, fed, closing>>

None == 0
Ids == 1 .. MaxCreated

Init ==
    /\ conn = << >>
    /\ registry = [a \in Addr |-> None] /\ peers = registry /\ tasks = registry
    /\ guidAddr = [g \in Guid |-> NoAddr]
    /\ handlers = {} /\ fed = {}
    /\ phase = "open" /\ notify = FALSE /\ joining = {}

Receiving == phase # "closed"
Updating == phase \in {"open", "draining"}

SetState(id, s) == conn' = [conn EXCEPT ![id].state = s]

----------------------------------------------------------------------------
(* Connections come.                                                       *)

\* A fault: a connection that is disconnecting does not hold its GUID.
GuidInUseConnected(g, a) ==
    LET b == guidAddr[g]
    IN  /\ b \notin {NoAddr, a}
        /\ registry[b] # None /\ conn[registry[b]].state \in {"CONNECTING", "CONNECTED"}

\* The GUID check of _create_connection_from_ocr2.
GuidInUse(g, a) ==
    LET b == guidAddr[g]
    IN  /\ b \notin {NoAddr, a}
        /\ registry[b] # None /\ conn[registry[b]].state # "DISCONNECTED"

AtCapacity == Cardinality({a \in Addr : peers[a] # None}) >= MaxConnections

\* ID_OPEN_CONNECTION_REQUEST_2 from a new address.
Create ==
    \E a \in Addr, g \in Guid :
        /\ <<a, g>> \in Offers
        /\ phase = "open" /\ registry[a] = None
        /\ ~GuidInUse(g, a) /\ ~AtCapacity
        /\ Len(conn) < MaxCreated
        /\ conn' = Append(conn, [addr |-> a, entered |-> g, guid |-> g,
                                 state |-> "CONNECTING"])
        /\ registry' = [registry EXCEPT ![a] = Len(conn) + 1]
        /\ guidAddr' = [guidAddr EXCEPT ![g] = a]
        /\ UNCHANGED <<peers, tasks, handlers, fed, closing>>

\* A request with another GUID from a known address, offline or reliable.
Identify ==
    \E a \in Addr, g \in Guid :
        /\ <<a, g>> \in Offers
        /\ Receiving /\ registry[a] # None /\ conn[registry[a]].state = "CONNECTING"
        /\ conn' = [conn EXCEPT ![registry[a]].guid = g]
        /\ UNCHANGED <<tables, handlers, fed, closing>>

\* ID_NEW_INCOMING_CONNECTION, and _process_signals for CONNECT.
Connect ==
    \E a \in Addr :
        LET id == registry[a]
        IN  /\ Receiving /\ id # None /\ conn[id].state = "CONNECTING"
            /\ SetState(id, "CONNECTED")
            /\ peers' = [peers EXCEPT ![a] = id]
            /\ tasks' = [tasks EXCEPT ![a] = id]
            /\ handlers' = handlers \cup {id}
            /\ UNCHANGED <<registry, guidAddr, fed, closing>>

----------------------------------------------------------------------------
(* Connections go.                                                         *)

\* The GUID of the connection is forgotten if it still leads to its address.
Forget(g, a) ==
    guidAddr' = IF g # ZeroGuid /\ guidAddr[g] = a
                THEN [guidAddr EXCEPT ![g] = NoAddr] ELSE guidAddr

\* A fault: the handler's task stays in the table.
RemoveKeepsTask(a) ==
    LET id == IF peers[a] # None THEN peers[a] ELSE registry[a]
    IN  /\ fed' = IF peers[a] # None THEN fed \cup {peers[a]} ELSE fed
        /\ Forget(conn[id].guid, a)
        /\ peers' = [peers EXCEPT ![a] = None]
        /\ registry' = [registry EXCEPT ![a] = None]
        /\ UNCHANGED <<tasks, handlers, closing>>

\* A fault: the GUID of a connection that never became a peer is kept.
RemoveKeepsGuid(a) ==
    /\ fed' = IF peers[a] # None THEN fed \cup {peers[a]} ELSE fed
    /\ \/ peers[a] # None /\ Forget(conn[peers[a]].guid, a)
       \/ peers[a] = None /\ UNCHANGED guidAddr
    /\ peers' = [peers EXCEPT ![a] = None]
    /\ registry' = [registry EXCEPT ![a] = None]
    /\ tasks' = [tasks EXCEPT ![a] = None]
    /\ UNCHANGED <<handlers, closing>>

\* A fault: the iterator of the peer is not given its end.
RemoveUnfed(a) ==
    LET id == IF peers[a] # None THEN peers[a] ELSE registry[a]
    IN  /\ Forget(conn[id].guid, a)
        /\ peers' = [peers EXCEPT ![a] = None]
        /\ registry' = [registry EXCEPT ![a] = None]
        /\ tasks' = [tasks EXCEPT ![a] = None]
        /\ UNCHANGED <<fed, handlers, closing>>

\* _process_signals for DISCONNECT.
Remove(a) ==
    LET id == IF peers[a] # None THEN peers[a] ELSE registry[a]
    IN  /\ fed' = IF peers[a] # None THEN fed \cup {peers[a]} ELSE fed
        /\ Forget(conn[id].guid, a)
        /\ peers' = [peers EXCEPT ![a] = None]
        /\ registry' = [registry EXCEPT ![a] = None]
        /\ tasks' = [tasks EXCEPT ![a] = None]
        /\ UNCHANGED <<handlers, closing>>

\* The peer disconnects.
NotificationReceived ==
    \E a \in Addr :
        /\ Receiving /\ registry[a] # None
        /\ conn[registry[a]].state \in {"CONNECTED", "DISCONNECTING"}
        /\ SetState(registry[a], "DISCONNECTING")
        /\ Remove(a)

\* An update times the connection out, completes its disconnect, or finds it
\* dropped; a datagram for a dropped connection has that effect too.
Ended ==
    \E a \in Addr :
        /\ registry[a] # None
        /\ Updating \/ (Receiving /\ conn[registry[a]].state = "DISCONNECTED")
        /\ SetState(registry[a], "DISCONNECTED")
        /\ Remove(a)

\* disconnect() with and without notification, from a handler or elsewhere.
Disconnect ==
    \E id \in DOMAIN conn :
        /\ Receiving /\ conn[id].state = "CONNECTED"
        /\ \/ SetState(id, "DISCONNECTING")
           \/ SetState(id, "DISCONNECTED")
        /\ UNCHANGED <<tables, handlers, fed, closing>>

\* The handler returns, raises or is cancelled; its finally clause goes by
\* the address.
HandlerEnds(id) ==
    /\ id \in handlers
    /\ handlers' = handlers \ {id}
    /\ tasks' = [tasks EXCEPT ![conn[id].addr] = None]

HandlerReturns ==
    \E id \in handlers :
        HandlerEnds(id) /\ UNCHANGED <<conn, registry, peers, guidAddr, fed, closing>>

----------------------------------------------------------------------------
(* close().                                                                *)

Close ==
    /\ MayClose /\ phase = "open"
    /\ notify' \in BOOLEAN
    /\ phase' = IF notify' THEN "draining" ELSE "stopping"
    /\ conn' = [id \in DOMAIN conn |->
                   IF notify' /\ id \in Range(peers) /\ conn[id].state = "CONNECTED"
                   THEN [conn[id] EXCEPT !.state = "DISCONNECTING"]
                   ELSE conn[id]]
    /\ UNCHANGED <<tables, handlers, fed, joining>>

\* _drain_all is over, after a second if need be, and the loop is cancelled.
Drained ==
    /\ phase = "draining" /\ phase' = "stopping"
    /\ UNCHANGED <<conn, tables, handlers, fed, notify, joining>>

\* A fault: addresses without a task are joined as well.
SignalHandlersAll ==
    /\ phase = "stopping" /\ phase' = "joining"
    /\ fed' = fed \cup (Range(peers) \ {None})
    /\ joining' = Range(tasks)
    /\ UNCHANGED <<conn, tables, handlers, notify>>

SignalHandlers ==
    /\ phase = "stopping" /\ phase' = "joining"
    /\ fed' = fed \cup (Range(peers) \ {None})
    /\ joining' = Range(tasks) \ {None}
    /\ UNCHANGED <<conn, tables, handlers, notify>>

\* One task is cancelled and awaited; meanwhile the socket is still read.
Join ==
    \E id \in joining :
        /\ joining' = joining \ {id}
        /\ \/ HandlerEnds(id)
           \/ id \notin handlers /\ UNCHANGED <<handlers, tasks>>
        /\ UNCHANGED <<conn, registry, peers, guidAddr, fed, phase, notify>>

CloseEnds ==
    /\ phase = "joining" /\ joining = {} /\ phase' = "closed"
    /\ registry' = [a \in Addr |-> None] /\ peers' = registry' /\ tasks' = registry'
    /\ guidAddr' = [g \in Guid |-> NoAddr]
    /\ UNCHANGED <<conn, handlers, fed, notify, joining>>

Next ==
    \/ Create \/ Identify \/ Connect
    \/ NotificationReceived \/ Ended \/ Disconnect \/ HandlerReturns
    \/ Close \/ Drained \/ SignalHandlers \/ Join \/ CloseEnds

Spec == Init /\ [][Next]_vars

----------------------------------------------------------------------------
States == {"CONNECTING", "CONNECTED", "DISCONNECTING", "DISCONNECTED"}
Connections == [addr : Addr, entered : Guid, guid : Guid, state : States]

(***************************************************************************)
(* The types of the tables: connections are those that were created, and   *)
(* close() joins handlers of connections only.                             *)
(***************************************************************************)
TypeOK ==
    /\ conn \in Seq(Connections)
    /\ Len(conn) <= MaxCreated
    /\ registry \in [Addr -> {None} \cup DOMAIN conn]
    /\ peers \in [Addr -> {None} \cup DOMAIN conn]
    /\ tasks \in [Addr -> {None} \cup DOMAIN conn]
    /\ guidAddr \in [Guid -> Addr \cup {NoAddr}]
    /\ handlers \subseteq DOMAIN conn /\ fed \subseteq DOMAIN conn
    /\ joining \subseteq DOMAIN conn
    /\ phase \in {"open", "draining", "stopping", "joining", "closed"}
    /\ notify \in BOOLEAN

(***************************************************************************)
(* The tables tell one story: a peer is the connection its address has     *)
(* now, and has been CONNECTED; a task that is kept for an address is the  *)
(* handler of that peer and is running.  Handlers of earlier connections   *)
(* from the address may still be finishing, connections are dropped        *)
(* without notice, and close() runs next to it all.                        *)
(***************************************************************************)
TablesAgree ==
    \A a \in Addr :
        /\ peers[a] # None =>
              /\ registry[a] = peers[a] /\ conn[peers[a]].addr = a
              /\ conn[peers[a]].state # "CONNECTING"
        /\ tasks[a] # None => peers[a] = tasks[a] /\ tasks[a] \in handlers

(***************************************************************************)
(* No two connections that are not DISCONNECTED were let in under the same *)
(* GUID, when a client comes back from another port while its old          *)
(* connection lingers, is being dropped or ends, when an address is used   *)
(* again by another client, and when connections change their GUID.  So    *)
(* the GUIDs of connections that kept theirs differ.                       *)
(***************************************************************************)
GuidUnique ==
    \A a, b \in Addr :
        /\ a # b /\ registry[a] # None /\ registry[b] # None
        /\ conn[registry[a]].entered = conn[registry[b]].entered
        => "DISCONNECTED" \in {conn[registry[a]].state, conn[registry[b]].state}

\* The connection was let in under one GUID and then presented another.
Renamed(id) == conn[id].guid # conn[id].entered

(***************************************************************************)
(* _guid_to_addr is cleaned up: an address it gives has a connection,      *)
(* unless the GUID is 0 or the connection that was let in under it, from   *)
(* that address, presented another one.  Nothing else leaves a stale       *)
(* entry: not the end of a connection that was no peer yet, not its        *)
(* replacement from another port, not the next client at its address.      *)
(***************************************************************************)
GuidMapClean ==
    \A g \in Guid \ {ZeroGuid} :
        \/ guidAddr[g] = NoAddr \/ registry[guidAddr[g]] # None
        \/ \E id \in DOMAIN conn :
              conn[id].addr = guidAddr[g] /\ conn[id].entered = g /\ Renamed(id)

(***************************************************************************)
(* A handler that is running can end: its peer is still there to send it   *)
(* something, or its iterator was given the end, although its address may  *)
(* have a new connection by now and its task may be in no table.  (When    *)
(* close() joins the handlers, it no longer looks for new ones.)           *)
(***************************************************************************)
HandlersReleased ==
    phase \notin {"joining", "closed"} =>
        \A id \in handlers : peers[conn[id].addr] = id \/ id \in fed
=============================================================================
