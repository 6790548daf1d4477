---------------------------- MODULE ServerProofs ----------------------------
(***************************************************************************)
(* The tables of a server agree for any number of addresses, GUIDs and     *)
(* connections, and the handlers it runs can end.                          *)
(***************************************************************************)
EXTENDS Server, TLAPS

(* What the invariants lean on: the registry files a connection under its  *)
(* own address.                                                            *)
FiledByAddress ==
    \A a \in Addr : registry[a] # None => conn[registry[a]].addr = a

IInv == TypeOK /\ FiledByAddress /\ TablesAgree /\ HandlersReleased

(* Typed access to the fields of a connection. *)
LEMMA ConnFields ==
    ASSUME TypeOK, NEW id \in DOMAIN conn
    PROVE  /\ id \in Nat \ {None} /\ conn[id] \in Connections
           /\ conn[id].addr \in Addr /\ conn[id].entered \in Guid
           /\ conn[id].guid \in Guid /\ conn[id].state \in States
  <1>1. conn \in Seq(Connections)
    BY DEF TypeOK
  <1>2. id \in Nat \ {None} /\ conn[id] \in Connections
    BY <1>1 DEF None
  <1> QED
    BY <1>2 DEF Connections

(* A step that sets the state of a connection changes nothing else of it.  *)
LEMMA StateSet ==
    ASSUME TypeOK, NEW id \in DOMAIN conn, NEW s \in States, SetState(id, s)
    PROVE  /\ conn' \in Seq(Connections)
           /\ DOMAIN conn' = DOMAIN conn /\ Len(conn') = Len(conn)
           /\ \A k \in DOMAIN conn :
                 /\ conn'[k].addr = conn[k].addr /\ conn'[k].guid = conn[k].guid
                 /\ conn'[k].entered = conn[k].entered
                 /\ conn'[k].state = IF k = id THEN s ELSE conn[k].state
  <1>1. conn \in Seq(Connections)
    BY DEF TypeOK
  <1> DEFINE c == [conn[id] EXCEPT !.state = s]
  <1>2. /\ c \in Connections
        /\ c.addr = conn[id].addr /\ c.guid = conn[id].guid /\ c.state = s
        /\ c.entered = conn[id].entered
    BY ConnFields DEF Connections
  <1>3. conn' = [conn EXCEPT ![id] = c]
    BY DEF SetState
  <1> HIDE DEF c
  <1>4. /\ conn' \in Seq(Connections) /\ DOMAIN conn' = DOMAIN conn
        /\ Len(conn') = Len(conn)
        /\ \A k \in DOMAIN conn : conn'[k] = IF k = id THEN c ELSE conn[k]
    BY <1>1, <1>2, <1>3
  <1> QED
    BY <1>2, <1>4

(* New connections are numbered on. *)
LEMMA ConnAppended ==
    ASSUME TypeOK, NEW c \in Connections, conn' = Append(conn, c)
    PROVE  /\ conn' \in Seq(Connections) /\ Len(conn') = Len(conn) + 1
           /\ Len(conn) + 1 \in Nat \ {None}
           /\ DOMAIN conn' = DOMAIN conn \cup {Len(conn) + 1}
           /\ Len(conn) + 1 \notin DOMAIN conn
           /\ \A k \in DOMAIN conn : conn'[k] = conn[k]
           /\ conn'[Len(conn) + 1] = c
  <1>1. conn \in Seq(Connections)
    BY DEF TypeOK
  <1> QED
    BY <1>1 DEF None

----------------------------------------------------------------------------
(* One step.                                                               *)

LEMMA CreateStep ==
    ASSUME IInv, Create
    PROVE  IInv'
  <1>1. PICK a \in Addr, g \in Guid :
            /\ phase = "open" /\ registry[a] = None
            /\ Len(conn) < MaxCreated
            /\ conn' = Append(conn, [addr |-> a, entered |-> g, guid |-> g, state |-> "CONNECTING"])
            /\ registry' = [registry EXCEPT ![a] = Len(conn) + 1]
            /\ guidAddr' = [guidAddr EXCEPT ![g] = a]
            /\ UNCHANGED <<peers, tasks, handlers, fed, closing>>
    BY DEF Create
  <1> DEFINE c == [addr |-> a, entered |-> g, guid |-> g, state |-> "CONNECTING"]
             id == Len(conn) + 1
  <1>2. c \in Connections /\ c.addr = a
    BY DEF Connections, States
  <1> HIDE DEF c
  <1>3. /\ conn' \in Seq(Connections) /\ Len(conn') = id
        /\ id \in Nat \ {None}
        /\ DOMAIN conn' = DOMAIN conn \cup {id} /\ id \notin DOMAIN conn
        /\ \A k \in DOMAIN conn : conn'[k] = conn[k]
        /\ conn'[id] = c
    BY <1>1, <1>2, ConnAppended DEF IInv, c
  <1> HIDE DEF id
  <1>4. registry' = [registry EXCEPT ![a] = id]
    BY <1>1 DEF id
  <1>5. TypeOK'
    <2>1. Len(conn') <= MaxCreated
      BY <1>1, <1>3, ServerAssumption DEF id, IInv, TypeOK
    <2> QED
      BY <1>1, <1>3, <1>4, <2>1 DEF IInv, TypeOK, closing
  <1>6. FiledByAddress'
    BY <1>2, <1>3, <1>4 DEF IInv, TypeOK, FiledByAddress
  <1>7. TablesAgree'
    BY <1>1, <1>3, <1>4 DEF IInv, TypeOK, TablesAgree
  <1>8. HandlersReleased'
    BY <1>1, <1>3 DEF IInv, TypeOK, HandlersReleased, closing
  <1> QED
    BY <1>5, <1>6, <1>7, <1>8 DEF IInv

LEMMA IdentifyStep ==
    ASSUME IInv, Identify
    PROVE  IInv'
  <1>1. PICK a \in Addr, g \in Guid :
            /\ Receiving /\ registry[a] # None
            /\ conn' = [conn EXCEPT ![registry[a]].guid = g]
            /\ UNCHANGED <<tables, handlers, fed, closing>>
    BY DEF Identify
  <1> DEFINE id == registry[a]
             c == [conn[id] EXCEPT !.guid = g]
  <1>2. id \in DOMAIN conn /\ conn \in Seq(Connections)
    BY <1>1 DEF IInv, TypeOK
  <1>3. c \in Connections /\ c.addr = conn[id].addr /\ c.state = conn[id].state
    BY <1>2, ConnFields DEF IInv, Connections
  <1>4. conn' = [conn EXCEPT ![id] = c]
    BY <1>1
  <1> HIDE DEF c, id
  <1>5. /\ conn' \in Seq(Connections) /\ Len(conn') = Len(conn)
        /\ DOMAIN conn' = DOMAIN conn
        /\ \A k \in DOMAIN conn : conn'[k] = IF k = id THEN c ELSE conn[k]
    BY <1>2, <1>3, <1>4
  <1>6. \A k \in DOMAIN conn :
            conn'[k].addr = conn[k].addr /\ conn'[k].state = conn[k].state
    BY <1>3, <1>5
  <1> QED
    BY <1>1, <1>5, <1>6
       DEF IInv, TypeOK, FiledByAddress, TablesAgree, HandlersReleased, tables, closing

LEMMA ConnectStep ==
    ASSUME IInv, Connect
    PROVE  IInv'
  <1>1. PICK a \in Addr :
            /\ Receiving /\ registry[a] # None
            /\ conn[registry[a]].state = "CONNECTING"
            /\ SetState(registry[a], "CONNECTED")
            /\ peers' = [peers EXCEPT ![a] = registry[a]]
            /\ tasks' = [tasks EXCEPT ![a] = registry[a]]
            /\ handlers' = handlers \cup {registry[a]}
            /\ UNCHANGED <<registry, guidAddr, fed, closing>>
    BY DEF Connect
  <1> DEFINE id == registry[a]
  <1>2. id \in DOMAIN conn
    BY <1>1 DEF IInv, TypeOK
  <1> HIDE DEF id
  <1>3. /\ conn' \in Seq(Connections)
        /\ DOMAIN conn' = DOMAIN conn /\ Len(conn') = Len(conn)
        /\ \A k \in DOMAIN conn :
              /\ conn'[k].addr = conn[k].addr
              /\ conn'[k].state = IF k = id THEN "CONNECTED" ELSE conn[k].state
    BY <1>1, <1>2, StateSet DEF IInv, States, id
  <1>4. TypeOK'
    BY <1>1, <1>2, <1>3 DEF IInv, TypeOK, closing, id
  <1>5. FiledByAddress'
    BY <1>1, <1>3 DEF IInv, TypeOK, FiledByAddress
  <1>6. TablesAgree'
    BY <1>1, <1>2, <1>3 DEF IInv, TypeOK, FiledByAddress, TablesAgree, id
  <1>7. peers[a] = None /\ conn[id].addr = a
    BY <1>1, <1>2 DEF IInv, TypeOK, FiledByAddress, TablesAgree, id
  <1>8. HandlersReleased'
    <2>1. \A k \in DOMAIN conn : conn[k].addr \in Addr
      BY ConnFields DEF IInv
    <2> SUFFICES ASSUME phase \notin {"joining", "closed"}, NEW k \in handlers'
                 PROVE  peers'[conn'[k].addr] = k \/ k \in fed'
      BY <1>1 DEF HandlersReleased, closing
    <2>2. CASE k = id
      BY <1>1, <1>2, <1>3, <1>7, <2>2 DEF IInv, TypeOK, id
    <2>3. CASE k # id
      <3>1. k \in handlers /\ k \in DOMAIN conn
        BY <1>1, <2>3 DEF IInv, TypeOK, id
      <3>2. peers[conn[k].addr] = k \/ k \in fed
        BY <3>1 DEF IInv, HandlersReleased
      <3>3. k # None
        BY <3>1, ConnFields DEF IInv
      <3> QED
        BY <1>1, <1>3, <1>7, <2>1, <3>1, <3>2, <3>3 DEF IInv, TypeOK
    <2> QED
      BY <2>2, <2>3
  <1> QED
    BY <1>4, <1>5, <1>6, <1>8 DEF IInv

(* What the removal of a connection does to the tables, whatever becomes   *)
(* of its state.                                                           *)
LEMMA RemoveStep ==
    ASSUME IInv, NEW a \in Addr, registry[a] # None, NEW s \in States,
           s # "CONNECTING", SetState(registry[a], s), Remove(a)
    PROVE  IInv'
  <1> DEFINE id == registry[a]
  <1>1. id \in DOMAIN conn
    BY DEF IInv, TypeOK
  <1> HIDE DEF id
  <1>2. /\ conn' \in Seq(Connections)
        /\ DOMAIN conn' = DOMAIN conn /\ Len(conn') = Len(conn)
        /\ \A k \in DOMAIN conn :
              /\ conn'[k].addr = conn[k].addr
              /\ conn'[k].state = IF k = id THEN s ELSE conn[k].state
    BY <1>1, StateSet DEF IInv, id
  <1>3. /\ fed' = IF peers[a] # None THEN fed \cup {peers[a]} ELSE fed
        /\ guidAddr' \in [Guid -> Addr \cup {NoAddr}]
        /\ peers' = [peers EXCEPT ![a] = None]
        /\ registry' = [registry EXCEPT ![a] = None]
        /\ tasks' = [tasks EXCEPT ![a] = None]
        /\ UNCHANGED <<handlers, closing>>
    BY DEF Remove, Forget, IInv, TypeOK
  <1>4. TypeOK'
    BY <1>2, <1>3 DEF IInv, TypeOK, closing
  <1>5. FiledByAddress'
    BY <1>2, <1>3 DEF IInv, TypeOK, FiledByAddress
  <1>6. TablesAgree'
    BY <1>2, <1>3 DEF IInv, TypeOK, TablesAgree
  <1>7. HandlersReleased'
    <2>1. \A k \in DOMAIN conn : conn[k].addr \in Addr
      BY ConnFields DEF IInv
    <2> QED
      BY <1>2, <1>3, <2>1 DEF IInv, TypeOK, HandlersReleased, closing
  <1> QED
    BY <1>4, <1>5, <1>6, <1>7 DEF IInv

LEMMA NotificationStep ==
    ASSUME IInv, NotificationReceived
    PROVE  IInv'
  BY RemoveStep DEF NotificationReceived, States

LEMMA EndedStep ==
    ASSUME IInv, Ended
    PROVE  IInv'
  BY RemoveStep DEF Ended, States

LEMMA DisconnectStep ==
    ASSUME IInv, Disconnect
    PROVE  IInv'
  <1>1. PICK id \in DOMAIN conn, s \in {"DISCONNECTING", "DISCONNECTED"} :
            /\ SetState(id, s)
            /\ UNCHANGED <<tables, handlers, fed, closing>>
    BY DEF Disconnect
  <1>2. /\ conn' \in Seq(Connections)
        /\ DOMAIN conn' = DOMAIN conn /\ Len(conn') = Len(conn)
        /\ \A k \in DOMAIN conn :
              /\ conn'[k].addr = conn[k].addr
              /\ conn'[k].state = IF k = id THEN s ELSE conn[k].state
    BY <1>1, StateSet DEF IInv, States
  <1>3. TypeOK'
    BY <1>1, <1>2 DEF IInv, TypeOK, tables, closing
  <1>4. FiledByAddress'
    BY <1>1, <1>2 DEF IInv, TypeOK, FiledByAddress, tables
  <1>5. TablesAgree'
    BY <1>1, <1>2 DEF IInv, TypeOK, TablesAgree, tables
  <1>6. HandlersReleased'
    BY <1>1, <1>2 DEF IInv, TypeOK, HandlersReleased, tables, closing
  <1> QED
    BY <1>3, <1>4, <1>5, <1>6 DEF IInv

(* A handler that ends is forgotten under the address of its connection.   *)
LEMMA HandlerEndsStep ==
    ASSUME IInv, NEW id \in handlers, HandlerEnds(id),
           UNCHANGED <<conn, registry, peers, guidAddr, fed, phase, notify>>,
           joining' \subseteq joining
    PROVE  IInv'
  <1>1. id \in DOMAIN conn /\ conn[id].addr \in Addr
    BY ConnFields DEF IInv, TypeOK
  <1>2. TypeOK'
    BY <1>1 DEF IInv, TypeOK, HandlerEnds
  <1>3. FiledByAddress'
    BY DEF IInv, FiledByAddress
  <1>4. TablesAgree'
    BY <1>1 DEF IInv, TypeOK, FiledByAddress, TablesAgree, HandlerEnds
  <1>5. HandlersReleased'
    BY DEF IInv, HandlersReleased, HandlerEnds
  <1> QED
    BY <1>2, <1>3, <1>4, <1>5 DEF IInv

LEMMA CloseStep ==
    ASSUME IInv, Close
    PROVE  IInv'
  <1> DEFINE c(k) == IF notify' /\ k \in Range(peers) /\ conn[k].state = "CONNECTED"
                     THEN [conn[k] EXCEPT !.state = "DISCONNECTING"] ELSE conn[k]
  <1>1. ASSUME NEW k \in DOMAIN conn
        PROVE  /\ c(k) \in Connections /\ c(k).addr = conn[k].addr
               /\ c(k).state = "CONNECTING" => conn[k].state = "CONNECTING"
    <2>1. conn[k] \in Connections
      BY ConnFields DEF IInv
    <2> QED
      BY <2>1 DEF Connections, States
  <1>2. conn' = [k \in DOMAIN conn |-> c(k)]
    BY DEF Close
  <1> HIDE DEF c
  <1>3. DOMAIN conn = 1 .. Len(conn) /\ Len(conn) \in Nat
    BY DEF IInv, TypeOK
  <1>4. /\ conn' \in Seq(Connections) /\ Len(conn') = Len(conn)
        /\ DOMAIN conn' = DOMAIN conn
        /\ \A k \in DOMAIN conn : conn'[k] = c(k)
    BY <1>1, <1>2, <1>3
  <1>5. /\ \A k \in DOMAIN conn : conn'[k].addr = conn[k].addr
        /\ \A k \in DOMAIN conn :
              conn'[k].state = "CONNECTING" => conn[k].state = "CONNECTING"
    BY <1>1, <1>4
  <1>6. /\ phase = "open" /\ phase' \in {"draining", "stopping"} /\ notify' \in BOOLEAN
        /\ UNCHANGED <<tables, handlers, fed, joining>>
    BY DEF Close
  <1>7. TypeOK'
    BY <1>4, <1>6 DEF IInv, TypeOK, tables
  <1>8. FiledByAddress'
    BY <1>5, <1>6 DEF IInv, TypeOK, FiledByAddress, tables
  <1>9. TablesAgree'
    BY <1>5, <1>6 DEF IInv, TypeOK, TablesAgree, tables
  <1>10. HandlersReleased'
    BY <1>5, <1>6 DEF IInv, TypeOK, HandlersReleased, tables
  <1> QED
    BY <1>7, <1>8, <1>9, <1>10 DEF IInv

LEMMA DrainedStep ==
    ASSUME IInv, Drained
    PROVE  IInv'
  BY DEF Drained, IInv, TypeOK, FiledByAddress, TablesAgree, HandlersReleased, tables

LEMMA SignalHandlersStep ==
    ASSUME IInv, SignalHandlers
    PROVE  IInv'
  <1>1. Range(peers) \ {None} \subseteq DOMAIN conn /\ Range(tasks) \ {None} \subseteq DOMAIN conn
    BY DEF IInv, TypeOK, Range
  <1> QED
    BY <1>1 DEF SignalHandlers, IInv, TypeOK, FiledByAddress, TablesAgree,
                HandlersReleased, tables

LEMMA JoinStep ==
    ASSUME IInv, Join
    PROVE  IInv'
  <1>1. PICK id \in joining :
            /\ joining' = joining \ {id}
            /\ \/ HandlerEnds(id)
               \/ id \notin handlers /\ UNCHANGED <<handlers, tasks>>
            /\ UNCHANGED <<conn, registry, peers, guidAddr, fed, phase, notify>>
    BY DEF Join
  <1>2. CASE HandlerEnds(id)
    BY <1>1, <1>2, HandlerEndsStep DEF HandlerEnds
  <1>3. CASE UNCHANGED <<handlers, tasks>>
    BY <1>1, <1>3 DEF IInv, TypeOK, FiledByAddress, TablesAgree, HandlersReleased
  <1> QED
    BY <1>1, <1>2, <1>3

LEMMA CloseEndsStep ==
    ASSUME IInv, CloseEnds
    PROVE  IInv'
  <1>1. /\ phase' = "closed" /\ guidAddr' = [g \in Guid |-> NoAddr]
        /\ registry' = [a \in Addr |-> None] /\ peers' = registry' /\ tasks' = registry'
        /\ UNCHANGED <<conn, handlers, fed, notify, joining>>
    BY DEF CloseEnds
  <1>2. TypeOK'
    BY <1>1 DEF IInv, TypeOK
  <1>3. FiledByAddress' /\ TablesAgree' /\ HandlersReleased'
    BY <1>1 DEF FiledByAddress, TablesAgree, HandlersReleased
  <1> QED
    BY <1>2, <1>3 DEF IInv

(* The tables stay typed and agree, connections are filed by their address *)
(* and running handlers can end, in every state.                           *)
LEMMA IInvInvariant == Spec => []IInv
  <1>1. Init => IInv
    <2> SUFFICES ASSUME Init PROVE IInv
      OBVIOUS
    <2>1. conn \in Seq(Connections) /\ Len(conn) <= MaxCreated
      BY ServerAssumption DEF Init
    <2>2. /\ registry = [a \in Addr |-> None] /\ peers = registry /\ tasks = registry
          /\ guidAddr = [g \in Guid |-> NoAddr]
          /\ handlers = {} /\ fed = {} /\ joining = {}
          /\ phase = "open" /\ notify = FALSE
      BY DEF Init
    <2>3. TypeOK
      BY <2>1, <2>2 DEF TypeOK
    <2>4. FiledByAddress /\ TablesAgree /\ HandlersReleased
      BY <2>2 DEF FiledByAddress, TablesAgree, HandlersReleased
    <2> QED
      BY <2>3, <2>4 DEF IInv
  <1>2. IInv /\ [Next]_vars => IInv'
    <2> SUFFICES ASSUME IInv, [Next]_vars
                 PROVE  IInv'
      OBVIOUS
    <2>1. CASE Create
      BY <2>1, CreateStep
    <2>2. CASE Identify
      BY <2>2, IdentifyStep
    <2>3. CASE Connect
      BY <2>3, ConnectStep
    <2>4. CASE NotificationReceived
      BY <2>4, NotificationStep
    <2>5. CASE Ended
      BY <2>5, EndedStep
    <2>6. CASE Disconnect
      BY <2>6, DisconnectStep
    <2>7. CASE HandlerReturns
      BY <2>7, HandlerEndsStep DEF HandlerReturns, closing
    <2>8. CASE Close
      BY <2>8, CloseStep
    <2>9. CASE Drained
      BY <2>9, DrainedStep
    <2>10. CASE SignalHandlers
      BY <2>10, SignalHandlersStep
    <2>11. CASE Join
      BY <2>11, JoinStep
    <2>12. CASE CloseEnds
      BY <2>12, CloseEndsStep
    <2>13. CASE UNCHANGED vars
      BY <2>13 DEF vars, tables, closing, IInv, TypeOK, FiledByAddress, TablesAgree,
                   HandlersReleased
    <2> QED
      BY <2>1, <2>2, <2>3, <2>4, <2>5, <2>6, <2>7, <2>8, <2>9, <2>10, <2>11,
         <2>12, <2>13 DEF Next
  <1> QED
    BY <1>1, <1>2, PTL DEF Spec

(* Types of the server's tables: close() included, they hold connections   *)
(* that were created and nothing else.                                     *)
THEOREM TypeCorrect == Spec => []TypeOK
  <1>1. IInv => TypeOK
    BY DEF IInv
  <1> QED
    BY <1>1, IInvInvariant, PTL

(* _connections, _peers and _handler_tasks tell one story, however         *)
(* callbacks, ticks, handlers and close() interleave.                      *)
THEOREM TablesAlwaysAgree == Spec => []TablesAgree
  <1>1. IInv => TablesAgree
    BY DEF IInv
  <1> QED
    BY <1>1, IInvInvariant, PTL

(* No handler is left waiting on an iterator that will never end.          *)
THEOREM HandlersAlwaysReleased == Spec => []HandlersReleased
  <1>1. IInv => HandlersReleased
    BY DEF IInv
  <1> QED
    BY <1>1, IInvInvariant, PTL

----------------------------------------------------------------------------
(* GUIDs, however clients present them.                                    *)

(* A GUID leads to the connection it was entered for, or that one was      *)
(* renamed, or the GUID is 0.                                              *)
LeftBehind(g) ==
    \E id \in DOMAIN conn :
        conn[id].addr = guidAddr[g] /\ conn[id].entered = g /\ Renamed(id)

EntriesExplained ==
    \A g \in Guid \ {ZeroGuid} :
        \/ guidAddr[g] = NoAddr
        \/ /\ registry[guidAddr[g]] # None
           /\ conn[registry[guidAddr[g]]].entered = g
        \/ LeftBehind(g)

(* The map knows every connection that still lives. *)
LiveHoldsGuid ==
    \A a \in Addr :
        registry[a] # None /\ conn[registry[a]].state # "DISCONNECTED"
            => guidAddr[conn[registry[a]].entered] = a

GuidInv == EntriesExplained /\ LiveHoldsGuid

LEMMA CreateGuids ==
    ASSUME IInv, GuidInv, Create
    PROVE  GuidInv'
  <1>1. PICK a \in Addr, g \in Guid :
            /\ registry[a] = None /\ ~GuidInUse(g, a)
            /\ conn' = Append(conn, [addr |-> a, entered |-> g, guid |-> g, state |-> "CONNECTING"])
            /\ registry' = [registry EXCEPT ![a] = Len(conn) + 1]
            /\ guidAddr' = [guidAddr EXCEPT ![g] = a]
    BY DEF Create
  <1> DEFINE c == [addr |-> a, entered |-> g, guid |-> g, state |-> "CONNECTING"]
             id == Len(conn) + 1
  <1>2. c \in Connections /\ c.entered = g
    BY DEF Connections, States
  <1> HIDE DEF c
  <1>3. /\ id \in Nat \ {None} /\ id \notin DOMAIN conn
        /\ DOMAIN conn' = DOMAIN conn \cup {id}
        /\ \A k \in DOMAIN conn : conn'[k] = conn[k]
        /\ conn'[id] = c
    BY <1>1, <1>2, ConnAppended DEF IInv, c
  <1> HIDE DEF id
  <1>4. /\ registry' = [registry EXCEPT ![a] = id]
        /\ registry \in [Addr -> {None} \cup DOMAIN conn]
        /\ guidAddr \in [Guid -> Addr \cup {NoAddr}]
    BY <1>1 DEF id, IInv, TypeOK
  <1>5. \A b \in Addr : registry[b] # None =>
            /\ b # a /\ registry[b] \in DOMAIN conn
            /\ registry'[b] = registry[b] /\ conn'[registry'[b]] = conn[registry[b]]
    BY <1>1, <1>3, <1>4
  <1>6. registry'[a] = id /\ conn'[registry'[a]] = c
    BY <1>3, <1>4
  <1>7. \A b \in Addr : registry'[b] # None => b = a \/ registry[b] # None
    BY <1>4
  <1>8. EntriesExplained'
    <2> SUFFICES ASSUME NEW h \in Guid \ {ZeroGuid}, guidAddr'[h] # NoAddr
                 PROVE  \/ /\ registry'[guidAddr'[h]] # None
                           /\ conn'[registry'[guidAddr'[h]]].entered = h
                        \/ LeftBehind(h)'
      BY DEF EntriesExplained
    <2>1. CASE h = g
      BY <1>1, <1>2, <1>3, <1>4, <1>6, <2>1
    <2>2. CASE h # g
      <3>1. guidAddr'[h] = guidAddr[h]
        BY <1>1, <1>4, <2>2
      <3>2. guidAddr[h] \in Addr
        BY <1>4, <3>1
      <3>3. CASE registry[guidAddr[h]] # None /\ conn[registry[guidAddr[h]]].entered = h
        BY <1>5, <3>1, <3>2, <3>3
      <3>4. CASE LeftBehind(h)
        BY <1>3, <3>1, <3>4 DEF LeftBehind, Renamed
      <3> QED
        BY <3>1, <3>3, <3>4 DEF GuidInv, EntriesExplained
    <2> QED
      BY <2>1, <2>2
  <1>9. LiveHoldsGuid'
    <2> SUFFICES ASSUME NEW b \in Addr, registry'[b] # None,
                        conn'[registry'[b]].state # "DISCONNECTED"
                 PROVE  guidAddr'[conn'[registry'[b]].entered] = b
      BY DEF LiveHoldsGuid
    <2>1. CASE b = a
      BY <1>1, <1>2, <1>4, <1>6, <2>1
    <2>2. CASE b # a
      <3>1. registry[b] # None /\ conn'[registry'[b]] = conn[registry[b]]
        BY <1>5, <1>7, <2>2
      <3>2. /\ conn[registry[b]].entered \in Guid
            /\ guidAddr[conn[registry[b]].entered] = b
        BY <1>5, <3>1, ConnFields DEF GuidInv, LiveHoldsGuid, IInv
      <3>3. conn[registry[b]].entered # g
        BY <1>1, <2>2, <3>1, <3>2, ServerAssumption DEF GuidInUse
      <3> QED
        BY <1>1, <1>4, <3>1, <3>2, <3>3
    <2> QED
      BY <2>1, <2>2
  <1> QED
    BY <1>8, <1>9 DEF GuidInv

(* A connection that is renamed stays where it was entered.                *)
LEMMA IdentifyGuids ==
    ASSUME IInv, GuidInv, Identify
    PROVE  GuidInv'
  <1>1. PICK a \in Addr, g \in Guid :
            /\ registry[a] # None
            /\ conn' = [conn EXCEPT ![registry[a]].guid = g]
            /\ UNCHANGED <<registry, guidAddr>>
    BY DEF Identify, tables
  <1> DEFINE id == registry[a]
             c == [conn[id] EXCEPT !.guid = g]
  <1>2. id \in DOMAIN conn /\ conn \in Seq(Connections)
    BY <1>1 DEF IInv, TypeOK
  <1>3. /\ c \in Connections /\ c.addr = conn[id].addr
        /\ c.state = conn[id].state /\ c.entered = conn[id].entered
    BY <1>2, ConnFields DEF IInv, Connections
  <1>4. conn' = [conn EXCEPT ![id] = c]
    BY <1>1
  <1> HIDE DEF c, id
  <1>5. /\ DOMAIN conn' = DOMAIN conn
        /\ \A k \in DOMAIN conn : conn'[k] = IF k = id THEN c ELSE conn[k]
    BY <1>2, <1>3, <1>4
  <1>6. \A k \in DOMAIN conn :
            /\ conn'[k].addr = conn[k].addr /\ conn'[k].state = conn[k].state
            /\ conn'[k].entered = conn[k].entered
    BY <1>3, <1>5
  <1>7. \A b \in Addr : registry[b] # None => registry[b] \in DOMAIN conn
    BY DEF IInv, TypeOK
  <1>8. EntriesExplained'
    <2> SUFFICES ASSUME NEW h \in Guid \ {ZeroGuid}, guidAddr[h] # NoAddr
                 PROVE  \/ /\ registry[guidAddr[h]] # None
                           /\ conn'[registry[guidAddr[h]]].entered = h
                        \/ LeftBehind(h)'
      BY <1>1 DEF EntriesExplained
    <2>1. guidAddr[h] \in Addr
      BY DEF IInv, TypeOK
    <2>2. CASE registry[guidAddr[h]] # None /\ conn[registry[guidAddr[h]]].entered = h
      BY <1>6, <1>7, <2>1, <2>2
    <2>3. CASE LeftBehind(h)
      <3>1. PICK k \in DOMAIN conn :
                conn[k].addr = guidAddr[h] /\ conn[k].entered = h /\ Renamed(k)
        BY <2>3 DEF LeftBehind
      <3>2. CASE k = id
        <4>1. registry[guidAddr[h]] = k
          BY <1>1, <3>1, <3>2 DEF IInv, FiledByAddress, id
        <4> QED
          BY <1>1, <1>6, <3>1, <3>2, <4>1 DEF id
      <3>3. CASE k # id
        BY <1>1, <1>5, <3>1, <3>3 DEF LeftBehind, Renamed
      <3> QED
        BY <3>2, <3>3
    <2> QED
      BY <2>2, <2>3 DEF GuidInv, EntriesExplained
  <1>9. LiveHoldsGuid'
    BY <1>1, <1>6, <1>7 DEF GuidInv, LiveHoldsGuid
  <1> QED
    BY <1>8, <1>9 DEF GuidInv

(* Steps that change states only, and no connection comes to life again.   *)
LEMMA StateGuids ==
    ASSUME IInv, GuidInv, UNCHANGED <<registry, guidAddr>>,
           DOMAIN conn' = DOMAIN conn,
           \A k \in DOMAIN conn :
              /\ conn'[k].addr = conn[k].addr /\ conn'[k].guid = conn[k].guid
              /\ conn'[k].entered = conn[k].entered
              /\ conn[k].state = "DISCONNECTED" => conn'[k].state = "DISCONNECTED"
    PROVE  GuidInv'
  <1>1. \A a \in Addr : registry[a] # None => registry[a] \in DOMAIN conn
    BY DEF IInv, TypeOK
  <1>2. \A g \in Guid : LeftBehind(g) => LeftBehind(g)'
    BY DEF LeftBehind, Renamed
  <1>3. \A g \in Guid : guidAddr[g] \in Addr \cup {NoAddr}
    BY DEF IInv, TypeOK
  <1>4. EntriesExplained'
    BY <1>1, <1>2, <1>3 DEF GuidInv, EntriesExplained
  <1>5. LiveHoldsGuid'
    BY <1>1 DEF GuidInv, LiveHoldsGuid
  <1> QED
    BY <1>4, <1>5 DEF GuidInv

LEMMA RemoveGuids ==
    ASSUME IInv, GuidInv, NEW a \in Addr, registry[a] # None,
           NEW s \in States, SetState(registry[a], s), Remove(a)
    PROVE  GuidInv'
  <1> DEFINE id == registry[a]
             g == conn[id].guid
  <1>1. id \in DOMAIN conn /\ g \in Guid /\ conn[id].addr = a
    BY ConnFields DEF IInv, TypeOK, FiledByAddress
  <1>2. IF peers[a] # None THEN peers[a] = id ELSE TRUE
    BY DEF IInv, TablesAgree
  <1>3. /\ guidAddr' = IF g # ZeroGuid /\ guidAddr[g] = a
                       THEN [guidAddr EXCEPT ![g] = NoAddr] ELSE guidAddr
        /\ registry' = [registry EXCEPT ![a] = None]
    BY <1>2 DEF Remove, Forget
  <1>4. /\ DOMAIN conn' = DOMAIN conn
        /\ \A k \in DOMAIN conn :
              /\ conn'[k].addr = conn[k].addr /\ conn'[k].guid = conn[k].guid
              /\ conn'[k].entered = conn[k].entered
              /\ conn'[k].state = IF k = id THEN s ELSE conn[k].state
    BY <1>1, StateSet DEF IInv
  <1>5. \A b \in Addr : b # a /\ registry[b] # None =>
            registry[b] \in DOMAIN conn /\ registry[b] # id
    BY DEF IInv, TypeOK, FiledByAddress
  <1> HIDE DEF id
  <1>7. registry \in [Addr -> {None} \cup DOMAIN conn] /\ guidAddr \in [Guid -> Addr \cup {NoAddr}]
    BY DEF IInv, TypeOK
  <1>8. \A b \in Addr : registry'[b] # None =>
            b # a /\ registry'[b] = registry[b] /\ registry[b] # None
    BY <1>3, <1>7
  <1>9. EntriesExplained'
    <2> SUFFICES ASSUME NEW h \in Guid \ {ZeroGuid}, guidAddr'[h] # NoAddr
                 PROVE  \/ /\ registry'[guidAddr'[h]] # None
                           /\ conn'[registry'[guidAddr'[h]]].entered = h
                        \/ LeftBehind(h)'
      BY DEF EntriesExplained
    <2>1. guidAddr'[h] = guidAddr[h] /\ guidAddr[h] \in Addr
      BY <1>1, <1>3, <1>7
    <2>2. CASE LeftBehind(h)
      BY <1>4, <2>1, <2>2 DEF LeftBehind, Renamed
    <2>3. CASE registry[guidAddr[h]] # None /\ conn[registry[guidAddr[h]]].entered = h
      <3>1. CASE guidAddr[h] = a
        <4>1. conn[id].entered = h
          BY <2>3, <3>1 DEF id
        <4>2. g # h
          BY <1>1, <1>3, <1>7, <2>1, <3>1, ServerAssumption
        <4>3. PICK k \in DOMAIN conn : k = id
          BY <1>1
        <4>4. conn'[k].addr = guidAddr'[h] /\ conn'[k].entered = h /\ Renamed(k)'
          BY <1>1, <1>4, <2>1, <3>1, <4>1, <4>2, <4>3 DEF Renamed
        <4> QED
          BY <1>4, <4>4 DEF LeftBehind
      <3>2. CASE guidAddr[h] # a
        BY <1>3, <1>4, <1>5, <1>7, <2>1, <2>3, <3>2
      <3> QED
        BY <3>1, <3>2
    <2> QED
      BY <2>1, <2>2, <2>3 DEF GuidInv, EntriesExplained
  <1>10. LiveHoldsGuid'
    <2> SUFFICES ASSUME NEW b \in Addr, registry'[b] # None,
                        conn'[registry'[b]].state # "DISCONNECTED"
                 PROVE  guidAddr'[conn'[registry'[b]].entered] = b
      BY DEF LiveHoldsGuid
    <2>1. b # a /\ registry'[b] = registry[b] /\ registry[b] \in DOMAIN conn /\ registry[b] # id
      BY <1>5, <1>8
    <2>2. /\ conn[registry[b]].entered \in Guid
          /\ guidAddr[conn[registry[b]].entered] = b
          /\ conn'[registry'[b]].entered = conn[registry[b]].entered
      BY <1>4, <1>5, <1>8, <2>1, ConnFields DEF IInv, GuidInv, LiveHoldsGuid
    <2> QED
      BY <1>1, <1>3, <1>7, <2>1, <2>2
  <1> QED
    BY <1>9, <1>10 DEF GuidInv

LEMMA GuidInvariant == Spec => []GuidInv
  <1>1. Init => GuidInv
    BY DEF Init, GuidInv, EntriesExplained, LiveHoldsGuid
  <1>2. IInv /\ GuidInv /\ [Next]_vars => GuidInv'
    <2> SUFFICES ASSUME IInv, GuidInv, [Next]_vars
                 PROVE  GuidInv'
      OBVIOUS
    <2>1. CASE Create
      BY <2>1, CreateGuids
    <2>2. CASE Identify
      BY <2>2, IdentifyGuids
    <2>3. CASE Connect
      <3>1. PICK a \in Addr :
                /\ registry[a] \in DOMAIN conn /\ conn[registry[a]].state = "CONNECTING"
                /\ SetState(registry[a], "CONNECTED") /\ UNCHANGED <<registry, guidAddr>>
        BY <2>3 DEF Connect, IInv, TypeOK
      <3>2. /\ DOMAIN conn' = DOMAIN conn
            /\ \A k \in DOMAIN conn :
                  /\ conn'[k].addr = conn[k].addr /\ conn'[k].guid = conn[k].guid
                  /\ conn'[k].entered = conn[k].entered
                  /\ conn'[k].state = IF k = registry[a] THEN "CONNECTED" ELSE conn[k].state
        BY <3>1, StateSet DEF States, IInv
      <3> QED
        BY <3>1, <3>2, StateGuids
    <2>4. CASE NotificationReceived
      BY <2>4, RemoveGuids DEF NotificationReceived, States
    <2>5. CASE Ended
      BY <2>5, RemoveGuids DEF Ended, States
    <2>6. CASE Disconnect
      <3>1. PICK id \in DOMAIN conn, s \in {"DISCONNECTING", "DISCONNECTED"} :
                /\ conn[id].state = "CONNECTED" /\ SetState(id, s)
                /\ UNCHANGED <<registry, guidAddr>>
        BY <2>6 DEF Disconnect, tables
      <3>2. /\ DOMAIN conn' = DOMAIN conn
            /\ \A k \in DOMAIN conn :
                  /\ conn'[k].addr = conn[k].addr /\ conn'[k].guid = conn[k].guid
                  /\ conn'[k].entered = conn[k].entered
                  /\ conn'[k].state = IF k = id THEN s ELSE conn[k].state
        BY <3>1, StateSet DEF States, IInv
      <3> QED
        BY <3>1, <3>2, StateGuids
    <2>7. CASE HandlerReturns \/ Drained \/ SignalHandlers \/ Join \/ UNCHANGED vars
      <3>1. UNCHANGED <<conn, registry, guidAddr>>
        BY <2>7 DEF HandlerReturns, Drained, SignalHandlers, Join, vars, tables
      <3> QED
        BY <3>1, StateGuids
    <2>8. CASE Close
      <3>1. \A k \in DOMAIN conn : conn[k] \in Connections
        BY ConnFields DEF IInv
      <3>2. /\ DOMAIN conn' = DOMAIN conn
            /\ \A k \in DOMAIN conn :
                  conn'[k] = IF notify' /\ k \in Range(peers) /\ conn[k].state = "CONNECTED"
                             THEN [conn[k] EXCEPT !.state = "DISCONNECTING"] ELSE conn[k]
        BY <2>8 DEF Close
      <3>3. \A k \in DOMAIN conn :
                /\ conn'[k].addr = conn[k].addr /\ conn'[k].guid = conn[k].guid
                /\ conn'[k].entered = conn[k].entered
                /\ conn[k].state = "DISCONNECTED" => conn'[k].state = "DISCONNECTED"
        BY <3>1, <3>2 DEF Connections
      <3>4. UNCHANGED <<registry, guidAddr>>
        BY <2>8 DEF Close, tables
      <3> QED
        BY <3>2, <3>3, <3>4, StateGuids
    <2>9. CASE CloseEnds
      BY <2>9 DEF CloseEnds, GuidInv, EntriesExplained, LiveHoldsGuid
    <2> QED
      BY <2>1, <2>2, <2>3, <2>4, <2>5, <2>6, <2>7, <2>8, <2>9 DEF Next
  <1> QED
    BY <1>1, <1>2, IInvInvariant, PTL DEF Spec

(* The duplicate check of _create_connection_from_ocr2 does its work: no   *)
(* two live connections were let in under one GUID, whatever GUIDs clients *)
(* present, from whatever addresses, and however connections end.          *)
THEOREM GuidAlwaysUnique == Spec => []GuidUnique
  <1>1. IInv /\ GuidInv => GuidUnique
    BY DEF GuidInv, LiveHoldsGuid, GuidUnique
  <1> QED
    BY <1>1, GuidInvariant, IInvInvariant, PTL

(* _process_signals leaves no address without a connection in the map,     *)
(* except for GUID 0 and for a connection that presented another GUID      *)
(* after it was let in.                                                    *)
THEOREM GuidMapAlwaysClean == Spec => []GuidMapClean
  <1>1. GuidInv => GuidMapClean
    BY DEF GuidInv, EntriesExplained, LeftBehind, GuidMapClean
  <1> QED
    BY <1>1, GuidInvariant, PTL
=============================================================================
