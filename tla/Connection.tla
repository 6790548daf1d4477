----------------------------- MODULE Connection -----------------------------
(***************************************************************************)
(* One connection from both ends: the Connection of a client and the one   *)
(* a server keeps for its address, with the update loops and the callbacks *)
(* of Client and Server that drive them, and the connect() and close() of  *)
(* the client's user.  Each callback, each tick and each stretch of a      *)
(* coroutine between two awaits runs without interruption on its event     *)
(* loop, so each is one action.                                            *)
(*                                                                         *)
(* Offline messages travel in bare datagrams: those ever sent are kept,    *)
(* and any of them may arrive at any time, again or never.  What goes      *)
(* through the reliability layer arrives once and in the order of its      *)
(* channel, as modules Transport and Ordering have it.                     *)
(***************************************************************************)
EXTENDS Integers, SequencesExt

CONSTANTS
    Mtus,              \* _mtu_discovery_sizes, in the order they are tried
    PathMtu,           \* the largest datagram the path carries
    RetransmitCount,   \* HANDSHAKE_RETRANSMIT_COUNT
    MaxRequests,       \* bound: connection requests the client queues
    MaxData,           \* bound: user messages from each end
    MaxEvents,         \* bound: signals at an end
    DataChannels       \* the channels each end sends user messages on

Unordered == -1        \* for messages sent RELIABLE

Ends == {"client", "server"}

Peer(e) == IF e = "client" THEN "server" ELSE "client"

ASSUME ConnectionAssumption ==
    /\ Mtus \in Seq(Nat) /\ Mtus # << >> /\ PathMtu \in Nat
    /\ RetransmitCount \in Nat \ {0} /\ MaxRequests \in Nat
    /\ MaxData \in Nat /\ MaxEvents \in Nat
    /\ DataChannels \in [Ends -> SUBSET Nat]

VARIABLES
    state,      \* state, and for the server ABSENT or REMOVED: not in _connections
    mtu,        \* mtu
    attempt,    \* _mtu_attempt_index of the client, from 1
    tries,      \* _handshake_retransmit_count of the client
    offline,    \* the offline messages that have been sent
    sent,       \* the messages handed to the end's reliability layer
    out,        \* how many of them an update has put on the wire
    arrived,    \* those of them the peer has handled
    ackDue,     \* the peer's messages the end has still to acknowledge
    acked,      \* the end's messages known to be acknowledged
    onAck,      \* _disconnect_on_ack_sent
    events,     \* the signals given to the application, in order
    closed,     \* _closed of the client
    open,       \* whether the client's socket is open
    loop,       \* whether the client's update task is still there
    caller      \* what the client's user waits for, or how it ended

handshake == <<attempt, tries, offline, mtu>>
channel == <<sent, out, arrived, ackDue, acked>>
task == <<open, loop>>
vars == <<state, handshake, channel, onAck, events, closed, task, caller>>

Live == {"CONNECTING", "CONNECTED", "DISCONNECTING"}

Request1(m) == [type |-> "REQUEST_1", mtu |-> m]
Reply1(m) == [type |-> "REPLY_1", mtu |-> m]
Request2(m) == [type |-> "REQUEST_2", mtu |-> m]
Reply2(m) == [type |-> "REPLY_2", mtu |-> m]
Rejection == [type |-> "REJECTION", mtu |-> 0]

Signal(s) == [signal |-> s, msg |-> 0]

\* start_connect has been called, and no address is known to the server.
Init ==
    /\ state = [e \in Ends |-> IF e = "client" THEN "CONNECTING" ELSE "ABSENT"]
    /\ mtu = [e \in Ends |-> Mtus[1]]
    /\ attempt = 1 /\ tries = 0
    /\ offline = {Request1(Mtus[1])}
    /\ sent = [e \in Ends |-> << >>] /\ out = [e \in Ends |-> 0]
    /\ arrived = [e \in Ends |-> {}]
    /\ ackDue = [e \in Ends |-> {}] /\ acked = [e \in Ends |-> {}]
    /\ onAck = [e \in Ends |-> FALSE]
    /\ events = [e \in Ends |-> << >>]
    /\ closed = FALSE /\ open = TRUE /\ loop = TRUE /\ caller = "connecting"

\* has_pending_data
Pending(e) == acked[e] # DOMAIN sent[e]

\* Does the update loop still call update() for this end?
Ticking(e) ==
    IF e = "client" THEN loop /\ (closed => Pending(e)) ELSE state[e] \in Live

\* send() of the reliability layer.
Queue(e, kind, ch) == sent' = [sent EXCEPT ![e] = Append(@, [kind |-> kind, channel |-> ch])]

\* _connected_event is set, if connect() still waits for it.
Wake(e, outcome) ==
    caller' = IF e = "client" /\ caller = "connecting" THEN outcome ELSE caller

\* A fault: the client goes on after a DISCONNECT signal.
DisconnectedOpen(e, s) ==
    /\ events' = [events EXCEPT ![e] = Append(@, Signal("DISCONNECT"))]
    /\ state' = [state EXCEPT ![e] = IF e = "server" THEN "REMOVED" ELSE s]
    /\ UNCHANGED closed

\* What a DISCONNECT signal makes of the end's state and of _closed.
Disconnected(e, s) ==
    /\ events' = [events EXCEPT ![e] = Append(@, Signal("DISCONNECT"))]
    /\ state' = [state EXCEPT ![e] = IF e = "server" THEN "REMOVED" ELSE s]
    /\ closed' = (closed \/ e = "client")

----------------------------------------------------------------------------
(* The update loop.                                                        *)

\* The messages of e that may still reach its peer.
Arriving(e) ==
    {i \in 1 .. out[e] \ arrived[e] :
        \A j \in 1 .. i - 1 :
            sent[e][j].channel = sent[e][i].channel /\ sent[e][i].channel # Unordered
                => j \in arrived[e]}

\* A fault: the start of a handshake is not recorded at the server.
TimeOutUnstarted(e) ==
    /\ state[e] \in Live /\ Ticking(e) /\ ~onAck[e]
    /\ e = "server" => state[e] # "CONNECTING"
    /\ Disconnected(e, "DISCONNECTED")
    /\ UNCHANGED <<handshake, channel, onAck, task, caller>>

\* After a notification the next ticks flush the ACK, well within the timeout.
TimeOut(e) ==
    /\ state[e] \in Live /\ Ticking(e) /\ ~onAck[e]
    /\ Disconnected(e, "DISCONNECTED")
    /\ UNCHANGED <<handshake, channel, onAck, task, caller>>

\* Does the end still hand datagrams to its reliability layer?
Listening(e) == state[e] \in Live /\ (e = "client" => open)

\* The messages and the ACKs that are due go out; an end that has disconnected
\* ignores an ACK, and will never send anything again that asks for another.
Emit(e) ==
    /\ out' = [out EXCEPT ![e] = Len(sent[e])]
    /\ ackDue' = [ackDue EXCEPT ![e] = {}]
    /\ acked' = IF Listening(Peer(e))
                THEN [acked EXCEPT ![Peer(e)] = @ \cup ackDue[e]] ELSE acked

\* One update; a disconnect may be complete after it.
Flush(e) ==
    /\ state[e] \in Live /\ Ticking(e)
    /\ Emit(e)
    /\ \/ /\ state[e] = "DISCONNECTING" /\ onAck[e]
          /\ state' = [state EXCEPT ![e] = "DISCONNECTED"]
          /\ UNCHANGED <<events, closed>>
       \/ /\ state[e] = "DISCONNECTING" /\ ~onAck[e] /\ ~Pending(e)
          /\ Disconnected(e, "DISCONNECTED")
       \/ /\ state[e] # "DISCONNECTING" \/ (~onAck[e] /\ Pending(e))
          /\ UNCHANGED <<state, events, closed>>
    /\ UNCHANGED <<handshake, sent, arrived, onAck, task, caller>>

\* A fault: the count of retransmissions goes on with the next size.
RetransmitNoReset ==
    LET a == IF tries + 1 >= RetransmitCount THEN attempt + 1 ELSE attempt
    IN  /\ state["client"] = "CONNECTING" /\ Ticking("client")
        /\ attempt' = a /\ a <= Len(Mtus)
        /\ tries' = tries + 1
        /\ offline' = offline \cup {Request1(Mtus[a])}
        /\ Emit("client")
        /\ UNCHANGED <<mtu, state, events, closed, sent, arrived, onAck, task, caller>>

Retransmit ==
    LET a == IF tries + 1 >= RetransmitCount THEN attempt + 1 ELSE attempt
    IN  /\ state["client"] = "CONNECTING" /\ Ticking("client")
        /\ attempt' = a
        /\ tries' = IF a = attempt THEN tries + 1 ELSE 0
        /\ \/ /\ a <= Len(Mtus)
              /\ offline' = offline \cup {Request1(Mtus[a])}
              /\ Emit("client")
              /\ UNCHANGED <<state, events, closed>>
           \/ /\ a > Len(Mtus)
              /\ Disconnected("client", "DISCONNECTED")
              /\ UNCHANGED <<offline, out, ackDue, acked>>
        /\ UNCHANGED <<mtu, sent, arrived, onAck, task, caller>>

----------------------------------------------------------------------------
(* The offline handshake.                                                  *)

\* A reply is as large as the request that arrived, for a new address as
\* well as for one whose handshake it starts again.
HandleRequest1 ==
    \E m \in Range(Mtus) :
        /\ Request1(m) \in offline /\ m <= PathMtu
        /\ state["server"] \in {"ABSENT", "REMOVED", "CONNECTING"}
        /\ offline' = offline \cup {Reply1(m)}
        /\ UNCHANGED <<attempt, tries, mtu, state, channel, onAck, events, closed, task, caller>>

\* The client answers even after it has given up.
HandleReply1 ==
    \E m \in Range(Mtus) :
        /\ Reply1(m) \in offline
        /\ open /\ state["client"] \in {"DISCONNECTED", "CONNECTING"}
        /\ mtu' = [mtu EXCEPT !["client"] = m]
        /\ offline' = offline \cup {Request2(m)}
        /\ UNCHANGED <<attempt, tries, state, channel, onAck, events, closed, task, caller>>

\* _create_connection_from_ocr2 may refuse; module Server has its checks.
Refuse ==
    /\ \E m \in Range(Mtus) : Request2(m) \in offline
    /\ state["server"] = "ABSENT"
    /\ offline' = offline \cup {Rejection}
    /\ UNCHANGED <<attempt, tries, mtu, state, channel, onAck, events, closed, task, caller>>

HandleRequest2 ==
    \E m \in Range(Mtus) :
        /\ Request2(m) \in offline
        /\ state["server"] \in {"ABSENT", "CONNECTING"}
        /\ state' = [state EXCEPT !["server"] = "CONNECTING"]
        /\ mtu' = [mtu EXCEPT !["server"] = m]
        /\ offline' = offline \cup {Reply2(m)}
        /\ UNCHANGED <<attempt, tries, channel, onAck, events, closed, task, caller>>

\* Every reply makes the client queue a connection request.
HandleReply2 ==
    \E m \in Range(Mtus) :
        /\ Reply2(m) \in offline
        /\ open /\ state["client"] \in {"DISCONNECTED", "CONNECTING"}
        /\ Len(sent["client"]) < MaxRequests
        /\ mtu' = [mtu EXCEPT !["client"] = m]
        /\ Queue("client", "REQUEST", Unordered)
        /\ UNCHANGED <<attempt, tries, offline, state, out, arrived, ackDue, acked,
                       onAck, events, closed, task, caller>>

\* A fault: a rejected client goes on with its handshake.
HandleRejectionGoesOn ==
    /\ Rejection \in offline
    /\ open /\ state["client"] \in {"DISCONNECTED", "CONNECTING"}
    /\ Len(events["client"]) < MaxEvents
    /\ Disconnected("client", "CONNECTING")
    /\ Wake("client", "rejected")
    /\ UNCHANGED <<handshake, channel, onAck, task>>

\* A rejection ends the handshake, and connect() raises it.
HandleRejection ==
    /\ Rejection \in offline
    /\ open /\ state["client"] \in {"DISCONNECTED", "CONNECTING"}
    /\ Len(events["client"]) < MaxEvents
    /\ Disconnected("client", "DISCONNECTED")
    /\ Wake("client", "rejected")
    /\ UNCHANGED <<handshake, channel, onAck, task>>

----------------------------------------------------------------------------
(* Messages from the reliability layer: _handle_connected_message.         *)

\* A fault: the server does not wait for ID_NEW_INCOMING_CONNECTION.
HandleConnectionRequestEarly(e) ==
    /\ e = "server" /\ state[e] = "CONNECTING"
    /\ Queue(e, "ACCEPTED", 0)
    /\ state' = [state EXCEPT ![e] = "CONNECTED"]
    /\ events' = [events EXCEPT ![e] = Append(@, Signal("CONNECT"))]
    /\ UNCHANGED <<closed, onAck, caller>>

HandleConnectionRequest(e) ==
    /\ e = "server" /\ state[e] = "CONNECTING"
    /\ Queue(e, "ACCEPTED", 0)
    /\ UNCHANGED <<state, events, closed, onAck, caller>>

\* A fault: ID_NEW_INCOMING_CONNECTION is sent RELIABLE only.
HandleConnectionAcceptedUnordered(e) ==
    /\ e = "client" /\ state[e] = "CONNECTING"
    /\ state' = [state EXCEPT ![e] = "CONNECTED"]
    /\ events' = [events EXCEPT ![e] = Append(@, Signal("CONNECT"))]
    /\ Queue(e, "NEW_INCOMING", Unordered)
    /\ Wake(e, "connected")
    /\ UNCHANGED <<closed, onAck>>

HandleConnectionAccepted(e) ==
    /\ e = "client" /\ state[e] = "CONNECTING"
    /\ state' = [state EXCEPT ![e] = "CONNECTED"]
    /\ events' = [events EXCEPT ![e] = Append(@, Signal("CONNECT"))]
    /\ Queue(e, "NEW_INCOMING", 0)
    /\ Wake(e, "connected")
    /\ UNCHANGED <<closed, onAck>>

HandleNewIncoming(e) ==
    /\ e = "server" /\ state[e] = "CONNECTING"
    /\ state' = [state EXCEPT ![e] = "CONNECTED"]
    /\ events' = [events EXCEPT ![e] = Append(@, Signal("CONNECT"))]
    /\ UNCHANGED <<sent, closed, onAck, caller>>

\* A fault: the application is not told of the notification.
HandleDisconnectionUntold(e) ==
    /\ state' = [state EXCEPT ![e] = "DISCONNECTING"]
    /\ onAck' = [onAck EXCEPT ![e] = TRUE]
    /\ UNCHANGED <<sent, events, closed, caller>>

HandleDisconnection(e) ==
    /\ Disconnected(e, "DISCONNECTING")
    /\ onAck' = [onAck EXCEPT ![e] = TRUE]
    /\ Wake(e, "rejected")
    /\ UNCHANGED sent

\* A fault: data is handed over in any state.
HandleUserAlways(e, i) ==
    /\ events' = [events EXCEPT ![e] = Append(@, [signal |-> "RECEIVE", msg |-> i])]
    /\ UNCHANGED <<state, sent, closed, onAck, caller>>

\* Anything else is for the user, if the connection is up.
HandleUser(e, i) ==
    /\ events' = IF state[e] = "CONNECTED"
                 THEN [events EXCEPT ![e] = Append(@, [signal |-> "RECEIVE", msg |-> i])]
                 ELSE events
    /\ UNCHANGED <<state, sent, closed, onAck, caller>>

Expected(e, kind) ==
    /\ state[e] = "CONNECTING"
    /\ kind \in (IF e = "server" THEN {"REQUEST", "NEW_INCOMING"} ELSE {"ACCEPTED"})

Receive(e) ==
    \E i \in Arriving(Peer(e)) :
        LET kind == sent[Peer(e)][i].kind
        IN  /\ Listening(e)
            /\ \/ kind = "REQUEST" /\ HandleConnectionRequest(e)
               \/ kind = "ACCEPTED" /\ HandleConnectionAccepted(e)
               \/ kind = "NEW_INCOMING" /\ HandleNewIncoming(e)
               \/ kind = "DISCONNECTION" /\ HandleDisconnection(e)
               \/ /\ kind # "DISCONNECTION" /\ ~Expected(e, kind)
                  /\ HandleUser(e, i)
            /\ arrived' = [arrived EXCEPT ![Peer(e)] = @ \cup {i}]
            /\ ackDue' = [ackDue EXCEPT ![e] = @ \cup {i}]
            /\ UNCHANGED <<handshake, out, acked, task>>

----------------------------------------------------------------------------
(* The application.                                                        *)

OfKind(e, kind) == {i \in DOMAIN sent[e] : sent[e][i].kind = kind}

SendData(e) ==
    /\ state[e] = "CONNECTED" /\ (e = "client" => open)
    /\ Cardinality(OfKind(e, "DATA")) < MaxData
    /\ \E ch \in DataChannels[e] : Queue(e, "DATA", ch)
    /\ UNCHANGED <<state, handshake, out, arrived, ackDue, acked, onAck, events,
                   closed, task, caller>>

\* Connection.disconnect, from Server.disconnect, Server.close or a handler.
Disconnect(e) ==
    /\ state[e] = "CONNECTED"
    /\ Queue(e, "DISCONNECTION", 0)
    /\ state' = [state EXCEPT ![e] = "DISCONNECTING"]

ServerDisconnect ==
    /\ Disconnect("server")
    /\ UNCHANGED <<handshake, out, arrived, ackDue, acked, onAck, events, closed, task, caller>>

\* wait_for in connect() gives up: the handshake goes on without its caller.
ConnectTimesOut ==
    /\ caller = "connecting" /\ caller' = "timed out"
    /\ UNCHANGED <<state, handshake, channel, onAck, events, closed, task>>

\* close() by a user whose connect() has ended, up to the wait for the
\* notification to be acknowledged.  After a DISCONNECT signal it does nothing.
ClientClose ==
    /\ caller \in {"connected", "rejected", "timed out"}
    /\ \/ closed /\ caller' = "closed" /\ UNCHANGED <<state, sent, closed>>
       \/ /\ ~closed /\ closed' = TRUE /\ caller' = "closing"
          /\ \/ Disconnect("client")
             \/ state["client"] # "CONNECTED" /\ UNCHANGED <<state, sent>>
    /\ UNCHANGED <<handshake, out, arrived, ackDue, acked, onAck, events, task>>

\* _drain has seen no data pending, or has waited for a second.
ClientCloseEnds ==
    /\ caller = "closing" /\ caller' = "closed"
    /\ out["client"] = Len(sent["client"]) \/ state["client"] # "DISCONNECTING"
    /\ loop' = FALSE /\ open' = FALSE
    /\ UNCHANGED <<state, handshake, channel, onAck, events, closed>>

\* close(notify=False)
ClientLeave ==
    /\ caller \in {"connected", "rejected", "timed out"} /\ caller' = "closed"
    /\ ~closed /\ closed' = TRUE
    /\ loop' = FALSE /\ open' = FALSE
    /\ UNCHANGED <<state, handshake, channel, onAck, events>>

\* The update task ends for good, though a late reply may still queue data.
LoopEnds ==
    /\ loop /\ closed /\ ~Pending("client")
    /\ loop' = FALSE
    /\ UNCHANGED <<state, handshake, channel, onAck, events, closed, open, caller>>

Next ==
    \/ Retransmit
    \/ \E e \in Ends : TimeOut(e) \/ Flush(e) \/ Receive(e) \/ SendData(e)
    \/ HandleRequest1 \/ HandleReply1 \/ Refuse \/ HandleRequest2 \/ HandleReply2
    \/ HandleRejection
    \/ ServerDisconnect
    \/ ConnectTimesOut \/ ClientClose \/ ClientCloseEnds \/ ClientLeave \/ LoopEnds

Spec == Init /\ [][Next]_vars

\* Nothing more comes from the other end.
Silent(e) == Arriving(Peer(e)) = {} /\ ~(state[Peer(e)] \in Live /\ Ticking(Peer(e)))

SilentTimeOut(e) == Silent(e) /\ TimeOut(e)

\* The update loops run, the network delivers, connect() and close() do not
\* wait for ever; a timeout is sure to come only where nothing else does.
Fairness ==
    /\ WF_vars(Retransmit) /\ WF_vars(LoopEnds)
    /\ WF_vars(ConnectTimesOut) /\ WF_vars(ClientCloseEnds)
    /\ \A e \in Ends :
          WF_vars(SilentTimeOut(e)) /\ WF_vars(Flush(e)) /\ WF_vars(Receive(e))

FairSpec == Spec /\ Fairness

----------------------------------------------------------------------------
Sizes == Range(Mtus)
Kinds == {"REQUEST", "ACCEPTED", "NEW_INCOMING", "DISCONNECTION", "DATA"}
Channels == (UNION Range(DataChannels)) \cup {0, Unordered}
Message == [kind : Kinds, channel : Channels]
Signals == [signal : {"CONNECT", "DISCONNECT", "RECEIVE"}, msg : Nat]

(***************************************************************************)
(* The types at both ends.  The client's MTU attempt is at most one past   *)
(* the last size and its retransmissions stay below the count; what an end *)
(* has yet to acknowledge has arrived, and is not acknowledged already.    *)
(***************************************************************************)
TypeOK ==
    /\ state \in [Ends -> Live \cup {"DISCONNECTED", "ABSENT", "REMOVED"}]
    /\ state["client"] \notin {"ABSENT", "REMOVED"}
    /\ state["server"] # "DISCONNECTED"
    /\ mtu \in [Ends -> Sizes]
    /\ attempt \in 1 .. Len(Mtus) + 1 /\ tries \in 0 .. RetransmitCount - 1
    /\ \A p \in offline : p = Rejection \/ \E m \in Sizes :
          p \in {Request1(m), Reply1(m), Request2(m), Reply2(m)}
    /\ sent \in [Ends -> Seq(Message)] /\ events \in [Ends -> Seq(Signals)]
    /\ out \in [Ends -> Nat] /\ arrived \in [Ends -> SUBSET Nat]
    /\ acked \in [Ends -> SUBSET Nat] /\ ackDue \in [Ends -> SUBSET Nat]
    /\ \A e \in Ends :
          /\ out[e] <= Len(sent[e])
          /\ arrived[e] \subseteq 1 .. out[e] /\ acked[e] \subseteq arrived[e]
          /\ ackDue[e] \subseteq arrived[Peer(e)] \ acked[Peer(e)]
          /\ \A i \in DOMAIN events[e] : events[e][i].msg <= Len(sent[Peer(e)])
    /\ onAck \in [Ends -> BOOLEAN]
    /\ closed \in BOOLEAN /\ open \in BOOLEAN /\ loop \in BOOLEAN
    /\ caller \in {"connecting", "connected", "rejected", "timed out", "closing", "closed"}

Saw(e, s) == \E i \in DOMAIN events[e] : events[e][i].signal = s

(***************************************************************************)
(* The handshake agrees: the server's application is given a connection    *)
(* only after the client's was, whatever offline messages are repeated,    *)
(* reordered or late, and whoever gave up in between; and a client that    *)
(* believes itself connected has had a connection at the server.           *)
(***************************************************************************)
HandshakeAgrees ==
    /\ Saw("server", "CONNECT") => Saw("client", "CONNECT")
    /\ Saw("client", "CONNECT") => state["server"] # "ABSENT"

(***************************************************************************)
(* At each end the signals make one life: a connection comes up at most    *)
(* once, data is handed over only while it is up, and nothing follows the  *)
(* end, when both ends disconnect at once as when a timeout or a late      *)
(* handshake message comes in between.  Only a rejection that comes late,  *)
(* or twice, repeats the end.                                              *)
(***************************************************************************)
OneLife ==
    \A e \in Ends : \A i, j \in DOMAIN events[e] : i < j =>
        /\ events[e][j].signal # "CONNECT"
        /\ events[e][j].signal = "RECEIVE" => events[e][1].signal = "CONNECT"
        /\ events[e][i].signal = "DISCONNECT" =>
              events[e][j].signal = "DISCONNECT" /\ Rejection \in offline

(***************************************************************************)
(* Both ends of an established connection fill datagrams only as far as    *)
(* the path carries them, though requests of several sizes may be answered *)
(* in any order.                                                           *)
(***************************************************************************)
MtuFitsPath ==
    \A e \in Ends : Saw(e, "CONNECT") => mtu[e] <= PathMtu

HandedOver(e) == {events[e][i].msg : i \in DOMAIN events[e]}

(***************************************************************************)
(* The user data of channel 0 that the peer has acknowledged was handed to *)
(* its application, unless that end was already disconnecting: the server  *)
(* is never still CONNECTING when such data comes, because it travels      *)
(* behind ID_NEW_INCOMING_CONNECTION.                                      *)
(***************************************************************************)
OrderedDataKept ==
    \A e \in Ends : \A i \in arrived[Peer(e)] \cap OfKind(Peer(e), "DATA") :
        \/ sent[Peer(e)][i].channel # 0
        \/ i \in HandedOver(e)
        \/ OfKind(e, "DISCONNECTION") # {}

(***************************************************************************)
(* A connection half open at the server is given up, whether its client    *)
(* was rejected, closed or silent: its slot and its GUID do not leak.      *)
(***************************************************************************)
HalfOpenReclaimed == state["server"] = "CONNECTING" ~> state["server"] # "CONNECTING"

(***************************************************************************)
(* When the client goes away, by close() with or without a notification or *)
(* by a timeout, the server's application learns of it; and the iterator   *)
(* of a client whose server connection is gone ends.                       *)
(***************************************************************************)
EndIsSeen ==
    /\ (Saw("server", "CONNECT") /\ (state["client"] # "CONNECTED" \/ ~open))
          ~> Saw("server", "DISCONNECT")
    /\ (Saw("client", "CONNECT") /\ state["server"] = "REMOVED")
          ~> (Saw("client", "DISCONNECT") \/ ~open)

(***************************************************************************)
(* The user of a client is told the truth: connect() returns only if the   *)
(* connection came up, ConnectionRejectedError means that a rejection was  *)
(* received and no connection will come up, and close() ends with the      *)
(* socket closed unless a DISCONNECT signal came first.                    *)
(***************************************************************************)
ConnectTruthful ==
    /\ caller = "connected" => Saw("client", "CONNECT")
    /\ caller = "rejected" => Rejection \in offline /\ ~Saw("client", "CONNECT")
    /\ caller = "closed" => ~open \/ Saw("client", "DISCONNECT")

(***************************************************************************)
(* Once a client has failed, ended or been closed, its update task ends.   *)
(* Two things may keep it: data nobody acknowledged when the connection    *)
(* ended, for which has_pending_data stays true, and a handshake that      *)
(* succeeds after connect() has raised.                                    *)
(***************************************************************************)
LoopStops ==
    (Saw("client", "DISCONNECT") \/ caller \in {"rejected", "timed out", "closing"})
        ~> \/ ~loop
           \/ state["client"] = "DISCONNECTED" /\ Pending("client")
           \/ state["client"] = "CONNECTED" /\ caller = "timed out"

(***************************************************************************)
(* The end that receives ID_DISCONNECTION_NOTIFICATION stays long enough   *)
(* to acknowledge it, as the comment in _handle_connected_message says:    *)
(* its update loop still runs while the ACK is due.                        *)
(***************************************************************************)
NotificationAcked ==
    \A e \in Ends :
        OfKind(e, "DISCONNECTION") \cap ackDue[Peer(e)] # {} => Ticking(Peer(e))
=============================================================================
