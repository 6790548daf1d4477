-------------------------- MODULE ConnectionProofs --------------------------
(***************************************************************************)
(* The safety of a connection, for any list of MTU sizes, any path, any    *)
(* number of messages, retransmissions and channels, and any order of      *)
(* offline messages, timeouts and calls of the users.                      *)
(***************************************************************************)
EXTENDS Connection, TLAPS

(* How far an end is in its life: the signals it has given, and how it     *)
(* came to disconnect.                                                     *)
LifeAgrees ==
    \A e \in Ends :
        /\ state[e] \in {"ABSENT", "CONNECTING"} => events[e] = << >>
        /\ state[e] = "CONNECTED" => Saw(e, "CONNECT")
        /\ state[e] \in Live /\ ~onAck[e] => ~Saw(e, "DISCONNECT")
        /\ state[e] = "DISCONNECTING" => onAck[e] \/ OfKind(e, "DISCONNECTION") # {}
        /\ onAck[e] => state[e] \notin {"ABSENT", "CONNECTING", "CONNECTED"}

(* An end that was told of the disconnect has the notification; the server *)
(* forgets the connection at once.                                         *)
NotificationHandled ==
    /\ \A e \in Ends : onAck[e] =>
          arrived[Peer(e)] \cap OfKind(Peer(e), "DISCONNECTION") # {}
    /\ onAck["server"] => state["server"] = "REMOVED"

(* What an end sends: data and the notification only after its CONNECT,    *)
(* and the notification last, on channel 0.                                *)
SendsInOrder ==
    \A e \in Ends :
        /\ OfKind(e, "DISCONNECTION") # {} =>
              state[e] \notin {"ABSENT", "CONNECTING", "CONNECTED"}
        /\ \A d \in OfKind(e, "DISCONNECTION") : sent[e][d].channel = 0
        /\ \A d \in OfKind(e, "DISCONNECTION") : \A i \in DOMAIN sent[e] :
              i > d => sent[e][i].kind \notin {"DATA", "DISCONNECTION"}
        /\ OfKind(e, "DISCONNECTION") \cup OfKind(e, "DATA") # {} => Saw(e, "CONNECT")

(* What each end knows of the other's handshake.                           *)
HandshakeOrder ==
    /\ Saw("client", "CONNECT") <=> OfKind("client", "NEW_INCOMING") # {}
    /\ Saw("server", "CONNECT") => Saw("client", "CONNECT")
    /\ Saw("client", "CONNECT") => sent["server"] # << >>
    /\ sent["server"] # << >> => state["server"] # "ABSENT" /\ sent["client"] # << >>
    /\ arrived["client"] \cap OfKind("client", "NEW_INCOMING") # {} =>
          state["server"] \notin {"ABSENT", "CONNECTING"}
    /\ \A j \in OfKind("client", "NEW_INCOMING") : sent["client"][j].channel = 0
    /\ \A i \in OfKind("client", "DATA") : \E j \in OfKind("client", "NEW_INCOMING") : j < i
    /\ state["client"] = "CONNECTING" => attempt <= Len(Mtus)

(* The sizes that were answered have come through the path.                *)
SizesFit ==
    /\ \A m \in Sizes : {Reply1(m), Request2(m), Reply2(m)} \cap offline # {} => m <= PathMtu
    /\ state["server"] # "ABSENT" => mtu["server"] <= PathMtu
    /\ sent["client"] # << >> => mtu["client"] <= PathMtu

(* Channel 0 is ordered.                                                   *)
ChannelOrder ==
    \A e \in Ends : \A i \in arrived[e] : \A j \in 1 .. i - 1 :
        sent[e][i].channel = 0 /\ sent[e][j].channel = 0 => j \in arrived[e]

(* What the client's user knows.                                           *)
CallerKnows ==
    /\ caller = "connecting" => ~Saw("client", "CONNECT")
    /\ caller = "rejected" => state["client"] = "DISCONNECTED"
    /\ closed => Saw("client", "DISCONNECT") \/ caller \in {"closing", "closed"}

Core ==
    /\ LifeAgrees /\ NotificationHandled /\ SendsInOrder /\ HandshakeOrder
    /\ ChannelOrder /\ OrderedDataKept /\ OneLife

User == CallerKnows /\ ConnectTruthful

IInv == TypeOK /\ Core /\ SizesFit /\ User

----------------------------------------------------------------------------
(* Lemmas about the state's functions of the two ends.                     *)

LEMMA TwoEnds ==
    /\ Ends = {"client", "server"}
    /\ Peer("client") = "server" /\ Peer("server") = "client"
    /\ \A e \in Ends : Peer(e) \in Ends /\ Peer(e) # e /\ Peer(Peer(e)) = e
  BY DEF Ends, Peer

(* One end's sequence grows by an element. *)
LEMMA Appended ==
    ASSUME NEW T, NEW f \in [Ends -> Seq(T)], NEW e \in Ends, NEW x \in T,
           NEW g, g = [f EXCEPT ![e] = Append(f[e], x)]
    PROVE  /\ g \in [Ends -> Seq(T)]
           /\ Len(f[e]) + 1 \in Nat /\ Len(f[e]) + 1 > 0
           /\ Len(g[e]) = Len(f[e]) + 1
           /\ DOMAIN g[e] = DOMAIN f[e] \cup {Len(f[e]) + 1}
           /\ \A k \in DOMAIN f[e] : k \in Nat /\ k < Len(f[e]) + 1 /\ g[e][k] = f[e][k]
           /\ g[e][Len(f[e]) + 1] = x
           /\ \A d \in Ends : d # e => g[d] = f[d]
  <1>1. g[e] = Append(f[e], x) /\ f[e] \in Seq(T)
    OBVIOUS
  <1> QED
    BY <1>1

LEMMA OfKindIn ==
    ASSUME TypeOK, NEW e \in Ends, NEW kind
    PROVE  OfKind(e, kind) \subseteq DOMAIN sent[e] /\ DOMAIN sent[e] \subseteq Nat \ {0}
  <1>1. sent[e] \in Seq(Message)
    BY DEF TypeOK
  <1> QED
    BY <1>1 DEF OfKind

(* A message handed to the reliability layer. *)
LEMMA Queued ==
    ASSUME TypeOK, NEW e \in Ends, NEW kind \in Kinds,
           NEW ch \in Channels, Queue(e, kind, ch)
    PROVE  LET n == Len(sent[e]) + 1
           IN  /\ sent' \in [Ends -> Seq(Message)]
               /\ n \in Nat /\ n > 0 /\ Len(sent'[e]) = n
               /\ DOMAIN sent'[e] = DOMAIN sent[e] \cup {n}
               /\ \A k \in DOMAIN sent[e] : k \in Nat /\ k < n /\ sent'[e][k] = sent[e][k]
               /\ sent'[e][n].kind = kind /\ sent'[e][n].channel = ch
               /\ \A d \in Ends : d # e => sent'[d] = sent[d]
               /\ OfKind(e, kind)' = OfKind(e, kind) \cup {n}
               /\ \A k : k # kind => OfKind(e, k)' = OfKind(e, k)
               /\ \A d \in Ends : d # e => \A k : OfKind(d, k)' = OfKind(d, k)
  <1> DEFINE m == [kind |-> kind, channel |-> ch]
             n == Len(sent[e]) + 1
  <1>1. m \in Message /\ m.kind = kind /\ m.channel = ch
    BY DEF Message
  <1>2. sent \in [Ends -> Seq(Message)] /\ sent' = [sent EXCEPT ![e] = Append(sent[e], m)]
    BY DEF TypeOK, Queue
  <1> HIDE DEF m
  <1>3. /\ sent' \in [Ends -> Seq(Message)]
        /\ n \in Nat /\ n > 0 /\ Len(sent'[e]) = n
        /\ DOMAIN sent'[e] = DOMAIN sent[e] \cup {n}
        /\ \A k \in DOMAIN sent[e] : k \in Nat /\ k < n /\ sent'[e][k] = sent[e][k]
        /\ sent'[e][n] = m
        /\ \A d \in Ends : d # e => sent'[d] = sent[d]
    BY <1>1, <1>2, Appended
  <1> HIDE DEF n
  <1>4. /\ OfKind(e, kind)' = OfKind(e, kind) \cup {n}
        /\ \A k : k # kind => OfKind(e, k)' = OfKind(e, k)
    BY <1>1, <1>3 DEF OfKind
  <1>5. \A d \in Ends : d # e => \A k : OfKind(d, k)' = OfKind(d, k)
    BY <1>3 DEF OfKind
  <1> QED
    BY <1>1, <1>3, <1>4, <1>5 DEF n

(* A signal given to the application. *)
LEMMA Signalled ==
    ASSUME TypeOK, NEW e \in Ends, NEW v \in Signals,
           events' = [events EXCEPT ![e] = Append(@, v)]
    PROVE  LET n == Len(events[e]) + 1
           IN  /\ events' \in [Ends -> Seq(Signals)]
               /\ n \in Nat /\ n > 0
               /\ DOMAIN events'[e] = DOMAIN events[e] \cup {n}
               /\ \A k \in DOMAIN events[e] : k \in Nat /\ k < n /\ events'[e][k] = events[e][k]
               /\ events'[e][n] = v
               /\ \A d \in Ends : d # e => events'[d] = events[d]
  <1> DEFINE n == Len(events[e]) + 1
  <1>1. events \in [Ends -> Seq(Signals)] /\ events' = [events EXCEPT ![e] = Append(events[e], v)]
    BY DEF TypeOK
  <1>2. /\ events' \in [Ends -> Seq(Signals)]
        /\ n \in Nat /\ n > 0
        /\ DOMAIN events'[e] = DOMAIN events[e] \cup {n}
        /\ \A k \in DOMAIN events[e] : k \in Nat /\ k < n /\ events'[e][k] = events[e][k]
        /\ events'[e][n] = v
        /\ \A d \in Ends : d # e => events'[d] = events[d]
    BY <1>1, Appended
  <1> HIDE DEF n
  <1> QED
    BY <1>2 DEF n

LEMMA SawSignalled ==
    ASSUME TypeOK, NEW e \in Ends, NEW v \in Signals,
           events' = [events EXCEPT ![e] = Append(@, v)]
    PROVE  \A d \in Ends : \A s : Saw(d, s)' <=> Saw(d, s) \/ (d = e /\ s = v.signal)
  <1> DEFINE n == Len(events[e]) + 1
  <1>1. /\ DOMAIN events'[e] = DOMAIN events[e] \cup {n}
        /\ \A k \in DOMAIN events[e] : events'[e][k] = events[e][k]
        /\ events'[e][n] = v
        /\ \A d \in Ends : d # e => events'[d] = events[d]
    BY Signalled
  <1> HIDE DEF n
  <1>2. \A d \in Ends : \A s : d # e => (Saw(d, s)' <=> Saw(d, s))
    BY <1>1 DEF Saw
  <1>3. \A s : Saw(e, s)' <=> Saw(e, s) \/ s = v.signal
    BY <1>1 DEF Saw
  <1> QED
    BY <1>2, <1>3

LEMMA HandedOverSignalled ==
    ASSUME TypeOK, NEW e \in Ends, NEW v \in Signals,
           events' = [events EXCEPT ![e] = Append(@, v)]
    PROVE  /\ \A d \in Ends : HandedOver(d) \subseteq HandedOver(d)'
           /\ \A m : m = v.msg => m \in HandedOver(e)'
  <1> DEFINE n == Len(events[e]) + 1
  <1>1. /\ DOMAIN events'[e] = DOMAIN events[e] \cup {n}
        /\ \A k \in DOMAIN events[e] : events'[e][k] = events[e][k]
        /\ events'[e][n] = v
        /\ \A d \in Ends : d # e => events'[d] = events[d]
    BY Signalled
  <1> HIDE DEF n
  <1> QED
    BY <1>1 DEF HandedOver

(* One life goes on with a signal that may follow those before it. *)
LEMMA OneLifeGoesOn ==
    ASSUME TypeOK, OneLife, NEW e \in Ends, NEW v \in Signals,
           events' = [events EXCEPT ![e] = Append(@, v)],
           Rejection \in offline => Rejection \in offline',
           v.signal = "CONNECT" => events[e] = << >>,
           v.signal = "RECEIVE" => Saw(e, "CONNECT") /\ ~Saw(e, "DISCONNECT"),
           v.signal = "DISCONNECT" => ~Saw(e, "DISCONNECT") \/ Rejection \in offline
    PROVE  OneLife'
  <1> DEFINE n == Len(events[e]) + 1
  <1>1. /\ n \in Nat /\ n > 0
        /\ DOMAIN events'[e] = DOMAIN events[e] \cup {n}
        /\ \A k \in DOMAIN events[e] : k \in Nat /\ k < n /\ events'[e][k] = events[e][k]
        /\ events'[e][n] = v
        /\ \A d \in Ends : d # e => events'[d] = events[d]
    BY Signalled
  <1> HIDE DEF n
  <1>2. \A d \in Ends : DOMAIN events[d] \subseteq Nat \ {0}
                        /\ \A k \in DOMAIN events[d] : 1 \in DOMAIN events[d]
    <2> TAKE d \in Ends
    <2>1. events[d] \in Seq(Signals)
      BY DEF TypeOK
    <2> QED
      BY <2>1
  <1>3. v.signal \in {"CONNECT", "DISCONNECT", "RECEIVE"}
    BY DEF Signals
  <1> SUFFICES ASSUME NEW d \in Ends, NEW i \in DOMAIN events'[d],
                      NEW j \in DOMAIN events'[d], i < j
               PROVE  /\ events'[d][j].signal # "CONNECT"
                      /\ events'[d][j].signal = "RECEIVE" => events'[d][1].signal = "CONNECT"
                      /\ events'[d][i].signal = "DISCONNECT" =>
                            events'[d][j].signal = "DISCONNECT" /\ Rejection \in offline'
    BY DEF OneLife
  <1>4. CASE d # e \/ j # n
    <2>1. i \in DOMAIN events[d] /\ j \in DOMAIN events[d] /\ 1 \in DOMAIN events[d]
      BY <1>1, <1>2, <1>4
    <2>2. events'[d][i] = events[d][i] /\ events'[d][j] = events[d][j] /\ events'[d][1] = events[d][1]
      BY <1>1, <1>4, <2>1
    <2> QED
      BY <2>1, <2>2 DEF OneLife
  <1>5. CASE d = e /\ j = n
    <2>1. i \in DOMAIN events[e] /\ events'[e][i] = events[e][i] /\ 1 \in DOMAIN events[e]
      BY <1>1, <1>2, <1>5
    <2>2. events'[e][1] = events[e][1]
      BY <1>1, <2>1
    <2>3. events[e] # << >>
      BY <2>1
    <2>4. events[e][i].signal = "DISCONNECT" => Saw(e, "DISCONNECT")
      BY <2>1 DEF Saw
    <2>5. Saw(e, "CONNECT") => events[e][1].signal = "CONNECT"
      <3> SUFFICES ASSUME NEW k \in DOMAIN events[e], events[e][k].signal = "CONNECT"
                   PROVE  events[e][1].signal = "CONNECT"
        BY DEF Saw
      <3>1. k = 1 \/ 1 < k
        BY <1>2
      <3> QED
        BY <2>1, <3>1 DEF OneLife
    <2> QED
      BY <1>1, <1>3, <1>5, <2>1, <2>2, <2>3, <2>4, <2>5
  <1> QED
    BY <1>4, <1>5

(* What has arrived on channel 0 stays in order while messages are queued, *)
(* and when the next one arrives.                                          *)
LEMMA ChannelOrderKept ==
    ASSUME TypeOK, ChannelOrder, UNCHANGED arrived,
           \A d \in Ends : \A k \in DOMAIN sent[d] : sent'[d][k] = sent[d][k]
    PROVE  ChannelOrder'
  <1> SUFFICES ASSUME NEW d \in Ends, NEW i \in arrived[d], NEW j \in 1 .. i - 1,
                      sent'[d][i].channel = 0, sent'[d][j].channel = 0
               PROVE  j \in arrived[d]
    BY DEF ChannelOrder
  <1>1. i \in DOMAIN sent[d] /\ j \in DOMAIN sent[d]
    <2>1. /\ sent[d] \in Seq(Message) /\ out[d] \in Nat /\ out[d] <= Len(sent[d])
          /\ arrived[d] \subseteq 1 .. out[d]
      BY DEF TypeOK
    <2> QED
      BY <2>1
  <1> QED
    BY <1>1 DEF ChannelOrder

LEMMA Arrives ==
    ASSUME TypeOK, ChannelOrder, NEW e \in Ends, NEW i \in Arriving(Peer(e)),
           arrived' = [arrived EXCEPT ![Peer(e)] = @ \cup {i}]
    PROVE  /\ i \in DOMAIN sent[Peer(e)] /\ i \in Nat /\ i <= out[Peer(e)]
           /\ i \notin arrived[Peer(e)] /\ \A d \in Ends : arrived[d] \subseteq DOMAIN sent[d]
           /\ arrived'[Peer(e)] = arrived[Peer(e)] \cup {i} /\ arrived'[e] = arrived[e]
           /\ \A j \in 1 .. i - 1 :
                 sent[Peer(e)][i].channel = 0 /\ sent[Peer(e)][j].channel = 0
                     => j \in arrived[Peer(e)]
           /\ (\A d \in Ends : \A k \in DOMAIN sent[d] : sent'[d][k] = sent[d][k]) => ChannelOrder'
  <1>1. \A d \in Ends : /\ sent[d] \in Seq(Message) /\ out[d] \in Nat /\ out[d] <= Len(sent[d])
                       /\ arrived[d] \subseteq 1 .. out[d]
    BY DEF TypeOK
  <1>2. i \in 1 .. out[Peer(e)] /\ i \notin arrived[Peer(e)]
    BY DEF Arriving
  <1>3. i \in DOMAIN sent[Peer(e)] /\ \A d \in Ends : arrived[d] \subseteq DOMAIN sent[d]
    BY <1>1, <1>2, TwoEnds
  <1>4. arrived'[Peer(e)] = arrived[Peer(e)] \cup {i} /\ arrived'[e] = arrived[e]
    BY TwoEnds DEF TypeOK
  <1>5. \A j \in 1 .. i - 1 : sent[Peer(e)][i].channel = 0 /\ sent[Peer(e)][j].channel = 0
                                  => j \in arrived[Peer(e)]
    BY DEF Arriving, Unordered
  <1>6. ASSUME \A d \in Ends : \A k \in DOMAIN sent[d] : sent'[d][k] = sent[d][k]
        PROVE  ChannelOrder'
    <2> SUFFICES ASSUME NEW d \in Ends, NEW m \in arrived'[d], NEW j \in 1 .. m - 1,
                        sent'[d][m].channel = 0, sent'[d][j].channel = 0
                 PROVE  j \in arrived'[d]
      BY DEF ChannelOrder
    <2>1. m \in DOMAIN sent[d] /\ j \in DOMAIN sent[d]
      BY <1>1, <1>2, <1>3, <1>4, TwoEnds
    <2>2. sent[d][m].channel = 0 /\ sent[d][j].channel = 0
      BY <1>6, <2>1
    <2>3. CASE m \in arrived[d]
      BY <1>4, <2>2, <2>3, TwoEnds DEF ChannelOrder
    <2>4. CASE m \notin arrived[d]
      <3>1. d = Peer(e) /\ m = i
        BY <1>4, <2>4, TwoEnds
      <3> QED
        BY <1>4, <1>5, <2>2, <3>1
    <2> QED
      BY <2>3, <2>4
  <1> QED
    BY <1>1, <1>2, <1>3, <1>4, <1>5, <1>6

----------------------------------------------------------------------------
(* Steps by what they do to the state that both ends agree on.             *)

(* Steps that only send, receive or repeat offline messages, or answer     *)
(* the user.                                                               *)
LEMMA QuietCore ==
    ASSUME Core, UNCHANGED <<state, sent, events, arrived, onAck>>,
           Rejection \in offline => Rejection \in offline',
           state'["client"] = "CONNECTING" => attempt' <= Len(Mtus)
    PROVE  Core'
  <1>1. LifeAgrees' /\ NotificationHandled' /\ SendsInOrder'
    BY DEF Core, LifeAgrees, NotificationHandled, SendsInOrder, Saw, OfKind
  <1>2. HandshakeOrder' /\ ChannelOrder' /\ OrderedDataKept' /\ OneLife'
    BY DEF Core, HandshakeOrder, ChannelOrder, OrderedDataKept, OneLife, Saw, OfKind,
           HandedOver
  <1> QED
    BY <1>1, <1>2 DEF Core

(* A DISCONNECT signal that is the first, or that a rejection repeats.     *)
LEMMA EndedCore ==
    ASSUME TypeOK, Core, NEW e \in Ends, Disconnected(e, "DISCONNECTED"),
           UNCHANGED <<sent, arrived, onAck>>,
           Rejection \in offline => Rejection \in offline',
           state'["client"] = "CONNECTING" => attempt' <= Len(Mtus),
           \/ state[e] \in Live /\ ~onAck[e]
           \/ /\ e = "client" /\ state[e] \in {"DISCONNECTED", "CONNECTING"}
              /\ Rejection \in offline
    PROVE  Core'
  <1> DEFINE v == Signal("DISCONNECT")
  <1>1. v \in Signals /\ v.signal = "DISCONNECT"
    BY DEF Signal, Signals
  <1>2. events' = [events EXCEPT ![e] = Append(@, v)]
    BY DEF Disconnected
  <1> HIDE DEF v
  <1>3. /\ \A d \in Ends : d # e => events'[d] = events[d]
        /\ \A d \in Ends : HandedOver(d) \subseteq HandedOver(d)'
    <2>1. \A d \in Ends : d # e => events'[d] = events[d]
      BY <1>1, <1>2, Signalled
    <2>2. \A d \in Ends : HandedOver(d) \subseteq HandedOver(d)'
      BY <1>1, <1>2, HandedOverSignalled, Zenon
    <2> QED
      BY <2>1, <2>2
  <1>4. /\ \A d \in Ends : Saw(d, "CONNECT")' <=> Saw(d, "CONNECT")
        /\ \A d \in Ends : d # e => (Saw(d, "DISCONNECT")' <=> Saw(d, "DISCONNECT"))
    <2>1. \A d \in Ends : \A s : Saw(d, s)' <=> Saw(d, s) \/ (d = e /\ s = "DISCONNECT")
      BY <1>1, <1>2, SawSignalled, Zenon
    <2> QED
      BY <2>1
  <1>5. \A d \in Ends : state'[d] = IF d = e THEN (IF e = "server" THEN "REMOVED" ELSE "DISCONNECTED")
                                    ELSE state[d]
    BY DEF Disconnected, TypeOK
  <1>6. \A d \in Ends : \A k : OfKind(d, k)' = OfKind(d, k)
    BY DEF OfKind
  <1>7. LifeAgrees'
    BY <1>3, <1>4, <1>5, <1>6 DEF Core, LifeAgrees, Live
  <1>8. NotificationHandled'
    BY <1>5, <1>6, TwoEnds DEF Core, NotificationHandled
  <1>9. SendsInOrder'
    BY <1>4, <1>5, <1>6 DEF Core, SendsInOrder
  <1>10. HandshakeOrder'
    BY <1>4, <1>5, <1>6, TwoEnds DEF Core, HandshakeOrder
  <1>11. ChannelOrder'
    BY DEF Core, ChannelOrder
  <1>12. OrderedDataKept'
    BY <1>3, <1>6, TwoEnds DEF Core, OrderedDataKept
  <1>13. OneLife'
    BY <1>1, <1>2, OneLifeGoesOn DEF Core, LifeAgrees
  <1> QED
    BY <1>7, <1>8, <1>9, <1>10, <1>11, <1>12, <1>13 DEF Core

(* A handshake message or data is queued.                                  *)
LEMMA QueuedCore ==
    ASSUME TypeOK, Core, NEW e \in Ends, NEW kind \in {"REQUEST", "ACCEPTED", "DATA"},
           NEW ch \in Channels, Queue(e, kind, ch),
           UNCHANGED <<state, events, onAck, offline, attempt>>, ChannelOrder',
           \A d \in Ends : arrived[d] \subseteq arrived'[d] /\ arrived'[d] \subseteq DOMAIN sent[d],
           \A d \in Ends : \A i \in arrived'[d] \ arrived[d] :
               sent[d][i].kind \notin {"DATA", "NEW_INCOMING"},
           kind = "DATA" => state[e] = "CONNECTED",
           e = "server" => state[e] # "ABSENT" /\ sent["client"] # << >>
    PROVE  Core'
  <1> DEFINE n == Len(sent[e]) + 1
  <1>1. /\ sent' \in [Ends -> Seq(Message)]
        /\ n \in Nat /\ n > 0
        /\ DOMAIN sent'[e] = DOMAIN sent[e] \cup {n}
        /\ \A k \in DOMAIN sent[e] : k \in Nat /\ k < n /\ sent'[e][k] = sent[e][k]
        /\ sent'[e][n].kind = kind
        /\ \A d \in Ends : d # e => sent'[d] = sent[d]
        /\ OfKind(e, kind)' = OfKind(e, kind) \cup {n}
        /\ \A k : k # kind => OfKind(e, k)' = OfKind(e, k)
        /\ \A d \in Ends : d # e => \A k : OfKind(d, k)' = OfKind(d, k)
    BY Queued DEF Kinds
  <1>2. n \notin DOMAIN sent[e]
    <2>1. sent[e] \in Seq(Message)
      BY DEF TypeOK
    <2> QED
      BY <2>1
  <1>3. \A d \in Ends : \A k : OfKind(d, k) \subseteq DOMAIN sent[d]
    BY DEF OfKind
  <1> HIDE DEF n
  <1>4. \A d \in Ends : \A s : Saw(d, s)' <=> Saw(d, s)
    BY DEF Saw
  <1>5. \A d \in Ends : OfKind(d, "DISCONNECTION")' = OfKind(d, "DISCONNECTION")
                       /\ OfKind(d, "NEW_INCOMING")' = OfKind(d, "NEW_INCOMING")
    BY <1>1
  <1>6. \A d \in Ends : \A k \in DOMAIN sent[d] : sent'[d][k] = sent[d][k]
    BY <1>1
  <1>7. LifeAgrees' /\ NotificationHandled'
    BY <1>4, <1>5, TwoEnds DEF Core, LifeAgrees, NotificationHandled
  <1>8. arrived'["client"] \cap OfKind("client", "NEW_INCOMING")'
             = arrived["client"] \cap OfKind("client", "NEW_INCOMING")
    BY <1>5, TwoEnds DEF OfKind
  <1>9. SendsInOrder'
    <2>1. kind = "DATA" => Saw(e, "CONNECT") /\ OfKind(e, "DISCONNECTION") = {}
      BY DEF Core, LifeAgrees, SendsInOrder
    <2> SUFFICES ASSUME NEW d \in Ends
                 PROVE  /\ OfKind(d, "DISCONNECTION")' # {} =>
                              state'[d] \notin {"ABSENT", "CONNECTING", "CONNECTED"}
                        /\ \A c \in OfKind(d, "DISCONNECTION")' : sent'[d][c].channel = 0
                        /\ \A c \in OfKind(d, "DISCONNECTION")' : \A i \in DOMAIN sent'[d] :
                              i > c => sent'[d][i].kind \notin {"DATA", "DISCONNECTION"}
                        /\ OfKind(d, "DISCONNECTION")' \cup OfKind(d, "DATA")' # {} => Saw(d, "CONNECT")'
      BY DEF SendsInOrder
    <2>2. OfKind(d, "DISCONNECTION")' # {} => state'[d] \notin {"ABSENT", "CONNECTING", "CONNECTED"}
      BY <1>5 DEF Core, SendsInOrder
    <2>3. \A c \in OfKind(d, "DISCONNECTION")' : sent'[d][c].channel = 0
      BY <1>3, <1>5, <1>6 DEF Core, SendsInOrder
    <2>4. \A c \in OfKind(d, "DISCONNECTION")' : \A i \in DOMAIN sent'[d] :
              i > c => sent'[d][i].kind \notin {"DATA", "DISCONNECTION"}
      BY <1>1, <1>3, <1>5, <1>6, <2>1 DEF Core, SendsInOrder
    <2>5. OfKind(d, "DISCONNECTION")' \cup OfKind(d, "DATA")' # {} => Saw(d, "CONNECT")'
      BY <1>1, <1>4, <1>5, <2>1 DEF Core, SendsInOrder
    <2> QED
      BY <2>2, <2>3, <2>4, <2>5
  <1>10. HandshakeOrder'
    <2>1. \A i \in OfKind("client", "DATA")' : \E j \in OfKind("client", "NEW_INCOMING")' : j < i
      <3>1. CASE e = "client" /\ kind = "DATA"
        <4>1. PICK j \in OfKind("client", "NEW_INCOMING") : TRUE
          BY <3>1 DEF Core, LifeAgrees, HandshakeOrder, Ends
        <4>2. j < n
          BY <1>1, <1>3, <3>1, <4>1
        <4> QED
          BY <1>1, <1>5, <3>1, <4>1, <4>2 DEF Core, HandshakeOrder, Ends
      <3>2. CASE ~(e = "client" /\ kind = "DATA")
        BY <1>1, <1>5, <3>2 DEF Core, HandshakeOrder, Ends
      <3> QED
        BY <3>1, <3>2
    <2>2. sent'["server"] # << >> => state'["server"] # "ABSENT" /\ sent'["client"] # << >>
      <3>1. sent["client"] # << >> => sent'["client"] # << >>
        BY <1>1, <1>2 DEF Ends
      <3> QED
        BY <1>1, <3>1 DEF Core, HandshakeOrder, Ends
    <2>3. Saw("client", "CONNECT")' => sent'["server"] # << >>
      BY <1>1, <1>2, <1>4 DEF Core, HandshakeOrder, Ends
    <2>4. \A j \in OfKind("client", "NEW_INCOMING")' : sent'["client"][j].channel = 0
      BY <1>3, <1>5, <1>6 DEF Core, HandshakeOrder, Ends
    <2>5. /\ Saw("client", "CONNECT")' <=> OfKind("client", "NEW_INCOMING")' # {}
          /\ Saw("server", "CONNECT")' => Saw("client", "CONNECT")'
          /\ arrived'["client"] \cap OfKind("client", "NEW_INCOMING")' # {} =>
                state'["server"] \notin {"ABSENT", "CONNECTING"}
          /\ state'["client"] = "CONNECTING" => attempt' <= Len(Mtus)
      BY <1>4, <1>5, <1>8 DEF Core, HandshakeOrder, Ends
    <2> QED
      BY <2>1, <2>2, <2>3, <2>4, <2>5 DEF HandshakeOrder
  <1>11. OrderedDataKept'
    <2> SUFFICES ASSUME NEW d \in Ends, NEW i \in arrived'[Peer(d)], i \in OfKind(Peer(d), "DATA")'
                 PROVE  \/ sent'[Peer(d)][i].channel # 0
                        \/ i \in HandedOver(d)
                        \/ OfKind(d, "DISCONNECTION")' # {}
      BY DEF OrderedDataKept, HandedOver
    <2>1. i \in DOMAIN sent[Peer(d)] /\ sent'[Peer(d)][i] = sent[Peer(d)][i]
      BY <1>6, TwoEnds
    <2>2. i \in OfKind(Peer(d), "DATA")
      BY <2>1 DEF OfKind
    <2>3. i \in arrived[Peer(d)]
      BY <2>2, TwoEnds DEF OfKind
    <2> QED
      BY <1>5, <2>1, <2>2, <2>3 DEF Core, OrderedDataKept
  <1>12. OneLife'
    BY DEF Core, OneLife
  <1> QED
    BY <1>7, <1>9, <1>10, <1>11, <1>12 DEF Core

(* The server creates the connection, or answers again. *)
LEMMA CreatedCore ==
    ASSUME TypeOK, Core, HandleRequest2
    PROVE  Core'
  <1>1. /\ state["server"] \in {"ABSENT", "CONNECTING"}
        /\ state' = [state EXCEPT !["server"] = "CONNECTING"]
        /\ UNCHANGED <<attempt, channel, onAck, events, closed, task, caller>>
        /\ Rejection \in offline => Rejection \in offline'
    BY DEF HandleRequest2
  <1>2. state'["server"] = "CONNECTING" /\ state'["client"] = state["client"]
    BY <1>1 DEF TypeOK, Ends
  <1>3. /\ \A d \in Ends : \A k : OfKind(d, k)' = OfKind(d, k)
        /\ \A d \in Ends : \A s : Saw(d, s)' <=> Saw(d, s)
    BY <1>1 DEF OfKind, Saw, channel
  <1>4. LifeAgrees'
    <2>1. ~onAck["server"] /\ events["server"] = << >>
      BY <1>1 DEF Core, LifeAgrees, NotificationHandled, Ends
    <2>2. ~Saw("server", "DISCONNECT")
      BY <2>1 DEF Saw
    <2> QED
      BY <1>1, <1>2, <1>3, <2>1, <2>2, TwoEnds DEF Core, LifeAgrees
  <1>5. NotificationHandled'
    BY <1>1, <1>2, <1>3, TwoEnds DEF Core, NotificationHandled, LifeAgrees, channel
  <1>6. SendsInOrder'
    BY <1>1, <1>2, <1>3, TwoEnds DEF Core, SendsInOrder, channel
  <1>7. HandshakeOrder'
    BY <1>1, <1>2, <1>3, TwoEnds DEF Core, HandshakeOrder, channel
  <1>8. ChannelOrder' /\ OneLife'
    BY <1>1 DEF Core, ChannelOrder, OneLife, channel
  <1>9. OrderedDataKept'
    BY <1>1, <1>3, TwoEnds DEF Core, OrderedDataKept, HandedOver, channel
  <1> QED
    BY <1>4, <1>5, <1>6, <1>7, <1>8, <1>9 DEF Core

(* The notification has been acknowledged: the client's connection ends. *)
LEMMA AckSentCore ==
    ASSUME TypeOK, Core, NEW e \in Ends, onAck[e], state[e] = "DISCONNECTING",
           state' = [state EXCEPT ![e] = "DISCONNECTED"],
           UNCHANGED <<attempt, sent, arrived, onAck, events, offline>>
    PROVE  Core'
  <1>1. e = "client"
    BY TwoEnds DEF Core, NotificationHandled
  <1>2. state'["client"] = "DISCONNECTED" /\ state'["server"] = state["server"]
    BY <1>1 DEF TypeOK, Ends
  <1>3. /\ \A d \in Ends : \A k : OfKind(d, k)' = OfKind(d, k)
        /\ \A d \in Ends : \A s : Saw(d, s)' <=> Saw(d, s)
    BY DEF OfKind, Saw
  <1>4. LifeAgrees' /\ NotificationHandled' /\ SendsInOrder'
    BY <1>2, <1>3, TwoEnds DEF Core, LifeAgrees, NotificationHandled, SendsInOrder, Live
  <1>5. HandshakeOrder'
    BY <1>2, <1>3, TwoEnds DEF Core, HandshakeOrder
  <1>6. ChannelOrder' /\ OneLife'
    BY DEF Core, ChannelOrder, OneLife
  <1>7. OrderedDataKept'
    BY <1>3, TwoEnds DEF Core, OrderedDataKept, HandedOver
  <1> QED
    BY <1>4, <1>5, <1>6, <1>7 DEF Core

(* Connection.disconnect. *)
LEMMA DisconnectCore ==
    ASSUME TypeOK, Core, NEW e \in Ends, Disconnect(e),
           UNCHANGED <<attempt, arrived, onAck, events, offline>>
    PROVE  Core'
  <1> DEFINE n == Len(sent[e]) + 1
  <1>1. /\ sent' \in [Ends -> Seq(Message)]
        /\ n \in Nat /\ n > 0
        /\ DOMAIN sent'[e] = DOMAIN sent[e] \cup {n}
        /\ \A k \in DOMAIN sent[e] : k \in Nat /\ k < n /\ sent'[e][k] = sent[e][k]
        /\ sent'[e][n].kind = "DISCONNECTION" /\ sent'[e][n].channel = 0
        /\ \A d \in Ends : d # e => sent'[d] = sent[d]
        /\ OfKind(e, "DISCONNECTION")' = OfKind(e, "DISCONNECTION") \cup {n}
        /\ \A k : k # "DISCONNECTION" => OfKind(e, k)' = OfKind(e, k)
        /\ \A d \in Ends : d # e => \A k : OfKind(d, k)' = OfKind(d, k)
    <2>1. Queue(e, "DISCONNECTION", 0) /\ "DISCONNECTION" \in Kinds /\ 0 \in Channels
      BY DEF Disconnect, Kinds, Channels
    <2> QED
      BY <2>1, Queued
  <1>2. n \notin DOMAIN sent[e] /\ \A d \in Ends : arrived[d] \subseteq DOMAIN sent[d]
    <2>1. \A d \in Ends : /\ sent[d] \in Seq(Message) /\ out[d] \in Nat /\ out[d] <= Len(sent[d])
                         /\ arrived[d] \subseteq 1 .. out[d]
      BY DEF TypeOK
    <2> QED
      BY <2>1
  <1>3. \A d \in Ends : \A k : OfKind(d, k) \subseteq DOMAIN sent[d]
    BY DEF OfKind
  <1> HIDE DEF n
  <1>4. \A d \in Ends : \A s : Saw(d, s)' <=> Saw(d, s)
    BY DEF Saw
  <1>5. \A d \in Ends : \A k \in DOMAIN sent[d] : sent'[d][k] = sent[d][k]
    BY <1>1
  <1>6. /\ state[e] = "CONNECTED" /\ Saw(e, "CONNECT") /\ ~onAck[e]
        /\ OfKind(e, "DISCONNECTION") = {}
    BY DEF Core, LifeAgrees, SendsInOrder, Disconnect
  <1>7. \A d \in Ends : state'[d] = IF d = e THEN "DISCONNECTING" ELSE state[d]
    BY DEF Disconnect, TypeOK
  <1>8. LifeAgrees'
    BY <1>1, <1>4, <1>6, <1>7 DEF Core, LifeAgrees, Live
  <1>9. NotificationHandled'
    BY <1>1, <1>6, <1>7, TwoEnds DEF Core, NotificationHandled
  <1>10. SendsInOrder'
    <2> SUFFICES ASSUME NEW d \in Ends
                 PROVE  /\ OfKind(d, "DISCONNECTION")' # {} =>
                              state'[d] \notin {"ABSENT", "CONNECTING", "CONNECTED"}
                        /\ \A c \in OfKind(d, "DISCONNECTION")' : sent'[d][c].channel = 0
                        /\ \A c \in OfKind(d, "DISCONNECTION")' : \A i \in DOMAIN sent'[d] :
                              i > c => sent'[d][i].kind \notin {"DATA", "DISCONNECTION"}
                        /\ OfKind(d, "DISCONNECTION")' \cup OfKind(d, "DATA")' # {} => Saw(d, "CONNECT")'
      BY DEF SendsInOrder
    <2>1. CASE d = e
      <3>1. OfKind(e, "DISCONNECTION")' = {n}
        BY <1>1, <1>6
      <3>2. \A i \in DOMAIN sent'[e] : ~(i > n)
        BY <1>1
      <3> QED
        BY <1>1, <1>4, <1>6, <1>7, <2>1, <3>1, <3>2
    <2>2. CASE d # e
      <3>1. /\ OfKind(d, "DISCONNECTION")' = OfKind(d, "DISCONNECTION")
            /\ OfKind(d, "DATA")' = OfKind(d, "DATA") /\ sent'[d] = sent[d]
        BY <1>1, <2>2
      <3> QED
        BY <1>4, <1>7, <2>2, <3>1 DEF Core, SendsInOrder
    <2> QED
      BY <2>1, <2>2
  <1>11. HandshakeOrder'
    <2>1. \A d \in Ends : sent[d] # << >> => sent'[d] # << >>
      BY <1>1, <1>2
    <2>2. OfKind("client", "NEW_INCOMING")' = OfKind("client", "NEW_INCOMING")
      BY <1>1, TwoEnds
    <2>3. OfKind("client", "DATA")' = OfKind("client", "DATA")
      BY <1>1, TwoEnds
    <2>4. sent'["server"] # << >> => state'["server"] # "ABSENT" /\ sent'["client"] # << >>
      BY <1>1, <1>6, <1>7, <2>1, TwoEnds DEF Core, HandshakeOrder
    <2>5. Saw("client", "CONNECT")' => sent'["server"] # << >>
      BY <1>4, <2>1, TwoEnds DEF Core, HandshakeOrder
    <2>6. \A j \in OfKind("client", "NEW_INCOMING")' : sent'["client"][j].channel = 0
      BY <1>3, <1>5, <2>2, TwoEnds DEF Core, HandshakeOrder
    <2>7. /\ Saw("client", "CONNECT")' <=> OfKind("client", "NEW_INCOMING")' # {}
          /\ Saw("server", "CONNECT")' => Saw("client", "CONNECT")'
          /\ arrived'["client"] \cap OfKind("client", "NEW_INCOMING")' # {} =>
                state'["server"] \notin {"ABSENT", "CONNECTING"}
          /\ state'["client"] = "CONNECTING" => attempt' <= Len(Mtus)
      BY <1>4, <1>7, <2>2, TwoEnds DEF Core, HandshakeOrder
    <2> QED
      BY <2>2, <2>3, <2>4, <2>5, <2>6, <2>7 DEF Core, HandshakeOrder
  <1>12. ChannelOrder'
    BY <1>5, ChannelOrderKept DEF Core
  <1>13. OrderedDataKept'
    <2> SUFFICES ASSUME NEW d \in Ends, NEW i \in arrived[Peer(d)], i \in OfKind(Peer(d), "DATA")'
                 PROVE  \/ sent'[Peer(d)][i].channel # 0
                        \/ i \in HandedOver(d)
                        \/ OfKind(d, "DISCONNECTION")' # {}
      BY DEF OrderedDataKept, HandedOver
    <2>1. i \in OfKind(Peer(d), "DATA") /\ sent'[Peer(d)][i] = sent[Peer(d)][i]
      BY <1>1, <1>2, <1>3, <1>5, TwoEnds
    <2>2. OfKind(d, "DISCONNECTION") \subseteq OfKind(d, "DISCONNECTION")'
      BY <1>1
    <2> QED
      BY <2>1, <2>2 DEF Core, OrderedDataKept
  <1>14. OneLife'
    BY DEF Core, OneLife
  <1> QED
    BY <1>8, <1>9, <1>10, <1>11, <1>12, <1>13, <1>14 DEF Core

----------------------------------------------------------------------------
(* The messages of the reliability layer, as they arrive.                  *)

(* ID_CONNECTION_REQUEST_ACCEPTED: the client is connected.                *)
LEMMA AcceptedCore ==
    ASSUME TypeOK, Core, NEW e \in Ends, NEW i \in Arriving(Peer(e)),
           sent[Peer(e)][i].kind = "ACCEPTED", HandleConnectionAccepted(e),
           arrived' = [arrived EXCEPT ![Peer(e)] = @ \cup {i}],
           UNCHANGED <<attempt, offline>>
    PROVE  Core'
  <1> DEFINE n == Len(sent[e]) + 1
             v == Signal("CONNECT")
  <1>1. /\ e = "client" /\ Peer(e) = "server" /\ state[e] = "CONNECTING"
        /\ Queue(e, "NEW_INCOMING", 0) /\ UNCHANGED onAck
        /\ events' = [events EXCEPT ![e] = Append(@, v)]
    BY TwoEnds DEF HandleConnectionAccepted
  <1>2. "NEW_INCOMING" \in Kinds /\ 0 \in Channels
    BY DEF Kinds, Channels
  <1>3. /\ sent' \in [Ends -> Seq(Message)]
        /\ n \in Nat /\ n > 0
        /\ DOMAIN sent'[e] = DOMAIN sent[e] \cup {n}
        /\ \A k \in DOMAIN sent[e] : k \in Nat /\ k < n /\ sent'[e][k] = sent[e][k]
        /\ sent'[e][n].kind = "NEW_INCOMING" /\ sent'[e][n].channel = 0
        /\ \A d \in Ends : d # e => sent'[d] = sent[d]
        /\ OfKind(e, "NEW_INCOMING")' = OfKind(e, "NEW_INCOMING") \cup {n}
        /\ \A k : k # "NEW_INCOMING" => OfKind(e, k)' = OfKind(e, k)
        /\ \A d \in Ends : d # e => \A k : OfKind(d, k)' = OfKind(d, k)
    BY <1>1, <1>2, Queued
  <1>4. v \in Signals /\ v.signal = "CONNECT"
    BY DEF Signal, Signals
  <1> HIDE DEF v, n
  <1>5. /\ \A d \in Ends : Saw(d, "CONNECT")' <=> Saw(d, "CONNECT") \/ d = e
        /\ \A d \in Ends : Saw(d, "DISCONNECT")' <=> Saw(d, "DISCONNECT")
        /\ \A d \in Ends : HandedOver(d) \subseteq HandedOver(d)'
        /\ \A d \in Ends : d # e => events'[d] = events[d]
    <2>0. events' = [events EXCEPT ![e] = Append(@, v)]
      BY <1>1
    <2>1. \A d \in Ends : \A s : Saw(d, s)' <=> Saw(d, s) \/ (d = e /\ s = "CONNECT")
      BY <1>4, <2>0, SawSignalled, Zenon
    <2>2. \A d \in Ends : (Saw(d, "DISCONNECT")' <=> Saw(d, "DISCONNECT"))
                          /\ (Saw(d, "CONNECT")' <=> Saw(d, "CONNECT") \/ d = e)
      BY <2>1
    <2>3. \A d \in Ends : HandedOver(d) \subseteq HandedOver(d)'
      BY <1>4, <2>0, HandedOverSignalled, Zenon
    <2>4. \A d \in Ends : d # e => events'[d] = events[d]
      BY <1>1, <1>4, Signalled
    <2> QED
      BY <2>2, <2>3, <2>4
  <1>6. \A d \in Ends : state'[d] = IF d = e THEN "CONNECTED" ELSE state[d]
    BY DEF HandleConnectionAccepted, TypeOK
  <1>7. \A d \in Ends : \A k \in DOMAIN sent[d] : sent'[d][k] = sent[d][k]
    BY <1>3
  <1>8. /\ i \in DOMAIN sent["server"] /\ arrived'["client"] = arrived["client"]
        /\ \A d \in Ends : arrived[d] \subseteq DOMAIN sent[d]
        /\ arrived'["server"] = arrived["server"] \cup {i}
        /\ ChannelOrder'
    <2>1. /\ i \in DOMAIN sent[Peer(e)] /\ arrived'[e] = arrived[e]
          /\ \A d \in Ends : arrived[d] \subseteq DOMAIN sent[d]
          /\ arrived'[Peer(e)] = arrived[Peer(e)] \cup {i} /\ ChannelOrder'
      BY <1>7, Arrives DEF Core
    <2> QED
      BY <1>1, <2>1
  <1>9. n \notin DOMAIN sent[e] /\ sent["server"] # << >>
    <2>1. sent["server"] \in Seq(Message) /\ sent[e] \in Seq(Message)
      BY TwoEnds DEF TypeOK
    <2> QED
      BY <1>8, <2>1 DEF n
  <1>10. events["client"] = << >> /\ ~Saw("client", "CONNECT") /\ ~Saw("client", "DISCONNECT")
    <2>1. events["client"] = << >>
      BY <1>1 DEF Core, LifeAgrees
    <2> QED
      BY <2>1 DEF Saw
  <1>11. LifeAgrees'
    BY <1>1, <1>3, <1>5, <1>6, <1>10, TwoEnds DEF Core, LifeAgrees, Live
  <1>12. NotificationHandled'
    BY <1>1, <1>3, <1>5, <1>6, <1>8, TwoEnds DEF Core, NotificationHandled
  <1>13. SendsInOrder'
    <2>1. /\ OfKind("client", "DISCONNECTION")' = {} /\ OfKind("client", "DATA")' = {}
      <3>1. OfKind("client", "DISCONNECTION") \cup OfKind("client", "DATA") = {}
        BY <1>10, TwoEnds DEF Core, SendsInOrder
      <3> QED
        BY <1>1, <1>3, <3>1
    <2>2. \A k : OfKind("server", k)' = OfKind("server", k)
      BY <1>1, <1>3, TwoEnds
    <2>3. sent'["server"] = sent["server"] /\ state'["server"] = state["server"]
      BY <1>1, <1>3, <1>6, TwoEnds
    <2> QED
      BY <1>1, <1>5, <2>1, <2>2, <2>3, TwoEnds DEF Core, SendsInOrder
  <1>14. HandshakeOrder'
    <2>1. sent["client"] # << >> /\ state["server"] # "ABSENT" /\ ~Saw("server", "CONNECT")
      BY <1>9, <1>10 DEF Core, HandshakeOrder
    <2>2. OfKind("client", "NEW_INCOMING")' = {n}
      BY <1>1, <1>3, <1>10 DEF Core, HandshakeOrder
    <2>3. arrived'["client"] \cap OfKind("client", "NEW_INCOMING")' = {}
      BY <1>1, <1>8, <1>9, <2>2, TwoEnds
    <2>4. OfKind("client", "DATA")' = {}
      BY <1>1, <1>3, <1>10 DEF Core, SendsInOrder
    <2>5. sent'["client"] # << >> /\ sent'["server"] # << >>
      BY <1>1, <1>3, <1>9, TwoEnds
    <2>6. state'["server"] # "ABSENT" /\ state'["client"] = "CONNECTED" /\ ~Saw("server", "CONNECT")'
      BY <1>1, <1>5, <1>6, <2>1, TwoEnds
    <2> QED
      BY <1>1, <1>3, <1>5, <2>2, <2>3, <2>4, <2>5, <2>6 DEF HandshakeOrder
  <1>15. OrderedDataKept'
    <2> SUFFICES ASSUME NEW d \in Ends, NEW k \in arrived'[Peer(d)], k \in OfKind(Peer(d), "DATA")'
                 PROVE  \/ sent'[Peer(d)][k].channel # 0
                        \/ k \in HandedOver(d)'
                        \/ OfKind(d, "DISCONNECTION")' # {}
      BY DEF OrderedDataKept
    <2>1. k \in OfKind(Peer(d), "DATA")
      <3>1. \A c \in Ends : OfKind(c, "DATA")' = OfKind(c, "DATA")
        BY <1>3
      <3> QED
        BY <3>1, TwoEnds
    <2>2. k \in arrived[Peer(d)] /\ sent'[Peer(d)][k] = sent[Peer(d)][k]
      BY <1>1, <1>7, <1>8, <2>1, TwoEnds DEF OfKind
    <2>3. OfKind(d, "DISCONNECTION")' = OfKind(d, "DISCONNECTION")
      BY <1>3
    <2> QED
      BY <1>5, <2>1, <2>2, <2>3 DEF Core, OrderedDataKept
  <1>16. OneLife'
    BY <1>1, <1>4, <1>10, OneLifeGoesOn DEF Core
  <1> QED
    BY <1>8, <1>11, <1>12, <1>13, <1>14, <1>15, <1>16 DEF Core

(* ID_NEW_INCOMING_CONNECTION: the server's end is connected.              *)
LEMMA NewIncomingCore ==
    ASSUME TypeOK, Core, NEW e \in Ends, NEW i \in Arriving(Peer(e)),
           sent[Peer(e)][i].kind = "NEW_INCOMING", HandleNewIncoming(e),
           arrived' = [arrived EXCEPT ![Peer(e)] = @ \cup {i}],
           UNCHANGED <<attempt, offline>>
    PROVE  Core'
  <1> DEFINE v == Signal("CONNECT")
  <1>1. /\ e = "server" /\ Peer(e) = "client" /\ state[e] = "CONNECTING"
        /\ UNCHANGED <<sent, onAck>>
        /\ events' = [events EXCEPT ![e] = Append(@, v)]
    BY TwoEnds DEF HandleNewIncoming
  <1>2. v \in Signals /\ v.signal = "CONNECT"
    BY DEF Signal, Signals
  <1> HIDE DEF v
  <1>3. /\ \A d \in Ends : Saw(d, "CONNECT")' <=> Saw(d, "CONNECT") \/ d = e
        /\ \A d \in Ends : Saw(d, "DISCONNECT")' <=> Saw(d, "DISCONNECT")
        /\ \A d \in Ends : HandedOver(d) \subseteq HandedOver(d)'
    <2>0. events' = [events EXCEPT ![e] = Append(@, v)]
      BY <1>1
    <2>1. \A d \in Ends : \A s : Saw(d, s)' <=> Saw(d, s) \/ (d = e /\ s = "CONNECT")
      BY <1>2, <2>0, SawSignalled, Zenon
    <2>2. \A d \in Ends : (Saw(d, "DISCONNECT")' <=> Saw(d, "DISCONNECT"))
                          /\ (Saw(d, "CONNECT")' <=> Saw(d, "CONNECT") \/ d = e)
      BY <2>1
    <2>3. \A d \in Ends : HandedOver(d) \subseteq HandedOver(d)'
      BY <1>2, <2>0, HandedOverSignalled, Zenon
    <2> QED
      BY <2>2, <2>3
  <1>4. \A d \in Ends : state'[d] = IF d = e THEN "CONNECTED" ELSE state[d]
    BY DEF HandleNewIncoming, TypeOK
  <1>5. \A d \in Ends : \A k : OfKind(d, k)' = OfKind(d, k)
    BY <1>1 DEF OfKind
  <1>6. /\ i \in DOMAIN sent["client"] /\ arrived'["server"] = arrived["server"]
        /\ arrived'["client"] = arrived["client"] \cup {i}
        /\ ChannelOrder'
    <2>1. /\ i \in DOMAIN sent[Peer(e)] /\ arrived'[e] = arrived[e]
          /\ arrived'[Peer(e)] = arrived[Peer(e)] \cup {i} /\ ChannelOrder'
      BY <1>1, Arrives DEF Core
    <2> QED
      BY <1>1, <2>1
  <1>7. i \in OfKind("client", "NEW_INCOMING")
    BY <1>1, <1>6 DEF OfKind
  <1>8. events["server"] = << >> /\ ~Saw("server", "DISCONNECT")
    <2>1. events["server"] = << >>
      BY <1>1 DEF Core, LifeAgrees
    <2> QED
      BY <2>1 DEF Saw
  <1>9. LifeAgrees'
    BY <1>1, <1>3, <1>4, <1>5, <1>8, TwoEnds DEF Core, LifeAgrees, Live
  <1>10. NotificationHandled'
    BY <1>1, <1>4, <1>5, <1>6, TwoEnds DEF Core, NotificationHandled, LifeAgrees
  <1>11. SendsInOrder'
    BY <1>1, <1>3, <1>4, <1>5, TwoEnds DEF Core, SendsInOrder
  <1>12. HandshakeOrder'
    BY <1>1, <1>3, <1>4, <1>5, <1>7, TwoEnds DEF Core, HandshakeOrder
  <1>13. OrderedDataKept'
    <2>1. i \notin OfKind("client", "DATA")
      BY <1>1 DEF OfKind
    <2> QED
      BY <1>1, <1>3, <1>5, <1>6, <2>1, TwoEnds DEF Core, OrderedDataKept
  <1>14. OneLife'
    BY <1>1, <1>2, <1>8, OneLifeGoesOn DEF Core
  <1> QED
    BY <1>6, <1>9, <1>10, <1>11, <1>12, <1>13, <1>14 DEF Core

(* ID_CONNECTION_REQUEST: the server queues its answer.                    *)
LEMMA RequestCore ==
    ASSUME TypeOK, Core, NEW e \in Ends, NEW i \in Arriving(Peer(e)),
           sent[Peer(e)][i].kind = "REQUEST", HandleConnectionRequest(e),
           arrived' = [arrived EXCEPT ![Peer(e)] = @ \cup {i}],
           UNCHANGED <<attempt, offline>>
    PROVE  Core'
  <1>1. /\ e = "server" /\ state[e] = "CONNECTING" /\ Queue(e, "ACCEPTED", 0)
        /\ UNCHANGED <<state, events, onAck>>
    BY DEF HandleConnectionRequest
  <1>2. \A d \in Ends : \A k \in DOMAIN sent[d] : sent'[d][k] = sent[d][k]
    <2>1. "ACCEPTED" \in Kinds /\ 0 \in Channels
      BY DEF Kinds, Channels
    <2>2. /\ \A d \in Ends : d # e => sent'[d] = sent[d]
          /\ \A k \in DOMAIN sent[e] : sent'[e][k] = sent[e][k]
      BY <1>1, <2>1, Queued
    <2> QED
      BY <2>2
  <1>3. /\ i \in DOMAIN sent[Peer(e)] /\ ChannelOrder'
        /\ arrived'[Peer(e)] = arrived[Peer(e)] \cup {i} /\ arrived'[e] = arrived[e]
        /\ \A d \in Ends : arrived[d] \subseteq DOMAIN sent[d]
    BY <1>2, Arrives DEF Core
  <1>4. \A d \in Ends : /\ arrived[d] \subseteq arrived'[d] /\ arrived'[d] \subseteq DOMAIN sent[d]
                       /\ \A k \in arrived'[d] \ arrived[d] :
                             sent[d][k].kind \notin {"DATA", "NEW_INCOMING"}
    BY <1>3, TwoEnds
  <1>5. sent["client"] # << >>
    <2>1. sent["client"] \in Seq(Message)
      BY TwoEnds DEF TypeOK
    <2> QED
      BY <1>1, <1>3, <2>1, TwoEnds
  <1>6. 0 \in Channels
    BY DEF Channels
  <1> QED
    BY <1>1, <1>3, <1>4, <1>5, <1>6, QueuedCore

(* ID_DISCONNECTION_NOTIFICATION: the end acknowledges it and goes.        *)
LEMMA DisconnectionCore ==
    ASSUME TypeOK, Core, NEW e \in Ends, NEW i \in Arriving(Peer(e)), state[e] \in Live,
           sent[Peer(e)][i].kind = "DISCONNECTION", HandleDisconnection(e),
           arrived' = [arrived EXCEPT ![Peer(e)] = @ \cup {i}],
           UNCHANGED <<attempt, offline>>
    PROVE  Core' /\ ~onAck[e]
  <1> DEFINE v == Signal("DISCONNECT")
  <1>1. /\ UNCHANGED sent /\ onAck' = [onAck EXCEPT ![e] = TRUE]
        /\ events' = [events EXCEPT ![e] = Append(@, v)]
    BY DEF HandleDisconnection, Disconnected
  <1>2. v \in Signals /\ v.signal = "DISCONNECT"
    BY DEF Signal, Signals
  <1> HIDE DEF v
  <1>3. /\ i \in DOMAIN sent[Peer(e)] /\ ChannelOrder' /\ i \notin arrived[Peer(e)]
        /\ arrived'[Peer(e)] = arrived[Peer(e)] \cup {i} /\ arrived'[e] = arrived[e]
        /\ \A d \in Ends : arrived[d] \subseteq DOMAIN sent[d]
        /\ i \in Nat
    BY <1>1, Arrives DEF Core
  <1>4. i \in OfKind(Peer(e), "DISCONNECTION")
    BY <1>3 DEF OfKind
  <1>5. ~onAck[e]
    <2> SUFFICES ASSUME onAck[e] PROVE FALSE
      OBVIOUS
    <2>1. PICK d \in arrived[Peer(e)] : d \in OfKind(Peer(e), "DISCONNECTION")
      BY DEF Core, NotificationHandled
    <2>2. d \in Nat /\ d # i /\ d \in DOMAIN sent[Peer(e)]
      BY <1>3, <2>1, TwoEnds, OfKindIn
    <2>3. sent[Peer(e)][d].kind = "DISCONNECTION"
      BY <2>1 DEF OfKind
    <2>4. d > i \/ i > d
      BY <1>3, <2>2
    <2> QED
      BY <1>3, <1>4, <2>1, <2>2, <2>3, <2>4, TwoEnds DEF Core, SendsInOrder
  <1>6. ~Saw(e, "DISCONNECT")
    BY <1>5 DEF Core, LifeAgrees
  <1>7. \A d \in Ends : (Saw(d, "CONNECT")' <=> Saw(d, "CONNECT"))
                       /\ (d # e => (Saw(d, "DISCONNECT")' <=> Saw(d, "DISCONNECT")))
    <2>1. \A d \in Ends : \A s : Saw(d, s)' <=> Saw(d, s) \/ (d = e /\ s = "DISCONNECT")
      BY <1>1, <1>2, SawSignalled, Zenon
    <2> QED
      BY <2>1
  <1>8. \A d \in Ends : HandedOver(d) \subseteq HandedOver(d)'
    BY <1>1, <1>2, HandedOverSignalled, Zenon
  <1>9. /\ \A d \in Ends : state'[d] = IF d = e THEN (IF e = "server" THEN "REMOVED" ELSE "DISCONNECTING")
                                      ELSE state[d]
        /\ onAck'[e] /\ \A d \in Ends : d # e => onAck'[d] = onAck[d]
    BY <1>1 DEF HandleDisconnection, Disconnected, TypeOK
  <1>10. \A d \in Ends : \A k : OfKind(d, k)' = OfKind(d, k)
    BY <1>1 DEF OfKind
  <1>11. \A d \in Ends : d # e => events'[d] = events[d]
    BY <1>1, <1>2, Signalled
  <1>12. LifeAgrees'
    <2> SUFFICES ASSUME NEW d \in Ends
                 PROVE  /\ state'[d] \in {"ABSENT", "CONNECTING"} => events'[d] = << >>
                        /\ state'[d] = "CONNECTED" => Saw(d, "CONNECT")'
                        /\ state'[d] \in Live /\ ~onAck'[d] => ~Saw(d, "DISCONNECT")'
                        /\ state'[d] = "DISCONNECTING" =>
                              onAck'[d] \/ OfKind(d, "DISCONNECTION")' # {}
                        /\ onAck'[d] => state'[d] \notin {"ABSENT", "CONNECTING", "CONNECTED"}
      BY DEF LifeAgrees
    <2>1. CASE d = e
      BY <1>9, <2>1
    <2>2. CASE d # e
      BY <1>7, <1>9, <1>10, <1>11, <2>2 DEF Core, LifeAgrees
    <2> QED
      BY <2>1, <2>2
  <1>13. NotificationHandled'
    <2>1. \A d \in Ends : onAck'[d] =>
              arrived'[Peer(d)] \cap OfKind(Peer(d), "DISCONNECTION")' # {}
      <3> SUFFICES ASSUME NEW d \in Ends, onAck'[d]
                   PROVE  arrived'[Peer(d)] \cap OfKind(Peer(d), "DISCONNECTION") # {}
        BY <1>10, TwoEnds
      <3>1. CASE d = e
        BY <1>3, <1>4, <3>1
      <3>2. CASE d # e
        <4>1. Peer(d) = e /\ onAck[d]
          BY <1>9, <3>2 DEF Peer, Ends
        <4> QED
          BY <1>3, <4>1 DEF Core, NotificationHandled
      <3> QED
        BY <3>1, <3>2
    <2>2. onAck'["server"] => state'["server"] = "REMOVED"
      BY <1>9, TwoEnds DEF Core, NotificationHandled
    <2> QED
      BY <2>1, <2>2 DEF NotificationHandled
  <1>14. SendsInOrder'
    BY <1>1, <1>7, <1>9, <1>10 DEF Core, SendsInOrder
  <1>15. HandshakeOrder'
    <2>1. i \notin OfKind("client", "NEW_INCOMING") \/ e = "client"
      BY TwoEnds DEF OfKind
    <2>2. arrived'["client"] \cap OfKind("client", "NEW_INCOMING")
              = arrived["client"] \cap OfKind("client", "NEW_INCOMING")
      BY <1>3, <2>1, TwoEnds
    <2>3. /\ arrived'["client"] \cap OfKind("client", "NEW_INCOMING")' # {} =>
                state'["server"] \notin {"ABSENT", "CONNECTING"}
          /\ state["server"] # "ABSENT" => state'["server"] # "ABSENT"
          /\ state'["client"] = "CONNECTING" => attempt' <= Len(Mtus)
      BY <1>9, <1>10, <2>2, TwoEnds DEF Core, HandshakeOrder
    <2> QED
      BY <1>1, <1>7, <1>10, <2>3, TwoEnds DEF Core, HandshakeOrder
  <1>16. OrderedDataKept'
    <2>1. i \notin OfKind(Peer(e), "DATA")
      BY DEF OfKind
    <2>2. \A d \in Ends : arrived'[Peer(d)] \cap OfKind(Peer(d), "DATA")
                             = arrived[Peer(d)] \cap OfKind(Peer(d), "DATA")
      <3> TAKE d \in Ends
      <3>1. CASE d = e
        BY <1>3, <2>1, <3>1
      <3>2. CASE d # e
        BY <1>3, <3>2 DEF Peer, Ends
      <3> QED
        BY <3>1, <3>2
    <2> QED
      BY <1>1, <1>8, <1>10, <2>2, TwoEnds DEF Core, OrderedDataKept
  <1>17. OneLife'
    BY <1>1, <1>2, <1>6, OneLifeGoesOn DEF Core
  <1> QED
    BY <1>3, <1>5, <1>12, <1>13, <1>14, <1>15, <1>16, <1>17 DEF Core

(* Anything else: data is for the user, if the connection is up.           *)
LEMMA UserCore ==
    ASSUME TypeOK, Core, NEW e \in Ends, NEW i \in Arriving(Peer(e)), state[e] \in Live,
           sent[Peer(e)][i].kind # "DISCONNECTION",
           ~Expected(e, sent[Peer(e)][i].kind), HandleUser(e, i),
           arrived' = [arrived EXCEPT ![Peer(e)] = @ \cup {i}],
           UNCHANGED <<attempt, offline>>
    PROVE  Core'
  <1> DEFINE v == [signal |-> "RECEIVE", msg |-> i]
  <1>1. UNCHANGED <<sent, onAck, state>>
    BY DEF HandleUser
  <1>2. /\ i \in DOMAIN sent[Peer(e)] /\ ChannelOrder' /\ i \notin arrived[Peer(e)]
        /\ arrived'[Peer(e)] = arrived[Peer(e)] \cup {i} /\ arrived'[e] = arrived[e]
        /\ i \in Nat
        /\ \A j \in 1 .. i - 1 :
              sent[Peer(e)][i].channel = 0 /\ sent[Peer(e)][j].channel = 0
                  => j \in arrived[Peer(e)]
    BY <1>1, Arrives DEF Core
  <1>3. v \in Signals /\ v.signal = "RECEIVE" /\ v.msg = i
    BY <1>2 DEF Signals
  <1>4. state[e] = "CONNECTED" => events' = [events EXCEPT ![e] = Append(@, v)]
    BY DEF HandleUser
  <1>5. state[e] # "CONNECTED" => events' = events
    BY DEF HandleUser
  <1> HIDE DEF v
  <1>6. \A d \in Ends : (Saw(d, "CONNECT")' <=> Saw(d, "CONNECT"))
                       /\ (Saw(d, "DISCONNECT")' <=> Saw(d, "DISCONNECT"))
    <2>1. CASE state[e] = "CONNECTED"
      <3>1. \A d \in Ends : \A s : Saw(d, s)' <=> Saw(d, s) \/ (d = e /\ s = "RECEIVE")
        BY <1>3, <1>4, <2>1, SawSignalled, Zenon
      <3> QED
        BY <3>1
    <2>2. CASE state[e] # "CONNECTED"
      BY <1>5, <2>2 DEF Saw
    <2> QED
      BY <2>1, <2>2
  <1>7. \A d \in Ends : HandedOver(d) \subseteq HandedOver(d)'
    <2>1. CASE state[e] = "CONNECTED"
      BY <1>3, <1>4, <2>1, HandedOverSignalled, Zenon
    <2>2. CASE state[e] # "CONNECTED"
      BY <1>5, <2>2 DEF HandedOver
    <2> QED
      BY <2>1, <2>2
  <1>8. \A d \in Ends : \A k : OfKind(d, k)' = OfKind(d, k)
    BY <1>1 DEF OfKind
  <1>9. \A d \in Ends : events[d] = events'[d] \/ (d = e /\ state[e] = "CONNECTED")
    <2>1. CASE state[e] = "CONNECTED"
      BY <1>3, <1>4, <2>1, Signalled
    <2> QED
      BY <1>5, <2>1
  <1>10. LifeAgrees'
    BY <1>1, <1>6, <1>8, <1>9 DEF Core, LifeAgrees
  <1>11. NotificationHandled'
    <2>1. \A d \in Ends : arrived[d] \subseteq arrived'[d]
      BY <1>2 DEF Ends, Peer
    <2> QED
      BY <1>1, <1>8, <2>1, TwoEnds DEF Core, NotificationHandled
  <1>12. SendsInOrder'
    BY <1>1, <1>6, <1>8 DEF Core, SendsInOrder
  <1>13. HandshakeOrder'
    <2>1. arrived'["client"] \cap OfKind("client", "NEW_INCOMING") # {} =>
              state["server"] \notin {"ABSENT", "CONNECTING"}
      <3>1. CASE e = "server" /\ i \in OfKind("client", "NEW_INCOMING")
        BY <3>1, TwoEnds DEF OfKind, Expected, Live
      <3>2. CASE ~(e = "server" /\ i \in OfKind("client", "NEW_INCOMING"))
        <4>1. arrived'["client"] \cap OfKind("client", "NEW_INCOMING")
                  = arrived["client"] \cap OfKind("client", "NEW_INCOMING")
          BY <1>2, <3>2 DEF Ends, Peer
        <4> QED
          BY <4>1 DEF Core, HandshakeOrder
      <3> QED
        BY <3>1, <3>2
    <2> QED
      BY <1>1, <1>6, <1>8, <2>1, TwoEnds DEF Core, HandshakeOrder
  <1>14. OrderedDataKept'
    <2> SUFFICES ASSUME NEW d \in Ends, NEW k \in arrived'[Peer(d)],
                        k \in OfKind(Peer(d), "DATA"), sent[Peer(d)][k].channel = 0
                 PROVE  k \in HandedOver(d)' \/ OfKind(d, "DISCONNECTION") # {}
      BY <1>1, <1>8, TwoEnds DEF OrderedDataKept
    <2>1. CASE k \in arrived[Peer(d)]
      BY <1>7, <2>1 DEF Core, OrderedDataKept
    <2>2. CASE k \notin arrived[Peer(d)]
      <3>1. d = e /\ k = i
        BY <1>2, <2>2 DEF Ends, Peer
      <3>2. CASE state[e] = "CONNECTED"
        <4>1. \A m : m = v.msg => m \in HandedOver(e)'
          BY <1>3, <1>4, <3>2, HandedOverSignalled, Zenon
        <4> QED
          BY <1>3, <3>1, <4>1
      <3>3. CASE state[e] = "CONNECTING" /\ e = "client"
        BY <3>1, <3>3, TwoEnds DEF Core, SendsInOrder, HandshakeOrder, LifeAgrees, Saw
      <3>4. CASE state[e] = "CONNECTING" /\ e = "server"
        <4>1. PICK j \in OfKind("client", "NEW_INCOMING") : j < i
          BY <3>1, <3>4, TwoEnds DEF Core, HandshakeOrder
        <4>2. j \in Nat \ {0} /\ sent["client"][j].channel = 0
          BY <4>1, OfKindIn, TwoEnds DEF Core, HandshakeOrder
        <4>3. j \in arrived["client"]
          BY <1>2, <3>1, <3>4, <4>1, <4>2, TwoEnds
        <4> QED
          BY <3>4, <4>1, <4>3 DEF Core, HandshakeOrder
      <3>5. CASE state[e] = "DISCONNECTING" /\ onAck[e]
        <4>1. PICK j \in arrived[Peer(e)] : j \in OfKind(Peer(e), "DISCONNECTION")
          BY <3>5 DEF Core, NotificationHandled
        <4>2. j \in Nat \ {0} /\ sent[Peer(e)][j].channel = 0
          BY <4>1, OfKindIn, TwoEnds DEF Core, SendsInOrder
        <4>3. ~(i > j)
          <5>1. i \in DOMAIN sent[Peer(e)] /\ sent[Peer(e)][i].kind = "DATA"
            BY <1>2, <3>1 DEF OfKind
          <5> QED
            BY <4>1, <5>1, TwoEnds DEF Core, SendsInOrder
        <4>4. i \in 1 .. j - 1
          <5>1. i # j /\ i \in Nat \ {0}
            BY <1>2, <3>1, <4>1, OfKindIn, TwoEnds
          <5> QED
            BY <4>2, <4>3, <5>1
        <4> QED
          BY <1>2, <3>1, <4>1, <4>2, <4>4, TwoEnds DEF Core, ChannelOrder
      <3>6. CASE state[e] = "DISCONNECTING" /\ ~onAck[e]
        BY <3>1, <3>6 DEF Core, LifeAgrees
      <3> QED
        BY <3>2, <3>3, <3>4, <3>5, <3>6 DEF Live, Ends
    <2> QED
      BY <2>1, <2>2
  <1>15. OneLife'
    <2>1. CASE state[e] = "CONNECTED"
      <3>1. ~Saw(e, "DISCONNECT") /\ Saw(e, "CONNECT")
        BY <2>1 DEF Core, LifeAgrees, Live
      <3> QED
        BY <1>3, <1>4, <2>1, <3>1, OneLifeGoesOn DEF Core
    <2>2. CASE state[e] # "CONNECTED"
      BY <1>5, <2>2 DEF Core, OneLife
    <2> QED
      BY <2>1, <2>2
  <1> QED
    BY <1>2, <1>10, <1>11, <1>12, <1>13, <1>14, <1>15 DEF Core

LEMMA ReceiveCore ==
    ASSUME TypeOK, Core, NEW e \in Ends, Receive(e)
    PROVE  Core'
  <1>1. PICK i \in Arriving(Peer(e)) :
          /\ state[e] \in Live
          /\ \/ sent[Peer(e)][i].kind = "REQUEST" /\ HandleConnectionRequest(e)
             \/ sent[Peer(e)][i].kind = "ACCEPTED" /\ HandleConnectionAccepted(e)
             \/ sent[Peer(e)][i].kind = "NEW_INCOMING" /\ HandleNewIncoming(e)
             \/ sent[Peer(e)][i].kind = "DISCONNECTION" /\ HandleDisconnection(e)
             \/ /\ sent[Peer(e)][i].kind # "DISCONNECTION"
                /\ ~Expected(e, sent[Peer(e)][i].kind) /\ HandleUser(e, i)
          /\ arrived' = [arrived EXCEPT ![Peer(e)] = @ \cup {i}]
          /\ UNCHANGED <<attempt, offline>>
    BY DEF Receive, Listening, handshake
  <1> QED
    BY <1>1, RequestCore, AcceptedCore, NewIncomingCore, DisconnectionCore, UserCore

----------------------------------------------------------------------------
(* Type correctness.                                                       *)

TypeControl ==
    /\ state \in [Ends -> Live \cup {"DISCONNECTED", "ABSENT", "REMOVED"}]
    /\ state["client"] \notin {"ABSENT", "REMOVED"}
    /\ state["server"] # "DISCONNECTED"
    /\ onAck \in [Ends -> BOOLEAN]
    /\ closed \in BOOLEAN /\ open \in BOOLEAN /\ loop \in BOOLEAN
    /\ caller \in {"connecting", "connected", "rejected", "timed out", "closing", "closed"}

TypeHandshake ==
    /\ mtu \in [Ends -> Sizes]
    /\ attempt \in 1 .. Len(Mtus) + 1 /\ tries \in 0 .. RetransmitCount - 1
    /\ \A p \in offline : p = Rejection \/ \E m \in Sizes :
          p \in {Request1(m), Reply1(m), Request2(m), Reply2(m)}

TypeChannel ==
    /\ sent \in [Ends -> Seq(Message)]
    /\ out \in [Ends -> Nat] /\ arrived \in [Ends -> SUBSET Nat]
    /\ acked \in [Ends -> SUBSET Nat] /\ ackDue \in [Ends -> SUBSET Nat]
    /\ \A e \in Ends :
          /\ out[e] <= Len(sent[e])
          /\ arrived[e] \subseteq 1 .. out[e] /\ acked[e] \subseteq arrived[e]
          /\ ackDue[e] \subseteq arrived[Peer(e)] \ acked[Peer(e)]

TypeEvents ==
    /\ events \in [Ends -> Seq(Signals)]
    /\ \A e \in Ends : \A i \in DOMAIN events[e] : events[e][i].msg <= Len(sent[Peer(e)])

LEMMA TypeParts ==
    /\ TypeOK <=> TypeControl /\ TypeHandshake /\ TypeChannel /\ TypeEvents
    /\ TypeOK' <=> TypeControl' /\ TypeHandshake' /\ TypeChannel' /\ TypeEvents'
  BY DEF TypeOK, TypeControl, TypeHandshake, TypeChannel, TypeEvents

(* The sizes are those of the list. *)
LEMMA SizesListed ==
    /\ Len(Mtus) \in Nat /\ Len(Mtus) > 0 /\ PathMtu \in Nat
    /\ RetransmitCount \in Nat \ {0}
    /\ \A a \in 1 .. Len(Mtus) : Mtus[a] \in Sizes
    /\ Sizes \subseteq Nat
  BY ConnectionAssumption DEF Sizes, Range

(* What TypeOK says of one end's messages and signals. *)
LEMMA EndTypes ==
    ASSUME TypeOK, NEW d \in Ends
    PROVE  /\ sent[d] \in Seq(Message) /\ Len(sent[d]) \in Nat
           /\ out[d] \in Nat /\ out[d] <= Len(sent[d])
           /\ arrived[d] \subseteq 1 .. out[d] /\ acked[d] \subseteq arrived[d]
           /\ ackDue[d] \subseteq arrived[Peer(d)] \ acked[Peer(d)]
           /\ \A i \in DOMAIN events[d] :
                 events[d][i].msg \in Nat /\ events[d][i].msg <= Len(sent[Peer(d)])
  <1>1. TypeChannel /\ TypeEvents
    BY TypeParts
  <1>2. sent[d] \in Seq(Message) /\ events[d] \in Seq(Signals)
    BY <1>1 DEF TypeChannel, TypeEvents
  <1>3. \A i \in DOMAIN events[d] : events[d][i] \in Signals
    BY <1>2
  <1>4. \A i \in DOMAIN events[d] : events[d][i].msg \in Nat
    BY <1>3 DEF Signals
  <1> QED
    BY <1>1, <1>2, <1>4 DEF TypeChannel, TypeEvents

(* What is sent only grows. *)
SentGrows == \A d \in Ends : Len(sent[d]) <= Len(sent'[d])

LEMMA QueuedGrows ==
    ASSUME TypeOK, NEW e \in Ends, NEW kind \in Kinds, NEW ch \in Channels, Queue(e, kind, ch)
    PROVE  sent' \in [Ends -> Seq(Message)] /\ SentGrows
  <1> DEFINE n == Len(sent[e]) + 1
  <1>1. /\ sent' \in [Ends -> Seq(Message)]
        /\ Len(sent'[e]) = n /\ n = Len(sent[e]) + 1
        /\ \A d \in Ends : d # e => sent'[d] = sent[d]
    BY Queued
  <1>2. \A d \in Ends : Len(sent[d]) \in Nat
    BY EndTypes
  <1> HIDE DEF n
  <1> QED
    BY <1>1, <1>2 DEF SentGrows

LEMMA SameGrows ==
    ASSUME TypeOK, UNCHANGED sent
    PROVE  sent' \in [Ends -> Seq(Message)] /\ SentGrows
  <1>1. \A d \in Ends : Len(sent[d]) \in Nat
    BY EndTypes
  <1> QED
    BY <1>1, TypeParts DEF TypeChannel, SentGrows

LEMMA ChannelGrows ==
    ASSUME TypeOK, sent' \in [Ends -> Seq(Message)], SentGrows,
           UNCHANGED <<out, arrived, ackDue, acked>>
    PROVE  TypeChannel'
  <1>0. TypeChannel
    BY TypeParts
  <1>1. \A d \in Ends : /\ Len(sent[d]) \in Nat /\ Len(sent'[d]) \in Nat
                       /\ out[d] \in Nat /\ out[d] <= Len(sent[d])
    <2> TAKE d \in Ends
    <2>1. sent'[d] \in Seq(Message)
      OBVIOUS
    <2> QED
      BY <2>1, EndTypes
  <1>2. \A d \in Ends : out[d] <= Len(sent'[d])
    BY <1>1 DEF SentGrows
  <1> QED
    BY <1>0, <1>2 DEF TypeChannel

LEMMA ChannelReceives ==
    ASSUME TypeOK, sent' \in [Ends -> Seq(Message)], SentGrows, UNCHANGED <<out, acked>>,
           NEW e \in Ends, NEW i \in Arriving(Peer(e)),
           arrived' = [arrived EXCEPT ![Peer(e)] = @ \cup {i}],
           ackDue' = [ackDue EXCEPT ![e] = @ \cup {i}]
    PROVE  TypeChannel'
  <1>0. TypeChannel
    BY TypeParts
  <1>1. \A d \in Ends : /\ Len(sent[d]) \in Nat /\ Len(sent'[d]) \in Nat
                       /\ out[d] \in Nat /\ out[d] <= Len(sent[d])
    <2> TAKE d \in Ends
    <2>1. sent'[d] \in Seq(Message)
      OBVIOUS
    <2> QED
      BY <2>1, EndTypes
  <1>2. \A d \in Ends : out[d] <= Len(sent'[d])
    BY <1>1 DEF SentGrows
  <1>3. i \in 1 .. out[Peer(e)] /\ i \notin arrived[Peer(e)] /\ i \in Nat
    BY <1>1, TwoEnds DEF Arriving
  <1>4. /\ arrived'[Peer(e)] = arrived[Peer(e)] \cup {i} /\ arrived'[e] = arrived[e]
        /\ ackDue'[e] = ackDue[e] \cup {i} /\ ackDue'[Peer(e)] = ackDue[Peer(e)]
        /\ arrived' \in [Ends -> SUBSET Nat] /\ ackDue' \in [Ends -> SUBSET Nat]
    BY <1>0, <1>3, TwoEnds DEF TypeChannel
  <1>5. \A d \in Ends : d = e \/ d = Peer(e)
    BY DEF Ends, Peer
  <1>6. \A d \in Ends : arrived'[d] \subseteq 1 .. out[d] /\ acked[d] \subseteq arrived'[d]
    BY <1>0, <1>3, <1>4, <1>5 DEF TypeChannel
  <1>7. \A d \in Ends : ackDue'[d] \subseteq arrived'[Peer(d)] \ acked[Peer(d)]
    <2>1. ackDue'[e] \subseteq arrived'[Peer(e)] \ acked[Peer(e)]
      BY <1>0, <1>3, <1>4, TwoEnds DEF TypeChannel
    <2>2. ackDue'[Peer(e)] \subseteq arrived'[e] \ acked[e]
      BY <1>0, <1>4, TwoEnds DEF TypeChannel
    <2> QED
      BY <1>5, <2>1, <2>2, TwoEnds
  <1> QED
    BY <1>0, <1>2, <1>4, <1>6, <1>7 DEF TypeChannel

LEMMA ChannelEmits ==
    ASSUME TypeOK, NEW e \in Ends, Emit(e), UNCHANGED <<sent, arrived>>
    PROVE  TypeChannel'
  <1>0. TypeChannel
    BY TypeParts
  <1>1. \A d \in Ends : Len(sent[d]) \in Nat /\ out[d] \in Nat /\ out[d] <= Len(sent[d])
    BY EndTypes
  <1>2. /\ out'[e] = Len(sent[e]) /\ out'[Peer(e)] = out[Peer(e)]
        /\ ackDue'[e] = {} /\ ackDue'[Peer(e)] = ackDue[Peer(e)]
        /\ acked'[e] = acked[e]
        /\ acked'[Peer(e)] \in {acked[Peer(e)], acked[Peer(e)] \cup ackDue[e]}
    BY <1>0, TwoEnds DEF Emit, TypeChannel
  <1>3. /\ out' \in [Ends -> Nat] /\ ackDue' \in [Ends -> SUBSET Nat]
        /\ acked' \in [Ends -> SUBSET Nat]
    BY <1>0, <1>1, TwoEnds DEF Emit, TypeChannel
  <1>4. \A d \in Ends : d = e \/ d = Peer(e)
    BY DEF Ends, Peer
  <1>5. \A d \in Ends : out'[d] <= Len(sent[d]) /\ out[d] <= out'[d]
    BY <1>1, <1>2, <1>4
  <1>6. \A d \in Ends : arrived[d] \subseteq 1 .. out'[d]
    <2> TAKE d \in Ends
    <2>1. out'[d] \in Nat /\ arrived[d] \subseteq 1 .. out[d]
      BY <1>3, EndTypes
    <2> QED
      BY <1>1, <1>5, <2>1
  <1>7. \A d \in Ends : acked'[d] \subseteq arrived[d]
    <2>1. /\ acked[e] \subseteq arrived[e] /\ acked[Peer(e)] \subseteq arrived[Peer(e)]
          /\ ackDue[e] \subseteq arrived[Peer(e)]
      BY TwoEnds, EndTypes
    <2> QED
      BY <1>2, <1>4, <2>1
  <1>8. \A d \in Ends : ackDue'[d] \subseteq arrived[Peer(d)] \ acked'[Peer(d)]
    <2>1. ackDue'[Peer(e)] \subseteq arrived[e] \ acked'[e]
      BY <1>0, <1>2, TwoEnds DEF TypeChannel
    <2> QED
      BY <1>2, <1>4, <2>1, TwoEnds
  <1> QED
    BY <1>0, <1>3, <1>5, <1>6, <1>7, <1>8 DEF TypeChannel

LEMMA EventsKept ==
    ASSUME TypeOK, sent' \in [Ends -> Seq(Message)], SentGrows, UNCHANGED events
    PROVE  TypeEvents'
  <1>1. \A d \in Ends : /\ Len(sent[d]) \in Nat /\ Len(sent'[d]) \in Nat
                       /\ Len(sent[d]) <= Len(sent'[d])
    <2> TAKE d \in Ends
    <2>1. sent'[d] \in Seq(Message)
      OBVIOUS
    <2> QED
      BY <2>1, EndTypes DEF SentGrows
  <1>2. \A d \in Ends : \A i \in DOMAIN events[d] :
            events[d][i].msg \in Nat /\ events[d][i].msg <= Len(sent[Peer(d)])
    BY EndTypes
  <1>3. \A d \in Ends : \A i \in DOMAIN events[d] : events[d][i].msg <= Len(sent'[Peer(d)])
    BY <1>1, <1>2, TwoEnds
  <1> QED
    BY <1>3, TypeParts DEF TypeEvents

LEMMA EventsSignalled ==
    ASSUME TypeOK, sent' \in [Ends -> Seq(Message)], SentGrows,
           NEW e \in Ends, NEW v \in Signals, v.msg <= Len(sent[Peer(e)]),
           events' = [events EXCEPT ![e] = Append(@, v)]
    PROVE  TypeEvents'
  <1> DEFINE n == Len(events[e]) + 1
  <1>1. /\ events' \in [Ends -> Seq(Signals)]
        /\ DOMAIN events'[e] = DOMAIN events[e] \cup {n}
        /\ \A k \in DOMAIN events[e] : events'[e][k] = events[e][k]
        /\ events'[e][n] = v
        /\ \A d \in Ends : d # e => events'[d] = events[d]
    BY Signalled
  <1> HIDE DEF n
  <1>2. \A d \in Ends : /\ Len(sent[d]) \in Nat /\ Len(sent'[d]) \in Nat
                       /\ Len(sent[d]) <= Len(sent'[d])
    <2> TAKE d \in Ends
    <2>1. sent'[d] \in Seq(Message)
      OBVIOUS
    <2> QED
      BY <2>1, EndTypes DEF SentGrows
  <1>3. \A d \in Ends : \A i \in DOMAIN events'[d] :
            events'[d][i].msg \in Nat /\ events'[d][i].msg <= Len(sent[Peer(d)])
    <2> TAKE d \in Ends
    <2>1. events'[d] \in Seq(Signals)
      BY <1>1
    <2> TAKE i \in DOMAIN events'[d]
    <2>2. events'[d][i] \in Signals
      BY <2>1
    <2>3. CASE d # e \/ i # n
      BY <1>1, <2>3, EndTypes
    <2>4. CASE d = e /\ i = n
      BY <1>1, <2>2, <2>4 DEF Signals
    <2> QED
      BY <2>3, <2>4
  <1>4. \A d \in Ends : \A i \in DOMAIN events'[d] : events'[d][i].msg <= Len(sent'[Peer(d)])
    BY <1>2, <1>3, TwoEnds
  <1> QED
    BY <1>1, <1>4 DEF TypeEvents

(* What a DISCONNECT signal does to the types. *)
LEMMA DisconnectedType ==
    ASSUME TypeOK, NEW e \in Ends, NEW s \in {"DISCONNECTED", "DISCONNECTING"}, Disconnected(e, s),
           UNCHANGED sent
    PROVE  /\ state' \in [Ends -> Live \cup {"DISCONNECTED", "ABSENT", "REMOVED"}]
           /\ state'["client"] \notin {"ABSENT", "REMOVED"}
           /\ state'["server"] # "DISCONNECTED"
           /\ closed' \in BOOLEAN /\ TypeEvents'
  <1>1. state' = [state EXCEPT ![e] = IF e = "server" THEN "REMOVED" ELSE s]
    BY DEF Disconnected
  <1>2. /\ state' \in [Ends -> Live \cup {"DISCONNECTED", "ABSENT", "REMOVED"}]
        /\ state'["client"] \notin {"ABSENT", "REMOVED"}
        /\ state'["server"] # "DISCONNECTED"
    BY <1>1, TwoEnds DEF TypeOK, Live
  <1>3. closed' \in BOOLEAN
    BY TypeParts DEF Disconnected, TypeControl
  <1>4. TypeEvents'
    <2> DEFINE v == Signal("DISCONNECT")
    <2>1. v \in Signals /\ v.msg = 0
      BY DEF Signal, Signals
    <2>2. events' = [events EXCEPT ![e] = Append(@, v)]
      BY DEF Disconnected
    <2> HIDE DEF v
    <2>3. v.msg <= Len(sent[Peer(e)])
      <3>1. Len(sent[Peer(e)]) \in Nat
        BY TwoEnds, EndTypes
      <3> QED
        BY <2>1, <3>1
    <2> QED
      BY <2>1, <2>2, <2>3, SameGrows, EventsSignalled
  <1> QED
    BY <1>2, <1>3, <1>4

LEMMA QuietType ==
    ASSUME TypeOK
    PROVE  /\ UNCHANGED <<state, onAck, closed, task, caller>> => TypeControl'
           /\ UNCHANGED handshake => TypeHandshake'
           /\ UNCHANGED channel => TypeChannel'
           /\ UNCHANGED <<sent, events>> => TypeEvents'
  <1>1. UNCHANGED <<state, onAck, closed, task, caller>> => TypeControl'
    BY TypeParts DEF TypeControl, task
  <1>2. UNCHANGED handshake => TypeHandshake'
    BY TypeParts DEF TypeHandshake, handshake
  <1>3. UNCHANGED channel => TypeChannel'
    BY TypeParts DEF TypeChannel, channel
  <1>4. UNCHANGED <<sent, events>> => TypeEvents'
    BY TypeParts DEF TypeEvents
  <1> QED
    BY <1>1, <1>2, <1>3, <1>4

LEMMA RetransmitType ==
    ASSUME TypeOK, Core, Retransmit
    PROVE  TypeOK'
  <1> DEFINE a == IF tries + 1 >= RetransmitCount THEN attempt + 1 ELSE attempt
  <1>1. /\ state["client"] = "CONNECTING" /\ attempt' = a
        /\ tries' = IF a = attempt THEN tries + 1 ELSE 0
        /\ \/ /\ a <= Len(Mtus)
              /\ offline' = offline \cup {Request1(Mtus[a])}
              /\ Emit("client")
              /\ UNCHANGED <<state, events, closed>>
           \/ /\ Disconnected("client", "DISCONNECTED")
              /\ UNCHANGED <<offline, out, ackDue, acked>>
        /\ UNCHANGED <<mtu, sent, arrived, onAck, task, caller>>
    BY DEF Retransmit
  <1>2. attempt \in Nat /\ attempt > 0 /\ attempt <= Len(Mtus) /\ tries \in 0 .. RetransmitCount - 1
    BY <1>1, TypeParts, SizesListed DEF Core, HandshakeOrder, TypeHandshake
  <1>3. a \in 1 .. Len(Mtus) + 1 /\ tries' \in 0 .. RetransmitCount - 1
    BY <1>1, <1>2, SizesListed
  <1> HIDE DEF a
  <1>4. TypeHandshake'
    <2>1. \A p \in offline' : p = Rejection \/ \E m \in Sizes :
            p \in {Request1(m), Reply1(m), Request2(m), Reply2(m)}
      <3>1. a <= Len(Mtus) => Mtus[a] \in Sizes
        BY <1>3, SizesListed
      <3>2. \/ offline' = offline \cup {Request1(Mtus[a])} /\ a <= Len(Mtus)
            \/ offline' = offline
        BY <1>1
      <3> QED
        BY <3>1, <3>2, TypeParts DEF TypeHandshake
    <2> QED
      BY <1>1, <1>3, <2>1, TypeParts DEF TypeHandshake
  <1>5. CASE Emit("client") /\ UNCHANGED <<state, events, closed>>
    BY <1>1, <1>4, <1>5, QuietType, ChannelEmits, TwoEnds, TypeParts
  <1>6. CASE Disconnected("client", "DISCONNECTED") /\ UNCHANGED <<out, ackDue, acked>>
    <2>1. TypeControl' /\ TypeEvents'
      BY <1>1, <1>6, DisconnectedType, TwoEnds, TypeParts DEF TypeControl, task
    <2>2. TypeChannel'
      BY <1>1, <1>6, QuietType DEF channel
    <2> QED
      BY <1>4, <2>1, <2>2, TypeParts
  <1> QED
    BY <1>1, <1>5, <1>6

LEMMA FlushType ==
    ASSUME TypeOK, Core, NEW e \in Ends, Flush(e)
    PROVE  TypeOK'
  <1>1. TypeHandshake' /\ TypeChannel'
    BY QuietType, ChannelEmits DEF Flush
  <1>2. TypeControl' /\ TypeEvents'
    <2>1. CASE /\ state[e] = "DISCONNECTING" /\ onAck[e]
               /\ state' = [state EXCEPT ![e] = "DISCONNECTED"] /\ UNCHANGED <<events, closed>>
      <3>1. e = "client"
        BY <2>1, TwoEnds DEF Core, NotificationHandled
      <3>2. TypeControl'
        BY <2>1, <3>1, TypeParts DEF TypeControl, Flush, Ends, task
      <3> QED
        BY <2>1, <3>2, QuietType DEF Flush
    <2>2. CASE Disconnected(e, "DISCONNECTED")
      BY <2>2, DisconnectedType, TypeParts DEF TypeControl, Flush, task
    <2>3. CASE UNCHANGED <<state, events, closed>>
      BY <2>3, QuietType DEF Flush
    <2> QED
      BY <2>1, <2>2, <2>3 DEF Flush
  <1> QED
    BY <1>1, <1>2, TypeParts

LEMMA ReceiveType ==
    ASSUME TypeOK, NEW e \in Ends, Receive(e)
    PROVE  TypeOK'
  <1>1. PICK i \in Arriving(Peer(e)) :
          /\ \/ HandleConnectionRequest(e)
             \/ HandleConnectionAccepted(e)
             \/ HandleNewIncoming(e)
             \/ HandleDisconnection(e)
             \/ HandleUser(e, i)
          /\ arrived' = [arrived EXCEPT ![Peer(e)] = @ \cup {i}]
          /\ ackDue' = [ackDue EXCEPT ![e] = @ \cup {i}]
          /\ UNCHANGED <<handshake, out, acked, task>>
    BY DEF Receive, Listening
  <1>2. TypeHandshake'
    BY <1>1, QuietType
  <1>3. i \in Nat /\ i <= Len(sent[Peer(e)])
    <2>1. i \in 1 .. out[Peer(e)]
      BY DEF Arriving
    <2> QED
      BY <2>1, EndTypes, TwoEnds
  <1>4. SUFFICES /\ sent' \in [Ends -> Seq(Message)] /\ SentGrows
                 /\ TypeControl' /\ TypeEvents'
    BY <1>1, <1>2, ChannelReceives, TypeParts
  <1>5. Signal("CONNECT") \in Signals /\ Signal("CONNECT").msg <= Len(sent[Peer(e)])
    BY EndTypes, TwoEnds DEF Signal, Signals
  <1>6. CASE HandleConnectionRequest(e)
    <2>1. "ACCEPTED" \in Kinds /\ 0 \in Channels
      BY DEF Kinds, Channels
    <2>2. sent' \in [Ends -> Seq(Message)] /\ SentGrows
      BY <1>6, <2>1, QueuedGrows DEF HandleConnectionRequest
    <2>3. TypeEvents'
      BY <1>6, <2>2, EventsKept DEF HandleConnectionRequest
    <2>4. TypeControl'
      BY <1>1, <1>6, QuietType DEF HandleConnectionRequest
    <2> QED
      BY <2>2, <2>3, <2>4
  <1>7. CASE HandleConnectionAccepted(e)
    <2>1. "NEW_INCOMING" \in Kinds /\ 0 \in Channels
      BY DEF Kinds, Channels
    <2>2. sent' \in [Ends -> Seq(Message)] /\ SentGrows
      BY <1>7, <2>1, QueuedGrows DEF HandleConnectionAccepted
    <2>3. TypeEvents'
      BY <1>5, <1>7, <2>2, EventsSignalled DEF HandleConnectionAccepted
    <2>4. TypeControl'
      BY <1>1, <1>7, TypeParts DEF TypeControl, HandleConnectionAccepted, Wake, task, Live, Ends
    <2> QED
      BY <2>2, <2>3, <2>4
  <1>8. CASE HandleNewIncoming(e)
    <2>1. sent' \in [Ends -> Seq(Message)] /\ SentGrows
      BY <1>8, SameGrows DEF HandleNewIncoming
    <2>2. TypeEvents'
      BY <1>5, <1>8, <2>1, EventsSignalled DEF HandleNewIncoming
    <2>3. TypeControl'
      BY <1>1, <1>8, TypeParts DEF TypeControl, HandleNewIncoming, task, Live, Ends
    <2> QED
      BY <2>1, <2>2, <2>3
  <1>9. CASE HandleDisconnection(e)
    <2>1. /\ UNCHANGED sent /\ Disconnected(e, "DISCONNECTING")
          /\ onAck' = [onAck EXCEPT ![e] = TRUE] /\ Wake(e, "rejected")
      BY <1>9 DEF HandleDisconnection
    <2>2. TypeEvents' /\ TypeControl'
      BY <1>1, <2>1, DisconnectedType, TypeParts DEF TypeControl, Wake, task
    <2> QED
      BY <2>1, <2>2, SameGrows
  <1>10. CASE HandleUser(e, i)
    <2>1. sent' \in [Ends -> Seq(Message)] /\ SentGrows
      BY <1>10, SameGrows DEF HandleUser
    <2>2. TypeControl'
      BY <1>1, <1>10, QuietType DEF HandleUser
    <2>3. TypeEvents'
      <3> DEFINE v == [signal |-> "RECEIVE", msg |-> i]
      <3>1. v \in Signals /\ v.msg = i
        BY <1>3 DEF Signals
      <3>2. events' = events \/ events' = [events EXCEPT ![e] = Append(@, v)]
        BY <1>10 DEF HandleUser
      <3> HIDE DEF v
      <3> QED
        BY <1>3, <2>1, <3>1, <3>2, EventsKept, EventsSignalled
    <2> QED
      BY <2>1, <2>2, <2>3
  <1> QED
    BY <1>1, <1>6, <1>7, <1>8, <1>9, <1>10

(* An offline message is sent, and a size may be taken from it. *)
LEMMA OfflineType ==
    ASSUME TypeOK, NEW m \in Sizes,
           NEW p, p \in {Request1(m), Reply1(m), Request2(m), Reply2(m), Rejection},
           offline' = offline \cup {p} \/ offline' = offline,
           NEW e \in Ends, mtu' = [mtu EXCEPT ![e] = m] \/ mtu' = mtu,
           UNCHANGED <<attempt, tries>>
    PROVE  TypeHandshake'
  <1>1. mtu' \in [Ends -> Sizes]
    BY TypeParts DEF TypeHandshake
  <1>2. \A q \in offline' : q = Rejection \/ \E k \in Sizes :
            q \in {Request1(k), Reply1(k), Request2(k), Reply2(k)}
    BY TypeParts DEF TypeHandshake
  <1> QED
    BY <1>1, <1>2, TypeParts DEF TypeHandshake

LEMMA TypeStep ==
    ASSUME TypeOK, Core, [Next]_vars
    PROVE  TypeOK'
  <1>0. CASE UNCHANGED vars
    BY <1>0, QuietType, TypeParts DEF vars, channel
  <1>1. CASE Retransmit
    BY <1>1, RetransmitType
  <1>2. ASSUME NEW e \in Ends, TimeOut(e) PROVE TypeOK'
    <2>1. TypeControl' /\ TypeEvents'
      BY <1>2, DisconnectedType, TypeParts DEF TimeOut, TypeControl, channel, task
    <2>2. TypeHandshake' /\ TypeChannel'
      BY <1>2, QuietType DEF TimeOut
    <2> QED
      BY <2>1, <2>2, TypeParts
  <1>3. ASSUME NEW e \in Ends, Flush(e) PROVE TypeOK'
    BY <1>3, FlushType
  <1>4. ASSUME NEW e \in Ends, Receive(e) PROVE TypeOK'
    BY <1>4, ReceiveType
  <1>5. ASSUME NEW e \in Ends, SendData(e) PROVE TypeOK'
    <2>1. PICK ch \in DataChannels[e] : Queue(e, "DATA", ch)
      BY <1>5 DEF SendData
    <2>2. "DATA" \in Kinds /\ ch \in Channels
      BY ConnectionAssumption DEF Kinds, Channels, Range
    <2>3. sent' \in [Ends -> Seq(Message)] /\ SentGrows
      BY <2>1, <2>2, QueuedGrows
    <2>4. TypeChannel' /\ TypeEvents'
      BY <1>5, <2>3, ChannelGrows, EventsKept DEF SendData
    <2>5. TypeControl' /\ TypeHandshake'
      BY <1>5, QuietType DEF SendData
    <2> QED
      BY <2>4, <2>5, TypeParts
  <1>6. CASE HandleRequest1 \/ HandleReply1 \/ Refuse
    <2>1. TypeControl' /\ TypeChannel' /\ TypeEvents'
      BY <1>6, QuietType DEF HandleRequest1, HandleReply1, Refuse, channel
    <2>2. TypeHandshake'
      BY <1>6, OfflineType DEF HandleRequest1, HandleReply1, Refuse, Sizes, Ends
    <2> QED
      BY <2>1, <2>2, TypeParts
  <1>7. CASE HandleRequest2
    <2>1. TypeChannel' /\ TypeEvents'
      BY <1>7, QuietType DEF HandleRequest2, channel
    <2>2. TypeHandshake'
      BY <1>7, OfflineType DEF HandleRequest2, Sizes, Ends
    <2>3. TypeControl'
      <3>1. /\ state' = [state EXCEPT !["server"] = "CONNECTING"]
            /\ UNCHANGED <<onAck, closed, open, loop, caller>>
        BY <1>7 DEF HandleRequest2, task
      <3>2. TypeControl
        BY TypeParts
      <3> QED
        BY <3>1, <3>2 DEF TypeControl, Live, Ends
    <2> QED
      BY <2>1, <2>2, <2>3, TypeParts
  <1>8. CASE HandleReply2
    <2>1. Queue("client", "REQUEST", Unordered)
      BY <1>8 DEF HandleReply2
    <2>2. "REQUEST" \in Kinds /\ Unordered \in Channels /\ "client" \in Ends
      BY DEF Kinds, Channels, Ends
    <2>3. sent' \in [Ends -> Seq(Message)] /\ SentGrows
      BY <2>1, <2>2, QueuedGrows
    <2>4. TypeChannel' /\ TypeEvents'
      BY <1>8, <2>3, ChannelGrows, EventsKept DEF HandleReply2
    <2>5. TypeControl'
      BY <1>8, QuietType DEF HandleReply2
    <2>6. TypeHandshake'
      BY <1>8, OfflineType DEF HandleReply2, Sizes, Ends
    <2> QED
      BY <2>4, <2>5, <2>6, TypeParts
  <1>9. CASE HandleRejection
    <2>1. TypeControl' /\ TypeEvents'
      BY <1>9, DisconnectedType, TwoEnds, TypeParts
         DEF HandleRejection, TypeControl, Wake, channel, task
    <2>2. TypeHandshake' /\ TypeChannel'
      BY <1>9, QuietType DEF HandleRejection
    <2> QED
      BY <2>1, <2>2, TypeParts
  <1>10. ASSUME NEW e \in Ends, Disconnect(e), UNCHANGED <<out, arrived, ackDue, acked, events>>
         PROVE  /\ TypeChannel' /\ TypeEvents'
                /\ state' \in [Ends -> Live \cup {"DISCONNECTED", "ABSENT", "REMOVED"}]
                /\ state'["client"] \notin {"ABSENT", "REMOVED"}
                /\ state'["server"] # "DISCONNECTED"
    <2>1. "DISCONNECTION" \in Kinds /\ 0 \in Channels
      BY DEF Kinds, Channels
    <2>2. sent' \in [Ends -> Seq(Message)] /\ SentGrows
      BY <1>10, <2>1, QueuedGrows DEF Disconnect
    <2>3. state' = [state EXCEPT ![e] = "DISCONNECTING"]
      BY <1>10 DEF Disconnect
    <2> QED
      BY <1>10, <2>2, <2>3, ChannelGrows, EventsKept, TypeParts DEF TypeControl, Live, Ends
  <1>11. CASE ServerDisconnect
    <2>1. TypeChannel' /\ TypeEvents' /\ TypeControl'
      BY <1>10, <1>11, TypeParts DEF ServerDisconnect, TypeControl, Ends, task
    <2> QED
      BY <1>11, <2>1, QuietType, TypeParts DEF ServerDisconnect
  <1>12. CASE ClientClose
    <2>1. TypeHandshake'
      BY <1>12, QuietType DEF ClientClose
    <2>2. caller' \in {"closing", "closed"} /\ closed' \in BOOLEAN
      BY <1>12, TypeParts DEF ClientClose, TypeControl
    <2>3. CASE Disconnect("client")
      BY <1>10, <1>12, <2>1, <2>2, <2>3, TypeParts DEF ClientClose, TypeControl, Ends, task
    <2>4. CASE UNCHANGED <<state, sent>>
      <3>1. TypeChannel' /\ TypeEvents'
        BY <1>12, <2>4, QuietType DEF ClientClose, channel
      <3>2. TypeControl'
        BY <1>12, <2>2, <2>4, TypeParts DEF ClientClose, TypeControl, task
      <3> QED
        BY <2>1, <3>1, <3>2, TypeParts
    <2> QED
      BY <1>12, <2>3, <2>4 DEF ClientClose
  <1>13. CASE ConnectTimesOut \/ ClientCloseEnds \/ ClientLeave \/ LoopEnds
    <2>1. TypeControl'
      BY <1>13, TypeParts DEF ConnectTimesOut, ClientCloseEnds, ClientLeave, LoopEnds, TypeControl, task
    <2>2. TypeHandshake' /\ TypeChannel' /\ TypeEvents'
      BY <1>13, QuietType DEF ConnectTimesOut, ClientCloseEnds, ClientLeave, LoopEnds, channel
    <2> QED
      BY <2>1, <2>2, TypeParts
  <1> QED
    BY <1>0, <1>1, <1>2, <1>3, <1>4, <1>5, <1>6, <1>7, <1>8, <1>9, <1>11, <1>12, <1>13 DEF Next

----------------------------------------------------------------------------
(* The parts of the inductive invariant, step by step.                     *)

LEMMA DisconnectedState ==
    ASSUME TypeOK, NEW e \in Ends, NEW s, Disconnected(e, s)
    PROVE  /\ \A d \in Ends : state'[d] = IF d = e THEN (IF e = "server" THEN "REMOVED" ELSE s)
                                                ELSE state[d]
           /\ \A d \in Ends : Saw(d, "CONNECT")' <=> Saw(d, "CONNECT")
           /\ \A d \in Ends : Saw(d, "DISCONNECT")' <=> Saw(d, "DISCONNECT") \/ d = e
           /\ closed' => closed \/ e = "client"
  <1> DEFINE v == Signal("DISCONNECT")
  <1>1. v \in Signals /\ v.signal = "DISCONNECT"
    BY DEF Signal, Signals
  <1>2. events' = [events EXCEPT ![e] = Append(@, v)]
    BY DEF Disconnected
  <1> HIDE DEF v
  <1>3. \A d \in Ends : \A t : Saw(d, t)' <=> Saw(d, t) \/ (d = e /\ t = "DISCONNECT")
    BY <1>1, <1>2, SawSignalled, Zenon
  <1>4. \A d \in Ends : Saw(d, "CONNECT")' <=> Saw(d, "CONNECT")
    BY <1>3
  <1>5. \A d \in Ends : Saw(d, "DISCONNECT")' <=> Saw(d, "DISCONNECT") \/ d = e
    BY <1>3
  <1>6. \A d \in Ends : state'[d] = IF d = e THEN (IF e = "server" THEN "REMOVED" ELSE s) ELSE state[d]
    BY TypeParts DEF Disconnected, TypeControl
  <1>7. closed' => closed \/ e = "client"
    BY DEF Disconnected
  <1> QED
    BY <1>4, <1>5, <1>6, <1>7

(* Both ends have sent something when one of them is connected. *)
LEMMA ConnectedSent ==
    ASSUME Core, NEW e \in Ends, state[e] = "CONNECTED"
    PROVE  sent["client"] # << >> /\ sent["server"] # << >>
  <1>1. Saw("client", "CONNECT")
    BY DEF Core, LifeAgrees, HandshakeOrder, Ends
  <1> QED
    BY <1>1 DEF Core, HandshakeOrder

LEMMA CoreStep ==
    ASSUME TypeOK, Core, [Next]_vars
    PROVE  Core'
  <1>0. CASE UNCHANGED vars
    BY <1>0, QuietCore DEF vars, handshake, channel, Core, HandshakeOrder
  <1>1. CASE Retransmit
    <2>1. CASE attempt' <= Len(Mtus) /\ UNCHANGED <<state, events>>
      BY <1>1, <2>1, QuietCore DEF Retransmit
    <2>2. CASE Disconnected("client", "DISCONNECTED")
      <3>1. state["client"] \in Live /\ ~onAck["client"]
        BY <1>1 DEF Retransmit, Live, Core, LifeAgrees, Ends
      <3>2. state'["client"] = "DISCONNECTED"
        BY <2>2, DisconnectedState, TwoEnds
      <3> QED
        BY <1>1, <2>2, <3>1, <3>2, EndedCore, TwoEnds DEF Retransmit
    <2> QED
      BY <1>1, <2>1, <2>2 DEF Retransmit
  <1>2. ASSUME NEW e \in Ends, state[e] \in Live, ~onAck[e], Disconnected(e, "DISCONNECTED"),
               UNCHANGED <<sent, arrived, onAck, offline, attempt>>
        PROVE  Core'
    <2>1. state'["client"] = "CONNECTING" => attempt' <= Len(Mtus)
      BY <1>2, DisconnectedState, TwoEnds DEF Core, HandshakeOrder
    <2> QED
      BY <1>2, <2>1, EndedCore
  <1>3. ASSUME NEW e \in Ends, TimeOut(e) PROVE Core'
    BY <1>2, <1>3 DEF TimeOut, handshake, channel
  <1>4. ASSUME NEW e \in Ends, Flush(e) PROVE Core'
    <2>1. UNCHANGED <<attempt, offline, sent, arrived, onAck>>
      BY <1>4 DEF Flush, handshake
    <2>2. CASE /\ state[e] = "DISCONNECTING" /\ ~onAck[e]
               /\ Disconnected(e, "DISCONNECTED")
      BY <1>2, <2>1, <2>2 DEF Live
    <2>3. CASE UNCHANGED <<state, events>>
      <3>1. state'["client"] = "CONNECTING" => attempt' <= Len(Mtus)
        BY <2>1, <2>3 DEF Core, HandshakeOrder
      <3>2. UNCHANGED <<state, sent, events, arrived, onAck>> /\ offline' = offline
        BY <2>1, <2>3
      <3> QED
        BY <3>1, <3>2, QuietCore
    <2>4. CASE /\ state[e] = "DISCONNECTING" /\ onAck[e]
               /\ state' = [state EXCEPT ![e] = "DISCONNECTED"] /\ UNCHANGED events
      BY <2>1, <2>4, AckSentCore
    <2> QED
      BY <1>4, <2>2, <2>3, <2>4 DEF Flush
  <1>5. ASSUME NEW e \in Ends, Receive(e) PROVE Core'
    BY <1>5, ReceiveCore
  <1>6. ASSUME NEW e \in Ends, NEW kind \in {"REQUEST", "DATA"}, NEW ch \in Channels,
               Queue(e, kind, ch), kind = "DATA" => state[e] = "CONNECTED",
               kind = "REQUEST" => e = "client",
               UNCHANGED <<state, events, arrived, onAck, offline, attempt>>
        PROVE  Core'
    <2>1. kind \in Kinds
      BY DEF Kinds
    <2>2. \A d \in Ends : \A k \in DOMAIN sent[d] : sent'[d][k] = sent[d][k]
      <3>1. /\ \A d \in Ends : d # e => sent'[d] = sent[d]
            /\ \A k \in DOMAIN sent[e] : sent'[e][k] = sent[e][k]
        BY <1>6, <2>1, Queued
      <3> QED
        BY <3>1
    <2>3. ChannelOrder'
      BY <1>6, <2>2, ChannelOrderKept DEF Core
    <2>4. \A d \in Ends : arrived[d] \subseteq arrived'[d] /\ arrived'[d] \subseteq DOMAIN sent[d]
      <3> TAKE d \in Ends
      <3>1. /\ sent[d] \in Seq(Message) /\ out[d] \in Nat /\ out[d] <= Len(sent[d])
            /\ arrived[d] \subseteq 1 .. out[d]
        BY EndTypes
      <3> QED
        BY <1>6, <3>1
    <2>5. e = "server" => state[e] # "ABSENT" /\ sent["client"] # << >>
      BY <1>6, ConnectedSent
    <2> QED
      BY <1>6, <2>3, <2>4, <2>5, QueuedCore
  <1>7. ASSUME NEW e \in Ends, SendData(e) PROVE Core'
    <2>1. PICK ch \in DataChannels[e] : Queue(e, "DATA", ch)
      BY <1>7 DEF SendData
    <2>2. ch \in Channels
      BY ConnectionAssumption DEF Channels, Range
    <2> QED
      BY <1>6, <1>7, <2>1, <2>2 DEF SendData, handshake
  <1>8. CASE HandleRequest1 \/ HandleReply1 \/ Refuse
    <2>1. UNCHANGED <<state, sent, events, arrived, onAck, attempt>> /\ offline \subseteq offline'
      BY <1>8 DEF HandleRequest1, HandleReply1, Refuse, channel
    <2> QED
      BY <2>1, QuietCore DEF Core, HandshakeOrder
  <1>9. CASE HandleRequest2
    BY <1>9, CreatedCore
  <1>10. CASE HandleReply2
    <2>1. Unordered \in Channels /\ "client" \in Ends
      BY DEF Channels, Ends
    <2> QED
      BY <1>6, <1>10, <2>1 DEF HandleReply2
  <1>11. CASE HandleRejection
    <2>1. state'["client"] = "DISCONNECTED"
      BY <1>11, DisconnectedState, TwoEnds DEF HandleRejection
    <2> QED
      BY <1>11, <2>1, EndedCore, TwoEnds DEF HandleRejection, handshake, channel
  <1>12. CASE ServerDisconnect
    BY <1>12, DisconnectCore, TwoEnds DEF ServerDisconnect, handshake
  <1>13. CASE ClientClose
    <2>1. CASE Disconnect("client")
      BY <1>13, <2>1, DisconnectCore, TwoEnds DEF ClientClose, handshake
    <2>2. CASE UNCHANGED <<state, sent>>
      BY <1>13, <2>2, QuietCore DEF ClientClose, handshake, Core, HandshakeOrder
    <2> QED
      BY <1>13, <2>1, <2>2 DEF ClientClose
  <1>14. CASE ConnectTimesOut \/ ClientCloseEnds \/ ClientLeave \/ LoopEnds
    <2>1. UNCHANGED <<state, sent, events, arrived, onAck, attempt, offline>>
      BY <1>14 DEF ConnectTimesOut, ClientCloseEnds, ClientLeave, LoopEnds, handshake, channel
    <2> QED
      BY <2>1, QuietCore DEF Core, HandshakeOrder
  <1> QED
    BY <1>0, <1>1, <1>3, <1>4, <1>5, <1>7, <1>8, <1>9, <1>10, <1>11, <1>12, <1>13, <1>14 DEF Next

(* The path still carries the sizes, unless a size is taken or answered. *)
LEMMA SizesKept ==
    ASSUME SizesFit, UNCHANGED <<offline, mtu>>,
           state'["server"] # "ABSENT" => state["server"] # "ABSENT",
           sent'["client"] # << >> => sent["client"] # << >>
    PROVE  SizesFit'
  BY DEF SizesFit

(* A message that is queued leaves the other end's as they are. *)
LEMMA QueuedOther ==
    ASSUME TypeOK, NEW e \in Ends, NEW kind, NEW ch, Queue(e, kind, ch)
    PROVE  \A d \in Ends : d # e => sent'[d] = sent[d]
  BY TypeParts DEF Queue, TypeChannel

LEMMA SizesStep ==
    ASSUME TypeOK, Core, SizesFit, [Next]_vars
    PROVE  SizesFit'
  <1>0. CASE UNCHANGED vars
    BY <1>0, SizesKept DEF vars, handshake, channel
  <1>1. ASSUME NEW e \in Ends, NEW s, Disconnected(e, s), e = "server" => state[e] # "ABSENT"
        PROVE  state'["server"] # "ABSENT" => state["server"] # "ABSENT"
    BY <1>1, DisconnectedState, TwoEnds
  <1>2. CASE Retransmit
    <2>1. state'["server"] = state["server"] /\ UNCHANGED <<mtu, sent>>
      BY <1>2, DisconnectedState, TwoEnds DEF Retransmit
    <2>2. offline' = offline \/ \E m \in Nat : offline' = offline \cup {Request1(m)}
      <3>1. attempt' \in Nat /\ attempt' > 0
        BY <1>2, TypeStep, TypeParts DEF TypeHandshake, Next
      <3>2. ASSUME attempt' <= Len(Mtus) PROVE Mtus[attempt'] \in Nat
        <4>1. attempt' \in 1 .. Len(Mtus)
          BY <3>1, <3>2, SizesListed
        <4> QED
          BY <4>1, SizesListed
      <3> QED
        BY <1>2, <3>2 DEF Retransmit
    <2> QED
      BY <2>1, <2>2 DEF SizesFit, Request1, Reply1, Request2, Reply2
  <1>3. ASSUME NEW e \in Ends, TimeOut(e) PROVE SizesFit'
    BY <1>1, <1>3, SizesKept DEF TimeOut, Live, handshake, channel
  <1>4. ASSUME NEW e \in Ends, Flush(e) PROVE SizesFit'
    <2>1. state[e] # "ABSENT"
      BY <1>4 DEF Flush, Live
    <2>2. state'["server"] # "ABSENT" => state["server"] # "ABSENT"
      <3>1. CASE Disconnected(e, "DISCONNECTED")
        BY <1>1, <2>1, <3>1
      <3>2. CASE state' = [state EXCEPT ![e] = "DISCONNECTED"] \/ state' = state
        BY <2>1, <3>2, TypeParts, TwoEnds DEF TypeControl
      <3> QED
        BY <1>4, <3>1, <3>2 DEF Flush
    <2> QED
      BY <1>4, <2>2, SizesKept DEF Flush, handshake
  <1>5. ASSUME NEW e \in Ends, Receive(e) PROVE SizesFit'
    <2>1. PICK i \in Arriving(Peer(e)) :
            /\ state[e] \in Live /\ UNCHANGED handshake
            /\ \/ HandleConnectionRequest(e)
               \/ HandleConnectionAccepted(e)
               \/ HandleNewIncoming(e)
               \/ HandleDisconnection(e)
               \/ HandleUser(e, i)
      BY <1>5 DEF Receive, Listening
    <2>2. state'["server"] # "ABSENT" => state["server"] # "ABSENT"
      <3>1. CASE HandleDisconnection(e)
        BY <1>1, <2>1, <3>1 DEF HandleDisconnection, Live
      <3>2. CASE \/ state' = [state EXCEPT ![e] = "CONNECTED"] \/ state' = state
        BY <2>1, <3>2, TypeParts, TwoEnds DEF TypeControl, Live
      <3> QED
        BY <2>1, <3>1, <3>2 DEF HandleConnectionRequest, HandleConnectionAccepted,
                                HandleNewIncoming, HandleUser
    <2>3. sent'["client"] # << >> => sent["client"] # << >>
      <3>1. CASE HandleConnectionRequest(e)
        BY <3>1, QueuedOther, TwoEnds DEF HandleConnectionRequest
      <3>2. CASE HandleConnectionAccepted(e)
        <4>1. sent["server"] # << >>
          <5>1. i \in 1 .. out["server"]
            BY <2>1, <3>2, TwoEnds DEF Arriving, HandleConnectionAccepted
          <5>2. out["server"] <= Len(sent["server"]) /\ out["server"] \in Nat
            BY EndTypes, TwoEnds
          <5> QED
            BY <5>1, <5>2
        <4> QED
          BY <4>1 DEF Core, HandshakeOrder
      <3> QED
        BY <2>1, <3>1, <3>2 DEF HandleNewIncoming, HandleDisconnection, HandleUser
    <2> QED
      BY <2>1, <2>2, <2>3, SizesKept DEF handshake
  <1>6. ASSUME NEW e \in Ends, SendData(e) PROVE SizesFit'
    <2>1. sent["client"] # << >> /\ UNCHANGED <<offline, mtu, state>>
      BY <1>6, ConnectedSent DEF SendData, handshake
    <2> QED
      BY <2>1, SizesKept
  <1>7. CASE HandleRequest1
    <2>1. PICK m \in Sizes : m <= PathMtu /\ offline' = offline \cup {Reply1(m)}
      BY <1>7 DEF HandleRequest1, Sizes
    <2>2. UNCHANGED <<mtu, state, sent>>
      BY <1>7 DEF HandleRequest1, channel
    <2> QED
      BY <2>1, <2>2 DEF SizesFit, Reply1, Request2, Reply2
  <1>8. CASE HandleReply1
    <2>1. PICK m \in Sizes : /\ Reply1(m) \in offline /\ offline' = offline \cup {Request2(m)}
                             /\ mtu' = [mtu EXCEPT !["client"] = m]
      BY <1>8 DEF HandleReply1, Sizes
    <2>2. UNCHANGED <<state, sent>>
      BY <1>8 DEF HandleReply1, channel
    <2>3. m <= PathMtu
      BY <2>1 DEF SizesFit
    <2>4. mtu'["client"] = m /\ mtu'["server"] = mtu["server"]
      BY <2>1, TypeParts, TwoEnds DEF TypeHandshake
    <2> QED
      BY <2>1, <2>2, <2>3, <2>4 DEF SizesFit, Reply1, Request2, Reply2
  <1>9. CASE Refuse
    <2>1. offline' = offline \cup {Rejection} /\ UNCHANGED <<mtu, state, sent>>
      BY <1>9 DEF Refuse, channel
    <2> QED
      BY <2>1 DEF SizesFit, Reply1, Request2, Reply2, Rejection
  <1>10. CASE HandleRequest2
    <2>1. PICK m \in Sizes : /\ Request2(m) \in offline /\ offline' = offline \cup {Reply2(m)}
                             /\ mtu' = [mtu EXCEPT !["server"] = m]
      BY <1>10 DEF HandleRequest2, Sizes
    <2>2. UNCHANGED sent
      BY <1>10 DEF HandleRequest2, channel
    <2>3. m <= PathMtu
      BY <2>1 DEF SizesFit
    <2>4. mtu'["server"] = m /\ mtu'["client"] = mtu["client"]
      BY <2>1, TypeParts, TwoEnds DEF TypeHandshake
    <2> QED
      BY <2>1, <2>2, <2>3, <2>4 DEF SizesFit, Reply1, Request2, Reply2
  <1>11. CASE HandleReply2
    <2>1. PICK m \in Sizes : /\ Reply2(m) \in offline
                             /\ mtu' = [mtu EXCEPT !["client"] = m]
      BY <1>11 DEF HandleReply2, Sizes
    <2>2. UNCHANGED <<state, offline>>
      BY <1>11 DEF HandleReply2
    <2>3. m <= PathMtu
      BY <2>1 DEF SizesFit
    <2>4. mtu'["client"] = m /\ mtu'["server"] = mtu["server"]
      BY <2>1, TypeParts, TwoEnds DEF TypeHandshake
    <2> QED
      BY <2>1, <2>2, <2>3, <2>4 DEF SizesFit
  <1>12. CASE HandleRejection
    <2>1. UNCHANGED <<offline, mtu, sent>> /\ state'["server"] = state["server"]
      BY <1>12, DisconnectedState, TwoEnds DEF HandleRejection, handshake, channel
    <2> QED
      BY <2>1, SizesKept
  <1>13. ASSUME NEW e \in Ends, Disconnect(e), UNCHANGED handshake PROVE SizesFit'
    <2>1. sent["client"] # << >> /\ UNCHANGED <<offline, mtu>>
      BY <1>13, ConnectedSent DEF Disconnect, handshake
    <2>2. state'["server"] # "ABSENT" => state["server"] # "ABSENT"
      BY <1>13, TypeParts, TwoEnds DEF Disconnect, TypeControl
    <2> QED
      BY <2>1, <2>2, SizesKept
  <1>14. CASE ServerDisconnect
    BY <1>13, <1>14, TwoEnds DEF ServerDisconnect
  <1>15. CASE ClientClose
    <2>1. CASE Disconnect("client")
      BY <1>13, <1>15, <2>1, TwoEnds DEF ClientClose
    <2>2. CASE UNCHANGED <<state, sent>>
      BY <1>15, <2>2, SizesKept DEF ClientClose, handshake
    <2> QED
      BY <1>15, <2>1, <2>2 DEF ClientClose
  <1>16. CASE ConnectTimesOut \/ ClientCloseEnds \/ ClientLeave \/ LoopEnds
    <2>1. UNCHANGED <<state, sent, offline, mtu>>
      BY <1>16 DEF ConnectTimesOut, ClientCloseEnds, ClientLeave, LoopEnds, handshake, channel
    <2> QED
      BY <2>1, SizesKept
  <1> QED
    BY <1>0, <1>2, <1>3, <1>4, <1>5, <1>6, <1>7, <1>8, <1>9, <1>10, <1>11, <1>12, <1>14, <1>15,
       <1>16 DEF Next

(* The user of the client learns nothing new. *)
LEMMA UserKept ==
    ASSUME User, UNCHANGED caller, Rejection \in offline => Rejection \in offline',
           Saw("client", "CONNECT")' <=> Saw("client", "CONNECT"),
           Saw("client", "DISCONNECT") => Saw("client", "DISCONNECT")',
           closed' => closed \/ Saw("client", "DISCONNECT")',
           ~open => ~open',
           state["client"] = "DISCONNECTED" => state'["client"] = "DISCONNECTED"
    PROVE  User'
  BY DEF User, CallerKnows, ConnectTruthful

LEMMA UserStep ==
    ASSUME TypeOK, Core, User, [Next]_vars
    PROVE  User'
  <1>0. CASE UNCHANGED vars
    BY <1>0, UserKept DEF vars, handshake, task, Saw
  <1>1. ASSUME NEW e \in Ends, Disconnected(e, "DISCONNECTED"), UNCHANGED <<caller, open>>,
               Rejection \in offline => Rejection \in offline'
        PROVE  User'
    BY <1>1, UserKept, DisconnectedState, TwoEnds
  <1>2. ASSUME UNCHANGED <<state, events, caller, open, closed>>,
               Rejection \in offline => Rejection \in offline'
        PROVE  User'
    BY <1>2, UserKept DEF Saw
  <1>3. CASE Retransmit
    BY <1>1, <1>2, <1>3, TwoEnds DEF Retransmit, task
  <1>4. ASSUME NEW e \in Ends, TimeOut(e) PROVE User'
    BY <1>1, <1>4 DEF TimeOut, task, handshake
  <1>5. ASSUME NEW e \in Ends, Flush(e) PROVE User'
    <2>1. CASE /\ state[e] = "DISCONNECTING"
               /\ state' = [state EXCEPT ![e] = "DISCONNECTED"] /\ UNCHANGED <<events, closed>>
      <3>1. state["client"] = "DISCONNECTED" => state'["client"] = "DISCONNECTED"
        BY <2>1, TypeParts, TwoEnds DEF TypeControl
      <3> QED
        BY <1>5, <2>1, <3>1, UserKept DEF Flush, task, handshake, Saw
    <2>2. CASE Disconnected(e, "DISCONNECTED")
      BY <1>1, <1>5, <2>2 DEF Flush, task, handshake
    <2>3. CASE UNCHANGED <<state, events, closed>>
      BY <1>2, <1>5, <2>3 DEF Flush, task, handshake
    <2> QED
      BY <1>5, <2>1, <2>2, <2>3 DEF Flush
  <1>6. ASSUME NEW e \in Ends, Receive(e) PROVE User'
    <2>1. PICK i \in Arriving(Peer(e)) :
            /\ state[e] \in Live /\ UNCHANGED <<handshake, task>>
            /\ \/ HandleConnectionRequest(e)
               \/ HandleConnectionAccepted(e)
               \/ HandleNewIncoming(e)
               \/ sent[Peer(e)][i].kind = "DISCONNECTION" /\ HandleDisconnection(e)
               \/ HandleUser(e, i)
            /\ arrived' = [arrived EXCEPT ![Peer(e)] = @ \cup {i}]
      BY <1>6 DEF Receive, Listening
    <2>2. UNCHANGED <<offline, open>>
      BY <2>1 DEF handshake, task
    <2>3. CASE HandleConnectionRequest(e)
      BY <1>2, <2>2, <2>3 DEF HandleConnectionRequest
    <2>4. CASE HandleConnectionAccepted(e)
      <3> DEFINE v == Signal("CONNECT")
      <3>1. v \in Signals /\ v.signal = "CONNECT"
        BY DEF Signal, Signals
      <3>2. events' = [events EXCEPT ![e] = Append(@, v)]
        BY <2>4 DEF HandleConnectionAccepted
      <3> HIDE DEF v
      <3>3. \A d \in Ends : \A t : Saw(d, t)' <=> Saw(d, t) \/ (d = e /\ t = "CONNECT")
        BY <3>1, <3>2, SawSignalled, Zenon
      <3>4. /\ Saw("client", "CONNECT")'
            /\ Saw("client", "DISCONNECT")' <=> Saw("client", "DISCONNECT")
        BY <2>4, <3>3 DEF HandleConnectionAccepted, Ends
      <3>5. caller # "rejected" /\ UNCHANGED closed
        BY <2>4 DEF User, CallerKnows, HandleConnectionAccepted
      <3>6. caller' = IF caller = "connecting" THEN "connected" ELSE caller
        BY <2>4 DEF HandleConnectionAccepted, Wake
      <3> QED
        BY <2>2, <3>4, <3>5, <3>6 DEF User, CallerKnows, ConnectTruthful
    <2>5. CASE HandleNewIncoming(e)
      <3>1. e = "server" /\ UNCHANGED <<closed, caller>>
        BY <2>5 DEF HandleNewIncoming
      <3>2. events'["client"] = events["client"] /\ state'["client"] = state["client"]
        BY <2>5, TypeParts, TwoEnds DEF HandleNewIncoming, TypeControl, TypeEvents
      <3> QED
        BY <2>2, <3>1, <3>2, UserKept DEF Saw
    <2>6. CASE sent[Peer(e)][i].kind = "DISCONNECTION" /\ HandleDisconnection(e)
      <3>1. /\ Disconnected(e, "DISCONNECTING") /\ Wake(e, "rejected")
        BY <2>6 DEF HandleDisconnection
      <3>2. UNCHANGED caller
        <4>1. CASE e = "client"
          <5>1. i \in OfKind("server", "DISCONNECTION")
            <6>1. i \in 1 .. out["server"]
              BY <2>1, <4>1, TwoEnds DEF Arriving
            <6>2. out["server"] <= Len(sent["server"]) /\ out["server"] \in Nat
                  /\ sent["server"] \in Seq(Message)
              BY EndTypes, TwoEnds
            <6> QED
              BY <2>6, <4>1, <6>1, <6>2, TwoEnds DEF OfKind
          <5>2. Saw("client", "CONNECT")
            BY <5>1, TwoEnds DEF Core, SendsInOrder, HandshakeOrder
          <5> QED
            BY <3>1, <5>2 DEF User, CallerKnows, Wake
        <4>2. CASE e # "client"
          BY <3>1, <4>2 DEF Wake
        <4> QED
          BY <4>1, <4>2
      <3>3. state["client"] = "DISCONNECTED" => state'["client"] = "DISCONNECTED"
        BY <2>1, <3>1, DisconnectedState, TwoEnds DEF Live
      <3> QED
        BY <2>2, <3>1, <3>2, <3>3, UserKept, DisconnectedState, TwoEnds
    <2>7. CASE HandleUser(e, i)
      <3>1. UNCHANGED <<state, closed, caller>>
        BY <2>7 DEF HandleUser
      <3>2. \A d \in Ends : (Saw(d, "CONNECT")' <=> Saw(d, "CONNECT"))
                           /\ (Saw(d, "DISCONNECT")' <=> Saw(d, "DISCONNECT"))
        <4> DEFINE v == [signal |-> "RECEIVE", msg |-> i]
        <4>1. v \in Signals /\ v.signal = "RECEIVE"
          <5>1. i \in 1 .. out[Peer(e)] /\ out[Peer(e)] \in Nat
            BY EndTypes, TwoEnds DEF Arriving
          <5> QED
            BY <5>1 DEF Signals
        <4>2. events' = [events EXCEPT ![e] = Append(@, v)] \/ events' = events
          BY <2>7 DEF HandleUser
        <4> HIDE DEF v
        <4>3. CASE events' = [events EXCEPT ![e] = Append(@, v)]
          <5>1. \A d \in Ends : \A t : Saw(d, t)' <=> Saw(d, t) \/ (d = e /\ t = "RECEIVE")
            BY <4>1, <4>3, SawSignalled, Zenon
          <5> QED
            BY <5>1
        <4>4. CASE events' = events
          BY <4>4 DEF Saw
        <4> QED
          BY <4>2, <4>3, <4>4
      <3> QED
        BY <2>2, <3>1, <3>2, UserKept, TwoEnds
    <2> QED
      BY <2>1, <2>3, <2>4, <2>5, <2>6, <2>7
  <1>7. ASSUME NEW e \in Ends, SendData(e) PROVE User'
    BY <1>2, <1>7 DEF SendData, task, handshake
  <1>8. CASE HandleRequest1 \/ HandleReply1 \/ Refuse \/ HandleReply2
    BY <1>2, <1>8 DEF HandleRequest1, HandleReply1, Refuse, HandleReply2, task
  <1>9. CASE HandleRequest2
    <2>1. state'["client"] = state["client"]
      BY <1>9, TypeParts, TwoEnds DEF HandleRequest2, TypeControl
    <2> QED
      BY <1>9, <2>1, UserKept DEF HandleRequest2, task, Saw
  <1>10. CASE HandleRejection
    <2>1. /\ state["client"] \in {"DISCONNECTED", "CONNECTING"} /\ Rejection \in offline'
          /\ Disconnected("client", "DISCONNECTED") /\ Wake("client", "rejected")
          /\ UNCHANGED <<offline, open>>
      BY <1>10 DEF HandleRejection, handshake, task
    <2>2. /\ state'["client"] = "DISCONNECTED" /\ Saw("client", "DISCONNECT")'
          /\ Saw("client", "CONNECT")' <=> Saw("client", "CONNECT")
      BY <2>1, DisconnectedState, TwoEnds
    <2>3. caller' = IF caller = "connecting" THEN "rejected" ELSE caller
      BY <2>1 DEF Wake
    <2> QED
      BY <2>1, <2>2, <2>3 DEF User, CallerKnows, ConnectTruthful
  <1>11. CASE ServerDisconnect
    <2>1. state'["client"] = state["client"]
      BY <1>11, TypeParts, TwoEnds DEF ServerDisconnect, Disconnect, TypeControl
    <2> QED
      BY <1>11, <2>1, UserKept DEF ServerDisconnect, handshake, task, Saw
  <1>12. CASE ConnectTimesOut
    BY <1>12 DEF ConnectTimesOut, User, CallerKnows, ConnectTruthful, Saw, handshake, task
  <1>13. CASE ClientClose \/ ClientCloseEnds \/ ClientLeave
    <2>1. /\ caller' \in {"closing", "closed"} /\ UNCHANGED <<events, offline>>
          /\ caller' = "closed" => ~open' \/ Saw("client", "DISCONNECT")
      BY <1>13 DEF ClientClose, ClientCloseEnds, ClientLeave, User, CallerKnows, handshake
    <2> QED
      BY <2>1 DEF User, CallerKnows, ConnectTruthful, Saw
  <1>14. CASE LoopEnds
    BY <1>2, <1>14 DEF LoopEnds, handshake
  <1> QED
    BY <1>0, <1>3, <1>4, <1>5, <1>6, <1>7, <1>8, <1>9, <1>10, <1>11, <1>12, <1>13, <1>14 DEF Next

----------------------------------------------------------------------------
(* The inductive invariant. *)

LEMMA Initially ==
    ASSUME Init
    PROVE  IInv
  <1>1. TypeOK
    <2>1. TypeControl
      BY TwoEnds DEF Init, TypeControl, Live
    <2>2. TypeHandshake
      <3>1. Mtus[1] \in Sizes /\ 0 \in 0 .. RetransmitCount - 1 /\ 1 \in 1 .. Len(Mtus) + 1
        BY SizesListed
      <3>2. mtu \in [Ends -> Sizes]
        BY <3>1 DEF Init
      <3> QED
        BY <3>1, <3>2 DEF Init, TypeHandshake
    <2>3. TypeChannel
      BY TwoEnds DEF Init, TypeChannel
    <2>4. TypeEvents
      BY TwoEnds DEF Init, TypeEvents
    <2> QED
      BY <2>1, <2>2, <2>3, <2>4, TypeParts
  <1>2. /\ \A d \in Ends : /\ events[d] = << >> /\ sent[d] = << >> /\ arrived[d] = {}
                         /\ ~onAck[d]
        /\ state["client"] = "CONNECTING" /\ state["server"] = "ABSENT"
    BY TwoEnds DEF Init
  <1>3. /\ \A d \in Ends : \A s : ~Saw(d, s)
        /\ \A d \in Ends : \A k : OfKind(d, k) = {}
    BY <1>2 DEF Saw, OfKind
  <1>4. Core
    <2>1. LifeAgrees /\ NotificationHandled /\ SendsInOrder /\ ChannelOrder
      BY <1>2, <1>3, TwoEnds DEF LifeAgrees, NotificationHandled, SendsInOrder, ChannelOrder, Live
    <2>2. HandshakeOrder
      BY <1>2, <1>3, TwoEnds, SizesListed DEF HandshakeOrder, Init
    <2>3. OrderedDataKept /\ OneLife
      BY <1>2, <1>3, TwoEnds DEF OrderedDataKept, OneLife
    <2> QED
      BY <2>1, <2>2, <2>3 DEF Core
  <1>5. SizesFit
    BY <1>2, TwoEnds DEF SizesFit, Init, Request1, Reply1, Request2, Reply2
  <1>6. User
    BY <1>3, TwoEnds DEF User, CallerKnows, ConnectTruthful, Init
  <1> QED
    BY <1>1, <1>4, <1>5, <1>6 DEF IInv

LEMMA Inductive == Spec => []IInv
  <1>1. Init => IInv
    BY Initially
  <1>2. IInv /\ [Next]_vars => IInv'
    BY TypeStep, CoreStep, SizesStep, UserStep DEF IInv
  <1> QED
    BY <1>1, <1>2, PTL DEF Spec

----------------------------------------------------------------------------
(* The types of Connection, at both ends. *)
THEOREM TypeCorrect == Spec => []TypeOK
  <1>1. IInv => TypeOK
    BY DEF IInv
  <1> QED
    BY <1>1, Inductive, PTL

(* The server's application is given a connection only after the client's  *)
(* was, and a connected client has had a connection at the server, for any *)
(* repetition, loss and reordering of the offline messages and any         *)
(* timeout or call that comes in between.                                  *)
THEOREM HandshakeAlwaysAgrees == Spec => []HandshakeAgrees
  <1>1. IInv => HandshakeAgrees
    BY DEF IInv, Core, HandshakeOrder, HandshakeAgrees
  <1> QED
    BY <1>1, Inductive, PTL

(* The signals of an end make one life: CONNECT at most once and first,    *)
(* data only in between, nothing but a late rejection's DISCONNECT after   *)
(* the end.                                                                *)
THEOREM AlwaysOneLife == Spec => []OneLife
  <1>1. IInv => OneLife
    BY DEF IInv, Core
  <1> QED
    BY <1>1, Inductive, PTL

(* An established connection never fills datagrams beyond the path, for    *)
(* any list of sizes and in whatever order their replies arrive.           *)
THEOREM MtuAlwaysFitsPath == Spec => []MtuFitsPath
  <1>1. IInv => MtuFitsPath
    <2> SUFFICES ASSUME IInv, NEW e \in Ends, Saw(e, "CONNECT")
                 PROVE  mtu[e] <= PathMtu
      BY DEF MtuFitsPath
    <2>1. Saw("client", "CONNECT")
      BY TwoEnds DEF IInv, Core, HandshakeOrder
    <2>2. sent["client"] # << >> /\ state["server"] # "ABSENT"
      BY <2>1 DEF IInv, Core, HandshakeOrder
    <2> QED
      BY <2>2, TwoEnds DEF IInv, SizesFit
  <1> QED
    BY <1>1, Inductive, PTL

(* Ordered data that was acknowledged has been handed over, unless its     *)
(* receiver was disconnecting.                                             *)
THEOREM OrderedDataAlwaysKept == Spec => []OrderedDataKept
  <1>1. IInv => OrderedDataKept
    BY DEF IInv, Core
  <1> QED
    BY <1>1, Inductive, PTL

(* connect() and close() tell the client's user the truth. *)
THEOREM ConnectAlwaysTruthful == Spec => []ConnectTruthful
  <1>1. IInv => ConnectTruthful
    BY DEF IInv, User
  <1> QED
    BY <1>1, Inductive, PTL
=============================================================================
