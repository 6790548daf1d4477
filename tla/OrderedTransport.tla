-------------------------- MODULE OrderedTransport --------------------------
(***************************************************************************)
(* Transport and one ordering channel together: what an application gets   *)
(* that sends RELIABLE_ORDERED and UNRELIABLE_SEQUENCED messages over a    *)
(* network that loses, repeats and reorders datagrams.                     *)
(*                                                                         *)
(* send() stamps a frame with the channel's counters before it queues it;  *)
(* _handle_frame routes to the channel what passes the duplicate filters.  *)
(* A step hands one message to the channel: a datagram is meant to carry   *)
(* one frame (FramesPerDatagram = 1). The heap has room for all messages.  *)
(***************************************************************************)
EXTENDS Transport

CONSTANTS HalfSeq, OrderedSubKey

ASSUME OrderedTransportAssumption ==
    /\ HalfSeq \in Nat /\ HalfSeq >= 2 /\ MaxMessages < HalfSeq
    /\ OrderedSubKey \in Nat /\ OrderedSubKey < HalfSeq

VARIABLES msgs, nextOrd, nextSub, expectedOrd, highest, heap, count, log, overflow

channelVars == <<msgs, nextOrd, nextSub, expectedOrd, highest, heap, count, log, overflow>>
allVars == <<vars, channelVars>>

Arrived == {m \in Messages : delivered[m] > 0}

Channel0 == INSTANCE Ordering
    WITH FirstIndex <- 0, MaxAhead <- MaxMessages, HeapCap <- MaxMessages,
         arrived <- Arrived, expected <- expectedOrd

InitAll == Init /\ Channel0!Init

\* send() with an ordering channel.
SendStamped ==
    /\ Send
    /\ IF sent + 1 \in Unreliable THEN Channel0!SendSequenced ELSE Channel0!SendOrdered

HandedOn == {m \in Messages : delivered'[m] > delivered[m]}

\* _handle_frame, for the frame of a datagram that passed the filters.
Route ==
    \/ HandedOn = {} /\ UNCHANGED channelVars
    \/ \E m \in HandedOn : Channel0!Arrive(m)

SenderTicks == SenderTick /\ UNCHANGED channelVars
ReceiverTicks == ReceiverTick /\ UNCHANGED channelVars
ReceiveAndRoute == Receive /\ Route

NextAll ==
    \/ SendStamped \/ SenderTicks \/ ReceiverTicks
    \/ ReceiveAndRoute
    \/ Duplicate /\ Route
    \/ Lose /\ UNCHANGED channelVars

FairnessAll ==
    WF_allVars(SenderTicks) /\ WF_allVars(ReceiverTicks) /\ WF_allVars(ReceiveAndRoute)

SpecAll == InitAll /\ [][NextAll]_allVars

FairSpecAll == InitAll /\ [][NextAll]_allVars /\ FairnessAll

----------------------------------------------------------------------------
Promise == INSTANCE OrderedChannel WITH Sequenced <- Unreliable

(***************************************************************************)
(* The stack implements an ordered channel: with datagrams lost, repeated  *)
(* and reordered below, resends in new datagrams and the heap above, the   *)
(* application gets messages in the order of the send() calls, each once,  *)
(* and no ordered one is passed over.                                      *)
(***************************************************************************)
ImplementsOrderedChannel == Promise!Spec

(***************************************************************************)
(* Every ordered message comes out, if timers outlast the round trip and   *)
(* the network loses finitely much: no lost data, ACK or NAK leaves both   *)
(* sides waiting, and none leaves the channel waiting for an index that    *)
(* will not come again.                                                    *)
(***************************************************************************)
OrderedDelivery == Promise!EventuallyDelivered
=============================================================================
