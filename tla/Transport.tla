----------------------------- MODULE Transport -----------------------------
(***************************************************************************)
(* One direction of a connection: ReliabilityLayer.update on the sender,   *)
(* on_datagram_received on both sides, and the UDP network between them,   *)
(* which loses, duplicates and reorders datagrams.                         *)
(*                                                                         *)
(* Messages are 1, 2, ... in the order of the send() calls, and datagram   *)
(* and message numbers are kept whole: MessageWindow shows that cutting    *)
(* them to 24 bits changes no answer.  Bytes are counted in frames; time   *)
(* is left out, and a timer that may have expired is a choice.             *)
(***************************************************************************)
EXTENDS RangeList

CONSTANTS
    MaxMessages,         \* bound: calls of send()
    Unreliable,          \* the messages sent UNRELIABLE, the others RELIABLE
    Empty,               \* the messages whose payload is empty
    FramesPerDatagram,   \* how many frames the MTU leaves room for
    MaxResend,           \* MAX_RESEND_BUFFER_SIZE
    MaxHistory,          \* MAX_DATAGRAM_HISTORY_SIZE
    RecvWindowSize,      \* DEFAULT_RECEIVED_PACKET_QUEUE_SIZE
    MaxSkip,             \* 50000 in on_got_packet
    MaxNak,              \* 1000 in on_got_packet
    MaxGap,              \* 1000000 in check_and_mark
    MaxAckSeqs,          \* DATAGRAM_MESSAGE_ID_ARRAY_LENGTH
    AckRoom,             \* what the MTU leaves for the ranges of an ACK or NAK
    RttKnown,            \* whether the receiver has an RTT sample of its own
    EarlyTimers,         \* whether a retransmission may precede a late ACK
    MaxDatagrams,        \* bound: no timeout is taken beyond this number
    MaxReorder,          \* a datagram overtaken by more of them is lost
    MaxFaults            \* bound: datagrams lost or duplicated

Messages == 1 .. MaxMessages

ASSUME TransportAssumption ==
    /\ MaxMessages \in Nat /\ MaxDatagrams \in Nat /\ MaxFaults \in Nat
    /\ FramesPerDatagram \in Nat \ {0} /\ RecvWindowSize \in Nat \ {0}
    /\ MaxResend \in Nat /\ MaxHistory \in Nat \ {0}
    /\ MaxSkip \in Nat /\ MaxNak \in Nat /\ MaxGap \in Nat
    /\ MaxAckSeqs \in Nat \ {0} /\ AckRoom \in Nat /\ MaxReorder \in Nat
    /\ Unreliable \subseteq Messages /\ Empty \subseteq Messages
    /\ RttKnown \in BOOLEAN /\ EarlyTimers \in BOOLEAN

VARIABLES
    \* the sender
    sent,         \* calls of send() so far
    queue,        \* _send_queue: messages not yet in a datagram
    nextNum,      \* _next_reliable_num
    resend,       \* _resend_buffer: number -> message, and whether NAKed
    nextSeq,      \* next_datagram_seq
    history,      \* _datagram_history: datagram -> its numbers and its size
    unacked,      \* _unacked_bytes
    obscured,     \* messages that travelled empty, or behind an empty one
    untracked,    \* messages numbered when the resend buffer was full
    \* the receiver
    expected,     \* expected_next_seq
    ackTimer,     \* oldest_unsent_ack # 0.0
    acks,         \* _ack_ranges
    naks,         \* _nak_ranges
    dgBase,       \* _received_datagrams._base
    dgBits,       \* _received_datagrams._bits
    got,          \* the numbers _reliable_message_window has let through
    delivered,    \* how often each message left _handle_frame
    arrived,      \* the datagrams the receiver has noted for an ACK
    refused,      \* messages in them whose numbers it has not let through
    \* the network
    net,          \* datagrams in flight
    faults        \* losses and duplications so far

senderVars ==
    <<sent, queue, nextNum, resend, nextSeq, history, unacked, obscured, untracked>>
receiverVars ==
    <<expected, ackTimer, acks, naks, dgBase, dgBits, got, delivered, arrived, refused>>
vars == <<senderVars, receiverVars, net, faults>>

NoNum == -1

Init ==
    /\ sent = 0 /\ queue = << >> /\ nextNum = 0 /\ resend = << >>
    /\ nextSeq = 0 /\ history = << >> /\ unacked = 0
    /\ obscured = {} /\ untracked = {}
    /\ expected = 0 /\ ackTimer = FALSE /\ acks = << >> /\ naks = << >>
    /\ dgBase = 0 /\ dgBits = {} /\ got = {}
    /\ delivered = [m \in Messages |-> 0]
    /\ arrived = {} /\ refused = {}
    /\ net = {} /\ faults = 0

----------------------------------------------------------------------------
(* The sender.                                                             *)

Send ==
    /\ sent < MaxMessages
    /\ sent' = sent + 1
    /\ queue' = Append(queue, sent + 1)
    /\ UNCHANGED <<nextNum, resend, nextSeq, history, unacked, obscured,
                   untracked, receiverVars, net, faults>>

NumsOf(frames) == {f.num : f \in Range(frames)} \ {NoNum}

MinOf(a, b) == IF a <= b THEN a ELSE b

\* The frames of s, as many to a datagram as fit.
Chunks(s) ==
    LET F == FramesPerDatagram
    IN  [i \in 1 .. (Len(s) + F - 1) \div F |->
            SubSeq(s, (i - 1) * F + 1, MinOf(i * F, Len(s)))]

\* Frames for the first messages of the queue; numbers are assigned late.
NewFrames(ms) ==
    [i \in 1 .. Len(ms) |->
        [msg |-> ms[i],
         num |-> IF ms[i] \in Unreliable THEN NoNum
                 ELSE nextNum + Cardinality({j \in 1 .. i - 1 : ms[j] \notin Unreliable})]]

\* Not overtaken by too many: those sent later that have arrived.
Arrives(p) == p.type = "data" => expected - 1 - p.seq <= MaxReorder

\* Does anything still under way tell the fate of message number n?
InFlight(n) ==
    \/ \E p \in net : p.type = "data" /\ n \in NumsOf(p.frames) /\ Arrives(p)
    \/ \E s \in DOMAIN history :
          /\ n \in history[s].nums
          /\ \/ s \in Covered(acks) \cup Covered(naks)
             \/ \E p \in net : p.type # "data" /\ s \in Covered(p.ranges)

TimerMayExpire(n) == EarlyTimers \/ ~InFlight(n)

\* A fault: only a NAK makes a message due, never its timer.
DueWhenNaked == {{n \in DOMAIN resend : resend[n].naked}}

\* The messages an update may find due: all the NAKed ones, and others
\* whose retransmission timer has expired.
DueSets ==
    LET naked == {n \in DOMAIN resend : resend[n].naked}
        late == {n \in DOMAIN resend \ naked :
                    nextSeq < MaxDatagrams /\ TimerMayExpire(n)}
    IN  {naked \cup L : L \in SUBSET late}

\* A fault: records are never dropped for their age.
StaleNever == {{}}

\* Records older than the timeout, always the oldest ones, are dropped.
StaleSets ==
    {S \in SUBSET DOMAIN history :
        /\ \A s \in S : \A t \in DOMAIN history : t < s => t \in S
        /\ \A s \in S : \A n \in history[s].nums : TimerMayExpire(n)}

Sizes(h, S) == MapThenSumSet(LAMBDA s : h[s].size, S)

Newest(S) == {s \in S : Cardinality({t \in S : t > s}) < MaxHistory}

\* Decoding gives up at the first frame without payload.
Decoded(frames) ==
    LET stops == {i \in DOMAIN frames : frames[i].msg \in Empty}
    IN  SubSeq(frames, 1, IF stops = {} THEN Len(frames) ELSE Min(stops) - 1)

\* _pack_datagrams for the resends and then for the new frames.
Pack(resent, fresh, stale) ==
    LET packed == Chunks(resent) \o Chunks(fresh)
        datagrams == [i \in 1 .. Len(packed) |->
                         [type |-> "data", seq |-> nextSeq + i - 1,
                          frames |-> packed[i]]]
        recorded == [s \in (DOMAIN history \ stale) \cup
                           (nextSeq .. nextSeq + Len(packed) - 1) |->
                        IF s < nextSeq THEN history[s]
                        ELSE [nums |-> NumsOf(packed[s - nextSeq + 1]),
                              size |-> Len(packed[s - nextSeq + 1])]]
        kept == Newest(DOMAIN recorded)
        newNums == NumsOf(fresh)
        tracked == {n \in newNums :
                       Cardinality(DOMAIN resend) + (n - nextNum) < MaxResend}
    IN  /\ net' = net \cup Range(datagrams)
        /\ nextSeq' = nextSeq + Len(packed)
        /\ nextNum' = nextNum + Cardinality(newNums)
        /\ history' = Restrict(recorded, kept)
        /\ unacked' = unacked - Sizes(history, stale)
                        + Sizes(recorded, nextSeq .. nextSeq + Len(packed) - 1)
                        - Sizes(recorded, DOMAIN recorded \ kept)
        /\ obscured' = obscured \cup
              {f.msg : f \in UNION {Range(d) \ Range(Decoded(d)) : d \in Range(packed)}}
        /\ untracked' = untracked \cup
              {f.msg : f \in {g \in Range(fresh) : g.num \in newNums \ tracked}}
        /\ resend' = [n \in DOMAIN resend \cup tracked |->
                         IF n \in newNums
                         THEN [msg |-> (CHOOSE f \in Range(fresh) : f.num = n).msg,
                               naked |-> FALSE]
                         ELSE [resend[n] EXCEPT
                                  !.naked = @ /\ n \notin NumsOf(resent)]]

\* S in ascending order.
Ascending(S) ==
    {f \in [1 .. Cardinality(S) -> S] : \A i, j \in DOMAIN f : i < j => f[i] < f[j]}

\* update(): the congestion window may stop the new frames after any
\* datagram but the first; what is left stays ahead of later messages.
SenderTick ==
    \E due \in DueSets, stale \in StaleSets : \E order \in Ascending(due) :
    \E chunks \in (IF queue = << >> THEN {0} ELSE 1 .. Len(Chunks(queue))) :
        /\ LET taken == MinOf(chunks * FramesPerDatagram, Len(queue))
               resent == [i \in DOMAIN order |->
                             [msg |-> resend[order[i]].msg, num |-> order[i]]]
           IN  /\ Pack(resent, NewFrames(SubSeq(queue, 1, taken)), stale)
               /\ queue' = SubSeq(queue, taken + 1, Len(queue))
        /\ UNCHANGED <<sent, receiverVars, faults>>

\* The first MaxAckSeqs numbers of an ACK or NAK are looked at.
Considered(seqs) == {s \in seqs : Cardinality({t \in seqs : t < s}) < MaxAckSeqs}

\* A fault: the record of an acknowledged datagram is read, not removed.
HandleAckKeepsRecord(p) ==
    LET found == Considered(Covered(p.ranges)) \cap DOMAIN history
    IN  /\ p.type = "ack"
        /\ unacked' = unacked - Sizes(history, found)
        /\ resend' = Restrict(resend, DOMAIN resend \
                                 UNION {history[s].nums : s \in found})
        /\ UNCHANGED <<sent, queue, nextNum, nextSeq, history, obscured, untracked,
                       receiverVars>>

\* A fault: the bytes of an acknowledged datagram are not given back.
HandleAckNoRefund(p) ==
    LET found == Considered(Covered(p.ranges)) \cap DOMAIN history
    IN  /\ p.type = "ack"
        /\ history' = Restrict(history, DOMAIN history \ found)
        /\ resend' = Restrict(resend, DOMAIN resend \
                                 UNION {history[s].nums : s \in found})
        /\ UNCHANGED <<sent, queue, nextNum, nextSeq, unacked, obscured, untracked,
                       receiverVars>>

HandleAck(p) ==
    LET found == Considered(Covered(p.ranges)) \cap DOMAIN history
    IN  /\ p.type = "ack"
        /\ history' = Restrict(history, DOMAIN history \ found)
        /\ unacked' = unacked - Sizes(history, found)
        /\ resend' = Restrict(resend, DOMAIN resend \
                                 UNION {history[s].nums : s \in found})
        /\ UNCHANGED <<sent, queue, nextNum, nextSeq, obscured, untracked, receiverVars>>

\* A fault: what a NAK asks for is taken out of the resend buffer.
HandleNakTakes(p) ==
    LET found == Considered(Covered(p.ranges)) \cap DOMAIN history
    IN  /\ p.type = "nak"
        /\ resend' = Restrict(resend, DOMAIN resend \
                                 UNION {history[s].nums : s \in found})
        /\ UNCHANGED <<sent, queue, nextNum, nextSeq, history, unacked, obscured,
                       untracked, receiverVars>>

HandleNak(p) ==
    LET found == Considered(Covered(p.ranges)) \cap DOMAIN history
        missed == UNION {history[s].nums : s \in found}
    IN  /\ p.type = "nak"
        /\ resend' = [n \in DOMAIN resend |->
                         [resend[n] EXCEPT !.naked = @ \/ n \in missed]]
        /\ UNCHANGED <<sent, queue, nextNum, nextSeq, history, unacked, obscured,
                       untracked, receiverVars>>

----------------------------------------------------------------------------
(* The receiver.                                                           *)

\* _ReceivedWindow.__contains__
Received(s) == s < dgBase \/ (s < dgBase + RecvWindowSize /\ s \in dgBits)

\* A fault: message numbers are not looked at.
FreshAll(nums) == nums

\* check_and_mark for the numbers of a datagram, in ascending order.
Fresh(nums) ==
    {n \in nums \ got : \A m \in 0 .. n - MaxGap - 1 :
                            m \in got \/ (m \in nums /\ m < n)}

\* A fault: the window moves one datagram too far.
WindowBaseByOne(s) ==
    IF s >= dgBase + RecvWindowSize THEN s - RecvWindowSize + 2 ELSE dgBase

\* _ReceivedWindow.add: the window ends with the newest datagram.
WindowBase(s) ==
    IF s >= dgBase + RecvWindowSize THEN s - RecvWindowSize + 1 ELSE dgBase

\* A fault: a late datagram is taken to have skipped those before it.
MissedBefore(s) == {t \in 0 .. s - 1 : t >= s - MaxNak}

\* The datagrams skipped before s, at most MaxNak of them.
Missed(s) == {t \in expected .. s - 1 : t >= s - MaxNak /\ ~Received(t)}

\* on_got_packet and the ranges kept for the next ACK and NAK.
Acknowledge(s) ==
    /\ s - expected <= MaxSkip
    /\ ackTimer' = TRUE
    /\ acks' = AddToRanges(acks, s)
    /\ arrived' = arrived \cup {s}
    /\ \E missed \in Ascending(Missed(s)) : naks' = FoldLeft(AddToRanges, naks, missed)
    /\ expected' = IF s >= expected THEN s + 1 ELSE expected

RejectData(p) ==
    /\ p.type = "data"
    /\ p.seq - expected > MaxSkip
    /\ ackTimer' = TRUE
    /\ UNCHANGED <<expected, acks, naks, dgBase, dgBits, got, delivered, arrived, refused,
                   senderVars>>

\* The reliable messages of an acknowledged datagram that were not let through.
Refused(p, passed) ==
    {f.msg : f \in {g \in Range(Decoded(p.frames)) : g.num \notin passed \cup {NoNum}}}

\* Acknowledged again, or for the first time if it is older than the window.
SkipData(p) ==
    /\ p.type = "data"
    /\ Acknowledge(p.seq)
    /\ Received(p.seq)
    /\ refused' = refused \cup Refused(p, got)
    /\ UNCHANGED <<dgBase, dgBits, got, delivered, senderVars>>

AcceptData(p) ==
    LET frames == Range(Decoded(p.frames))
        fresh == Fresh(NumsOf(Decoded(p.frames)))
        handed == {f.msg : f \in {g \in frames : g.num = NoNum \/ g.num \in fresh}}
        base == WindowBase(p.seq)
    IN  /\ p.type = "data"
        /\ Acknowledge(p.seq)
        /\ ~Received(p.seq)
        /\ dgBase' = base
        /\ dgBits' = {s \in dgBits : s >= base} \cup {p.seq}
        /\ got' = got \cup fresh
        /\ refused' = refused \cup Refused(p, got \cup fresh)
        /\ delivered' = [m \in Messages |->
                            delivered[m] + IF m \in handed THEN 1 ELSE 0]
        /\ UNCHANGED senderVars

Packets(type, ranges) ==
    {[type |-> type, ranges |-> r] : r \in Range(RangePackets(ranges, AckRoom))}

\* update(): NAKs go out at once, ACKs after SYN_INTERVAL if an RTT is known.
ReceiverTick ==
    \E flush \in BOOLEAN :
        /\ flush => acks # << >> /\ (RttKnown => ackTimer)
        /\ ~flush => acks = << >> \/ RttKnown
        /\ acks' = IF flush THEN << >> ELSE acks
        /\ net' = net \cup (IF flush THEN Packets("ack", acks) ELSE {})
                      \cup Packets("nak", naks)
        /\ ackTimer' = (ackTimer /\ ~flush)
        /\ naks' = << >>
        /\ UNCHANGED <<expected, dgBase, dgBits, got, delivered, arrived, refused,
                       senderVars, faults>>

----------------------------------------------------------------------------
(* The network.                                                            *)

Handle(p) ==
    \/ HandleAck(p)
    \/ HandleNak(p)
    \/ RejectData(p)
    \/ SkipData(p)
    \/ AcceptData(p)

Receive ==
    \E p \in net : Arrives(p) /\ Handle(p) /\ net' = net \ {p} /\ UNCHANGED faults

Duplicate ==
    \E p \in net :
        /\ Arrives(p) /\ Handle(p)
        /\ faults < MaxFaults /\ faults' = faults + 1
        /\ UNCHANGED net

Lose ==
    /\ faults < MaxFaults
    /\ \E p \in net : net' = net \ {p}
    /\ faults' = faults + 1
    /\ UNCHANGED <<senderVars, receiverVars>>

Next == Send \/ SenderTick \/ ReceiverTick \/ Receive \/ Duplicate \/ Lose

Spec == Init /\ [][Next]_vars

----------------------------------------------------------------------------
Frame == [msg : Messages, num : Nat \cup {NoNum}]

(***************************************************************************)
(* The types of both ends and the network.  What the receiver notes, what  *)
(* the history records and what an ACK or NAK names are numbers the sender *)
(* has used; message numbers are below the next one.                       *)
(***************************************************************************)
TypeOK ==
    /\ sent \in 0 .. MaxMessages
    /\ queue \in Seq(Messages)
    /\ nextNum \in Nat /\ nextSeq \in Nat /\ unacked \in Nat
    /\ \A n \in DOMAIN resend :
          n \in 0 .. nextNum - 1 /\ resend[n] \in [msg : Messages, naked : BOOLEAN]
    /\ \A s \in DOMAIN history :
          /\ s \in 0 .. nextSeq - 1
          /\ history[s].nums \subseteq 0 .. nextNum - 1 /\ history[s].size \in Nat
    /\ expected \in Nat /\ ackTimer \in BOOLEAN
    /\ Covered(acks) \cup Covered(naks) \subseteq 0 .. nextSeq - 1
    /\ obscured \cup untracked \cup refused \subseteq 1 .. sent
    /\ arrived \subseteq 0 .. nextSeq - 1
    /\ dgBase \in Nat /\ dgBits \subseteq 0 .. nextSeq - 1
    /\ got \subseteq 0 .. nextNum - 1
    /\ delivered \in [Messages -> Nat]
    /\ \A p \in net :
          \/ p.type = "data" /\ p.seq \in 0 .. nextSeq - 1 /\ p.frames \in Seq(Frame)
          \/ p.type \in {"ack", "nak"} /\ Covered(p.ranges) \subseteq 0 .. nextSeq - 1
    /\ faults \in 0 .. MaxFaults

(***************************************************************************)
(* A reliable message waits in the queue, is tracked for retransmission,   *)
(* or has been delivered: whichever ACKs, evictions and timers take what   *)
(* the sender recorded, it forgets a message that was not let through in   *)
(* three ways only.  Decoding stops at an empty payload (obscured); the    *)
(* resend buffer was full (untracked); or the receiver acknowledged the    *)
(* datagram and threw the message away (refused): the datagram is older    *)
(* than the receive window, or check_and_mark found a gap too large.       *)
(***************************************************************************)
NoSilentLoss ==
    \A m \in 1 .. sent \ (Unreliable \cup obscured \cup untracked \cup refused) :
        \/ \E i \in DOMAIN queue : queue[i] = m
        \/ \E n \in DOMAIN resend : resend[n].msg = m
        \/ delivered[m] > 0

(***************************************************************************)
(* Two of those ways are limits, and within them no message is given up:   *)
(* while the reliable messages fit the resend buffer and the largest gap,  *)
(* and no datagram is overtaken by as many as the receive window holds,    *)
(* every one is tracked, and what the window or check_and_mark turns away  *)
(* is a duplicate.  (It need not hold in a run that exceeds a limit.)      *)
(***************************************************************************)
NothingGivenUp == untracked = {} /\ refused = {}

\* What is noted and what is under way in ACKs and NAKs is in merged ranges,
\* and the ACKs among them name datagrams that arrived.
AcksTruthful ==
    /\ Canonical(acks) /\ Canonical(naks)
    /\ Covered(acks) \subseteq arrived
    /\ \A p \in net : p.type \in {"ack", "nak"} => Canonical(p.ranges)
    /\ \A p \in net : p.type = "ack" => Covered(p.ranges) \subseteq arrived

\* What is noted as missing has not arrived, and a NAK lists what was noted.
NaksAskForMissing ==
    [][/\ (Covered(naks') \ Covered(naks)) \cap arrived = {}
       /\ \A p \in net' \ net : p.type = "nak" => Covered(p.ranges) \subseteq Covered(naks)
      ]_vars

(***************************************************************************)
(* The receiver's reports are true.  An ACK names only datagrams that      *)
(* arrived, and a NAK asks only for some that had not when a later one     *)
(* did: merging ranges as datagrams come in any order, late, twice or far  *)
(* apart, and cutting a list into packets, neither adds a number nor makes *)
(* two ranges of one.                                                      *)
(***************************************************************************)
ReportsTruthful == []AcksTruthful /\ NaksAskForMissing

(***************************************************************************)
(* _unacked_bytes, which the congestion window is compared with, is the    *)
(* size of the recorded datagrams on every path a record can leave by: an  *)
(* ACK, the timeout, and the cap.  A leak would close the window for good. *)
(***************************************************************************)
UnackedAccounting == unacked = Sizes(history, DOMAIN history)

Channel == INSTANCE ReliableChannel

(***************************************************************************)
(* The layer implements a channel that delivers only what was sent and     *)
(* each message at most once, unreliable ones included, although reliable  *)
(* ones travel in several datagrams and the network repeats datagrams.     *)
(***************************************************************************)
ImplementsChannel == Channel!Spec

HasPendingData == queue # << >> \/ resend # << >> \/ history # << >>

(***************************************************************************)
(* has_pending_data turns false at last: nothing stays in the resend       *)
(* buffer or the history that no timer and no ACK will ever remove, so the *)
(* drain of a graceful disconnect can end before its timeout.              *)
(***************************************************************************)
SenderDrains == []<>~HasPendingData

(***************************************************************************)
(* What _constants.py says of MAX_RESEND_BUFFER_SIZE: once that many       *)
(* messages await an ACK, no further reliable message is put on the wire.  *)
(***************************************************************************)
SendsBlockedWhenFull ==
    [][nextNum' # nextNum => Cardinality(DOMAIN resend) < MaxResend]_vars
=============================================================================
