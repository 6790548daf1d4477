----------------------------- MODULE Congestion -----------------------------
(***************************************************************************)
(* CongestionController of one sender, driven by ReliabilityLayer: update  *)
(* sends and resends, _handle_ack and _handle_nak report back, in any      *)
(* order and as late as they like.                                         *)
(*                                                                         *)
(* Every frame fills a datagram of one MTU, and how many of the recorded   *)
(* datagrams are resent is a choice: module Transport has which.  The      *)
(* window is counted in parts of an MTU, and mtu * mtu / cwnd, a float in  *)
(* the code, is rounded down to such parts.  Times are left out; so is     *)
(* the cap of the history: a record it takes is one that is never acked.   *)
(***************************************************************************)
EXTENDS SeqSpace, FiniteSets, Functions

CONSTANTS
    Mtu,              \* mtu, in the parts the window is counted in
    FirstSeq,         \* next_datagram_seq when the sender becomes busy
    MaxWaiting,       \* bound: frames in the send queue
    MaxDatagrams      \* bound: datagrams sent

ASSUME CongestionAssumption ==
    /\ Mtu \in Nat \ {0} /\ FirstSeq \in SeqNum
    /\ MaxWaiting \in Nat /\ MaxDatagrams \in Nat /\ MaxDatagrams < HalfSeq

VARIABLES
    cwnd,         \* cwnd
    ssThresh,     \* ss_thresh
    nextSeq,      \* next_datagram_seq
    nextBlock,    \* _next_cc_block
    backedOff,    \* _backed_off_this_block
    continuous,   \* _is_continuous_send
    waiting,      \* how many frames the send queue holds
    history,      \* _datagram_history: number -> is_continuous_send, and
                  \* how many datagrams were sent before it
    nth,          \* how many datagrams have been sent
    cutAt,        \* how many had been when the window was last cut, or Never
    progress,     \* whether a later one, sent continuously, was acknowledged
    cutFrom       \* the window that was last cut

window == <<cwnd, ssThresh, nextBlock, backedOff, continuous>>
traffic == <<nextSeq, waiting, history, nth>>
cuts == <<cutAt, progress, cutFrom>>
vars == <<window, traffic, cuts>>

Never == -1

\* No datagram was sent continuously before FirstSeq.
Init ==
    /\ cwnd = Mtu /\ ssThresh = 0
    /\ nextBlock = 0 /\ backedOff = FALSE /\ continuous = FALSE
    /\ nextSeq = FirstSeq /\ waiting = 0 /\ history = << >>
    /\ nth = 0 /\ cutAt = Never /\ progress = FALSE /\ cutFrom = 0

Unacked == Mtu * Cardinality(DOMAIN history)

InSlowStart == cwnd <= ssThresh \/ ssThresh = 0

----------------------------------------------------------------------------
(* Answers to what was sent.                                               *)

Half(n) == n \div 2

\* One more MTU, or past the threshold only the part that avoidance adds.
SlowStart ==
    LET grown == cwnd + Mtu
    IN  cwnd' = IF ssThresh > 0 /\ grown > ssThresh
                THEN ssThresh + (Mtu * Mtu) \div grown ELSE grown

Avoid(newPeriod) ==
    cwnd' = IF newPeriod THEN cwnd + (Mtu * Mtu) \div cwnd ELSE cwnd

OnAck(s) ==
    \/ /\ ~history[s].continuous
       /\ continuous' = FALSE
       /\ UNCHANGED <<cwnd, ssThresh, nextBlock, backedOff>>
    \/ /\ history[s].continuous
       /\ continuous' = TRUE
       /\ LET newPeriod == SeqGreaterThan(s, nextBlock)
          IN  /\ backedOff' = (backedOff /\ ~newPeriod)
              /\ nextBlock' = IF newPeriod THEN nextSeq ELSE nextBlock
              /\ \/ InSlowStart /\ SlowStart
                 \/ ~InSlowStart /\ Avoid(newPeriod)
       /\ UNCHANGED ssThresh

HandleAck ==
    \E s \in DOMAIN history :
        /\ OnAck(s)
        /\ history' = Restrict(history, DOMAIN history \ {s})
        /\ progress' = (progress \/ (history[s].continuous /\ history[s].nth >= cutAt))
        /\ UNCHANGED <<nextSeq, waiting, nth, cutAt, cutFrom>>

\* A fault: NAKs go on lowering the threshold after the window was cut.
OnNakAlways ==
    /\ ssThresh' = IF continuous THEN Half(cwnd) ELSE ssThresh
    /\ UNCHANGED cwnd

OnNak ==
    /\ ssThresh' = IF continuous /\ ~backedOff THEN Half(cwnd) ELSE ssThresh
    /\ UNCHANGED cwnd

HandleNak ==
    /\ DOMAIN history # {}
    /\ OnNak
    /\ UNCHANGED <<nextBlock, backedOff, continuous, traffic, cuts>>

----------------------------------------------------------------------------
(* update().                                                               *)

MaxOf(a, b) == IF a >= b THEN a ELSE b

Cuts == continuous /\ ~backedOff /\ cwnd > 2 * Mtu

\* A fault: the block that the cut belongs to is not moved on.
OnResendSameBlock ==
    \/ /\ Cuts
       /\ ssThresh' = MaxOf(Half(cwnd), Mtu)
       /\ cwnd' = Mtu
       /\ backedOff' = TRUE
       /\ cutAt' = nth /\ progress' = FALSE /\ cutFrom' = cwnd
       /\ UNCHANGED nextBlock
    \/ ~Cuts /\ UNCHANGED <<cwnd, ssThresh, nextBlock, backedOff, cuts>>

OnResend ==
    \/ /\ Cuts
       /\ ssThresh' = MaxOf(Half(cwnd), Mtu)
       /\ cwnd' = Mtu
       /\ nextBlock' = nextSeq
       /\ backedOff' = TRUE
       /\ cutAt' = nth /\ progress' = FALSE /\ cutFrom' = cwnd
    \/ ~Cuts /\ UNCHANGED <<cwnd, ssThresh, nextBlock, backedOff, cuts>>

\* _pack_datagrams asks for the bandwidth before each new datagram but lets
\* the first one go; so many of w frames leave when u bytes are unacknowledged.
Fits(w, u, n) ==
    /\ n \in 0 .. w /\ (w > 0 => n > 0)
    /\ \A i \in 1 .. n - 1 : u + i * Mtu < cwnd'
    /\ n < w => u + n * Mtu >= cwnd'

\* The last number of frames that transmission_bandwidth was asked about.
AskedLast(w, n) == IF n < w THEN w - n ELSE 1

\* A fault: datagram numbers are not cut to 24 bits.
AdvanceUnwrapped(n) == nextSeq + n

Advance(n) == Wire(nextSeq + n)

\* Of w frames n go out, after r datagrams with what is due again.
Update ==
    \E r \in 0 .. Cardinality(DOMAIN history), w \in waiting .. MaxWaiting :
    \E n \in 0 .. w :
        LET fresh == {Wire(nextSeq + i) : i \in 0 .. r + n - 1}
            record(i) == [continuous |-> IF i < r THEN i + 1 < r \/ w > 0
                                         ELSE i - r + 1 < w,
                          nth |-> nth + i]
        IN  /\ r + n > 0 /\ nth + r + n <= MaxDatagrams
            /\ \/ r > 0 /\ OnResend
               \/ r = 0 /\ UNCHANGED <<cwnd, ssThresh, nextBlock, backedOff, cuts>>
            /\ Fits(w, Unacked + r * Mtu, n)
            /\ continuous' = IF w = 0 THEN continuous ELSE AskedLast(w, n) > 1
            /\ waiting' = w - n
            /\ history' = [s \in DOMAIN history \cup fresh |->
                              IF s \in fresh THEN record(SeqSub(s, nextSeq))
                              ELSE history[s]]
            /\ nextSeq' = Advance(r + n)
            /\ nth' = nth + r + n

Next == HandleAck \/ HandleNak \/ Update

Spec == Init /\ [][Next]_vars

----------------------------------------------------------------------------
(***************************************************************************)
(* The types of the controller: its numbers have 24 bits, every recorded   *)
(* datagram is one of those that were sent, and the window holds one       *)
(* datagram at least, whatever order losses are reported in.               *)
(***************************************************************************)
TypeOK ==
    /\ cwnd \in Nat /\ cwnd >= Mtu /\ ssThresh \in Nat
    /\ nextSeq \in SeqNum /\ nextBlock \in SeqNum
    /\ backedOff \in BOOLEAN /\ continuous \in BOOLEAN
    /\ waiting \in 0 .. MaxWaiting /\ nth \in 0 .. MaxDatagrams
    /\ DOMAIN history \subseteq SeqNum
    /\ \A s \in DOMAIN history :
          history[s] \in [continuous : BOOLEAN, nth : 0 .. nth - 1]
    /\ cutAt \in 0 .. nth \cup {Never} /\ progress \in BOOLEAN /\ cutFrom \in Nat

(***************************************************************************)
(* The window is cut once per round trip: however many datagrams of the    *)
(* same flight are lost, and however late their timers and NAKs come, it   *)
(* is cut again only after a datagram sent after the cut is acknowledged.  *)
(***************************************************************************)
OneCutPerRoundTrip ==
    [][cwnd' < cwnd => cutAt = Never \/ progress]_vars

(***************************************************************************)
(* Losses of the flight in which the window was cut have no other effect:  *)
(* until something sent after the cut is acknowledged, the threshold is    *)
(* half the window the cut found, whatever NAKs and timers still report,   *)
(* and late acknowledgements do not grow the window beyond it by more than *)
(* congestion avoidance adds once.                                         *)
(***************************************************************************)
RecoversBySlowStart ==
    cutAt # Never /\ ~progress =>
        /\ ssThresh = MaxOf(Half(cutFrom), Mtu)
        /\ cwnd <= ssThresh + Mtu
=============================================================================
