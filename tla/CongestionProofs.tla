-------------------------- MODULE CongestionProofs --------------------------
(***************************************************************************)
(* The congestion window is cut once per round trip, for every MTU, every  *)
(* size of the sequence space and every number the sender starts from.     *)
(***************************************************************************)
EXTENDS Congestion, FiniteSetTheorems, TLAPS

(***************************************************************************)
(* Arithmetic of the circular space.                                       *)

(* There are sequence numbers, more than half of the space holds.          *)
LEMMA SeqCountPos == SeqCount \in Nat \ {0} /\ HalfSeq < SeqCount
  BY HalfSeqAssumption DEF SeqCount

(* Whole turns do not show on the wire.                                    *)
LEMMA WireOfTurns ==
    ASSUME NEW q \in Int, NEW r \in SeqNum
    PROVE  Wire(q * SeqCount + r) = r
  <1> DEFINE m == SeqCount
  <1>1. m \in Nat \ {0} /\ r \in 0 .. m - 1
    BY SeqCountPos DEF SeqNum
  <1> HIDE DEF m
  <1>2. (q * m + r) % m = r
    BY <1>1, Z3
  <1> QED
    BY <1>2 DEF Wire, m

(* Every number is so many turns and what travels of it.                   *)
LEMMA WireIsSeqNum ==
    ASSUME NEW i \in Int
    PROVE  /\ Wire(i) \in SeqNum /\ Wire(i) \in Int
           /\ \E q \in Int : i = q * SeqCount + Wire(i)
  <1> DEFINE m == SeqCount
  <1>1. m \in Nat \ {0}
    BY SeqCountPos
  <1> HIDE DEF m
  <1>2. i % m \in 0 .. m - 1 /\ (i \div m) \in Int /\ i = (i \div m) * m + (i % m)
    BY <1>1, Z3
  <1> QED
    BY <1>2 DEF Wire, SeqNum, m

(* Masked subtraction gives the distance of two numbers less than half the *)
(* space apart, ahead or behind.                                           *)
LEMMA WireDistance ==
    ASSUME NEW i \in Nat, NEW j \in Nat, j - HalfSeq <= i, i < j + HalfSeq
    PROVE  SeqSub(Wire(i), Wire(j)) = IF i >= j THEN i - j ELSE i - j + SeqCount
  <1> DEFINE a == Wire(i)
             b == Wire(j)
             m == SeqCount
             d == IF i >= j THEN i - j ELSE i - j + m
  <1>1. PICK p \in Int : i = p * m + a
    BY WireIsSeqNum
  <1>2. PICK q \in Int : j = q * m + b
    BY WireIsSeqNum
  <1>3. a \in Int /\ b \in Int /\ m \in Int /\ d \in SeqNum /\ (d = i - j \/ d = i - j + m)
    BY WireIsSeqNum, HalfSeqAssumption DEF SeqCount, SeqNum
  <1>4. Wire((q - p) * m + d) = d /\ Wire((q - p - 1) * m + d) = d
    <2>1. q - p \in Int /\ q - p - 1 \in Int
      OBVIOUS
    <2> QED
      BY <1>3, <2>1, WireOfTurns, Zenon
  <1> HIDE DEF a, b, m, d
  <1>5. /\ d \in Int /\ (q - p) * m = q * m - p * m
        /\ (q - p - 1) * m = q * m - p * m - m
    BY <1>3, Z3 DEF SeqNum
  <1>6. a - b = (q - p) * m + d \/ a - b = (q - p - 1) * m + d
    BY <1>1, <1>2, <1>3, <1>5
  <1>7. Wire(a - b) = d
    BY <1>4, <1>6
  <1> QED
    BY <1>7 DEF SeqSub, Wire, a, b, d, m

(* Advancing a wrapped number is advancing the number, then wrapping it.   *)
LEMMA WireAdd ==
    ASSUME NEW i \in Nat, NEW n \in Nat
    PROVE  Wire(Wire(i) + n) = Wire(i + n)
  <1> DEFINE a == Wire(i)
             b == Wire(a + n)
             m == SeqCount
  <1>1. PICK p \in Int : i = p * m + a
    BY WireIsSeqNum
  <1>2. PICK q \in Int : a + n = q * m + b
    BY WireIsSeqNum
  <1>3. a \in Int /\ b \in Int /\ b \in SeqNum /\ m \in Int
    BY WireIsSeqNum, SeqCountPos
  <1>4. Wire((p + q) * m + b) = b
    <2>1. p + q \in Int
      OBVIOUS
    <2> QED
      BY <1>3, <2>1, WireOfTurns, Zenon
  <1> HIDE DEF a, b, m
  <1>5. (p + q) * m = p * m + q * m
    BY <1>3, Z3
  <1>6. i + n = (p + q) * m + b
    BY <1>1, <1>2, <1>3, <1>5
  <1> QED
    BY <1>4, <1>6 DEF a, b

(* A sequence number stands for itself.                                    *)
LEMMA WireOfNumber ==
    ASSUME NEW n \in SeqNum
    PROVE  Wire(n) = n
  <1>1. 0 * SeqCount + n = n
    BY SeqCountPos DEF SeqNum
  <1>2. Wire(0 * SeqCount + n) = n
    BY WireOfTurns
  <1> QED
    BY <1>1, <1>2

----------------------------------------------------------------------------
(* Datagram numbers are the whole numbers 0, 1, ... from FirstSeq on, cut  *)
(* to their width.                                                         *)
Numbered ==
    /\ nextSeq = Wire(FirstSeq + nth)
    /\ \A s \in DOMAIN history : s = Wire(FirstSeq + history[s].nth)

(* From a cut to the first acknowledgement of something sent after it, the *)
(* controller remembers that it has backed off, and where.                 *)
CutRemembered ==
    cutAt # Never /\ ~progress => backedOff /\ nextBlock = Wire(FirstSeq + cutAt)

IInv == TypeOK /\ RecoversBySlowStart /\ Numbered /\ CutRemembered

(* What slow start and congestion avoidance add is a part of an MTU.       *)
LEMMA Increment ==
    ASSUME NEW c \in Nat \ {0}
    PROVE  (Mtu * Mtu) \div c \in Nat
  <1>1. Mtu * Mtu \in Nat
    BY CongestionAssumption
  <1> DEFINE m == Mtu * Mtu
  <1>2. m \in Nat
    BY <1>1
  <1> HIDE DEF m
  <1>3. m \div c \in Nat
    BY <1>2, Z3
  <1> QED
    BY <1>3 DEF m

LEMMA Halves == ASSUME NEW n \in Nat PROVE Half(n) \in Nat
  BY Z3 DEF Half

(* ... and no more than one.                                               *)
LEMMA IncrementBound ==
    ASSUME NEW m \in Nat \ {0}, NEW c \in Nat, c >= m
    PROVE  (m * m) \div c <= m
  <1> DEFINE q == (m * m) \div c
  <1>1. m * m \in Nat /\ c \in Nat \ {0}
    BY Z3
  <1> DEFINE n == m * m
  <1>2. q \in Nat /\ c * q <= n
    <2> HIDE DEF n
    <2>1. n \in Nat /\ c \in Nat \ {0}
      BY <1>1 DEF n
    <2>2. (n \div c) \in Nat /\ c * (n \div c) <= n
      BY <2>1, Z3
    <2> QED
      BY <2>2 DEF n
  <1> HIDE DEF q
  <1>3. SUFFICES ASSUME q >= m + 1 PROVE FALSE
    BY <1>2 DEF q
  <1>4. c * q >= m * (m + 1)
    BY <1>2, <1>3, Z3
  <1>5. m * (m + 1) = m * m + m
    BY Z3
  <1> QED
    BY <1>1, <1>2, <1>4, <1>5

(* With a threshold, slow start ends one MTU beyond it.                    *)
LEMMA SlowStartBound ==
    ASSUME TypeOK, ssThresh >= Mtu, SlowStart
    PROVE  cwnd' <= ssThresh + Mtu
  <1>1. /\ cwnd \in Nat /\ ssThresh \in Nat /\ cwnd >= Mtu /\ Mtu \in Nat \ {0}
        /\ cwnd + Mtu \in Nat \ {0} /\ cwnd + Mtu >= Mtu
    BY CongestionAssumption DEF TypeOK
  <1> DEFINE d == (Mtu * Mtu) \div (cwnd + Mtu)
  <1>2. d \in Nat /\ d <= Mtu
    BY <1>1, Increment, IncrementBound
  <1>3. cwnd' = IF ssThresh > 0 /\ cwnd + Mtu > ssThresh THEN ssThresh + d ELSE cwnd + Mtu
    BY DEF SlowStart
  <1> HIDE DEF d
  <1> QED
    BY <1>1, <1>2, <1>3

LEMMA MaxOfAtLeast ==
    ASSUME NEW a \in Nat, NEW b \in Nat
    PROVE  MaxOf(a, b) \in Nat /\ MaxOf(a, b) >= b
  BY DEF MaxOf

(* Acknowledgements never shrink the window.                               *)
LEMMA AckGrows ==
    ASSUME TypeOK, NEW s \in DOMAIN history, OnAck(s)
    PROVE  cwnd' \in Nat /\ cwnd' >= cwnd
  <1>1. cwnd \in Nat /\ ssThresh \in Nat /\ cwnd >= Mtu /\ Mtu \in Nat \ {0}
    BY CongestionAssumption DEF TypeOK
  <1>2. cwnd + Mtu \in Nat \ {0} /\ cwnd \in Nat \ {0}
    BY <1>1
  <1>3. (Mtu * Mtu) \div (cwnd + Mtu) \in Nat /\ (Mtu * Mtu) \div cwnd \in Nat
    BY <1>2, Increment
  <1> DEFINE d == (Mtu * Mtu) \div (cwnd + Mtu)
             e == (Mtu * Mtu) \div cwnd
  <1>4. d \in Nat /\ e \in Nat
    BY <1>3
  <1>5. CASE SlowStart /\ InSlowStart
    <2>1. cwnd' = IF ssThresh > 0 /\ cwnd + Mtu > ssThresh THEN ssThresh + d ELSE cwnd + Mtu
      BY <1>5 DEF SlowStart
    <2>2. cwnd <= ssThresh \/ ssThresh = 0
      BY <1>5 DEF InSlowStart
    <2> HIDE DEF d, e
    <2> QED
      BY <1>1, <1>4, <2>1, <2>2
  <1>6. ASSUME NEW b \in BOOLEAN, Avoid(b)
        PROVE  cwnd' \in Nat /\ cwnd' >= cwnd
    <2>1. cwnd' = IF b THEN cwnd + e ELSE cwnd
      BY <1>6 DEF Avoid
    <2> HIDE DEF d, e
    <2> QED
      BY <1>1, <1>4, <2>1
  <1>7. SeqGreaterThan(s, nextBlock) \in BOOLEAN
    BY DEF SeqGreaterThan
  <1> QED
    BY <1>1, <1>5, <1>6, <1>7 DEF OnAck

(* A datagram sent before the cut does not end the period the cut began.   *)
LEMMA OldFlight ==
    ASSUME NEW i \in Nat, NEW j \in 0 .. MaxDatagrams, i < j
    PROVE  ~SeqGreaterThan(Wire(FirstSeq + i), Wire(FirstSeq + j))
  <1>1. /\ FirstSeq \in Nat /\ MaxDatagrams \in Nat /\ MaxDatagrams < HalfSeq
        /\ HalfSeq \in Nat
    BY CongestionAssumption, HalfSeqAssumption DEF SeqNum, SeqCount
  <1>2. SeqSub(Wire(FirstSeq + i), Wire(FirstSeq + j)) = i - j + SeqCount
    BY <1>1, WireDistance
  <1> QED
    BY <1>1, <1>2 DEF SeqGreaterThan, SeqCount

----------------------------------------------------------------------------
(* One step.                                                               *)

LEMMA HandleAckStep ==
    ASSUME IInv, HandleAck
    PROVE  IInv' /\ cwnd' >= cwnd
  <1>1. PICK s \in DOMAIN history :
            /\ OnAck(s)
            /\ history' = Restrict(history, DOMAIN history \ {s})
            /\ progress' = (progress \/ (history[s].continuous /\ history[s].nth >= cutAt))
            /\ UNCHANGED <<nextSeq, waiting, nth, cutAt, cutFrom>>
    BY DEF HandleAck
  <1>2. cwnd' \in Nat /\ cwnd' >= cwnd
    BY <1>1, AckGrows DEF IInv
  <1>3. /\ DOMAIN history' = DOMAIN history \ {s}
        /\ \A t \in DOMAIN history' : history'[t] = history[t]
    BY <1>1 DEF Restrict
  <1>4. history[s].continuous \in BOOLEAN /\ history[s].nth \in 0 .. nth - 1
    BY DEF IInv, TypeOK
  <1>5. /\ ssThresh' = ssThresh
        /\ nextBlock' \in {nextBlock, nextSeq}
        /\ backedOff' \in BOOLEAN /\ (backedOff' => backedOff)
        /\ continuous' \in BOOLEAN
    <2>1. CASE ~history[s].continuous
      <3>1. /\ UNCHANGED <<ssThresh, nextBlock, backedOff>> /\ continuous' = FALSE
        BY <1>1, <2>1 DEF OnAck
      <3>2. backedOff \in BOOLEAN
        BY DEF IInv, TypeOK
      <3> QED
        BY <3>1, <3>2
    <2>2. CASE history[s].continuous
      <3>1. /\ ssThresh' = ssThresh /\ continuous' = TRUE
            /\ nextBlock' \in {nextBlock, nextSeq}
            /\ backedOff' = (backedOff /\ ~SeqGreaterThan(s, nextBlock))
        BY <1>1, <2>2 DEF OnAck
      <3>2. backedOff' \in BOOLEAN /\ (backedOff' => backedOff)
        BY <3>1, Zenon
      <3> QED
        BY <3>1, <3>2
    <2> QED
      BY <1>4, <2>1, <2>2
  <1>6. progress' \in BOOLEAN /\ (progress => progress')
    BY <1>1, <1>4 DEF IInv, TypeOK
  <1>7. TypeOK'
    <2>1. cwnd' >= Mtu
      BY <1>2, CongestionAssumption DEF IInv, TypeOK
    <2>2. nextBlock' \in SeqNum
      BY <1>5 DEF IInv, TypeOK
    <2>3. /\ DOMAIN history' \subseteq SeqNum
          /\ \A t \in DOMAIN history' :
                history'[t] \in [continuous : BOOLEAN, nth : 0 .. nth' - 1]
      BY <1>1, <1>3 DEF IInv, TypeOK
    <2> QED
      BY <1>1, <1>2, <1>5, <1>6, <2>1, <2>2, <2>3 DEF IInv, TypeOK
  <1>a. ASSUME cutAt' # Never, ~progress', history[s].continuous
        PROVE  ~SeqGreaterThan(s, nextBlock)
    <2>1. cutAt # Never /\ ~progress /\ backedOff /\ nextBlock = Wire(FirstSeq + cutAt)
      BY <1>1, <1>6, <1>a DEF IInv, CutRemembered
    <2>2. history[s].nth < cutAt /\ cutAt \in 0 .. nth /\ nth \in 0 .. MaxDatagrams
      BY <1>1, <1>4, <1>a, <2>1 DEF IInv, TypeOK
    <2>3. cutAt \in 0 .. MaxDatagrams /\ history[s].nth \in Nat
      BY <1>4, <2>2, CongestionAssumption
    <2> QED
      BY <2>1, <2>2, <2>3, OldFlight DEF IInv, Numbered
  <1>8. RecoversBySlowStart'
    <2> SUFFICES ASSUME cutAt' # Never, ~progress'
                 PROVE  ssThresh' = MaxOf(Half(cutFrom'), Mtu) /\ cwnd' <= ssThresh' + Mtu
      BY DEF RecoversBySlowStart
    <2>1. /\ ssThresh = MaxOf(Half(cutFrom), Mtu) /\ cwnd <= ssThresh + Mtu
          /\ cutFrom' = cutFrom /\ cutFrom \in Nat
      BY <1>1, <1>6 DEF IInv, TypeOK, RecoversBySlowStart
    <2>2. ssThresh >= Mtu
      BY <2>1, Halves, MaxOfAtLeast, CongestionAssumption
    <2>3. cwnd' = cwnd \/ SlowStart
      <3>1. CASE history[s].continuous
        BY <1>1, <1>a, <3>1 DEF OnAck, Avoid
      <3>2. CASE ~history[s].continuous
        BY <1>1, <3>2 DEF OnAck
      <3> QED
        BY <3>1, <3>2
    <2>4. cwnd' <= ssThresh + Mtu
      BY <2>1, <2>2, <2>3, SlowStartBound DEF IInv
    <2> QED
      BY <1>5, <2>1, <2>4
  <1>9. Numbered'
    BY <1>1, <1>3 DEF IInv, Numbered
  <1>10. CutRemembered'
    <2> SUFFICES ASSUME cutAt' # Never, ~progress'
                 PROVE  backedOff' /\ nextBlock' = Wire(FirstSeq + cutAt')
      BY DEF CutRemembered
    <2>1. cutAt # Never /\ ~progress /\ backedOff /\ nextBlock = Wire(FirstSeq + cutAt)
      BY <1>1, <1>6 DEF IInv, CutRemembered
    <2>2. CASE ~history[s].continuous
      BY <1>1, <2>1, <2>2 DEF OnAck
    <2>3. CASE history[s].continuous
      <3>1. ~SeqGreaterThan(s, nextBlock)
        BY <1>a, <2>3
      <3> QED
        BY <1>1, <2>1, <2>3, <3>1 DEF OnAck
    <2> QED
      BY <1>4, <2>2, <2>3
  <1> QED
    BY <1>2, <1>7, <1>8, <1>9, <1>10 DEF IInv

LEMMA HandleNakStep ==
    ASSUME IInv, HandleNak
    PROVE  IInv' /\ cwnd' = cwnd
  <1>1. /\ cwnd' = cwnd /\ UNCHANGED <<nextBlock, backedOff, continuous, traffic, cuts>>
        /\ ssThresh' = IF continuous /\ ~backedOff THEN Half(cwnd) ELSE ssThresh
    BY DEF HandleNak, OnNak
  <1>2. ssThresh' \in Nat /\ (backedOff => ssThresh' = ssThresh)
    BY <1>1, Halves DEF IInv, TypeOK
  <1>3. TypeOK'
    BY <1>1, <1>2 DEF IInv, TypeOK, traffic, cuts
  <1>4. RecoversBySlowStart'
    BY <1>1, <1>2 DEF IInv, RecoversBySlowStart, CutRemembered, cuts
  <1> QED
    BY <1>1, <1>3, <1>4 DEF IInv, Numbered, CutRemembered, traffic, cuts

(* A retransmission cuts the window only if it has not been cut since the  *)
(* last period began.                                                      *)
LEMMA ResendStep ==
    ASSUME IInv, OnResend \/ UNCHANGED <<cwnd, ssThresh, nextBlock, backedOff, cuts>>
    PROVE  /\ cwnd' \in Nat /\ cwnd' >= Mtu /\ ssThresh' \in Nat
           /\ nextBlock' \in SeqNum /\ backedOff' \in BOOLEAN
           /\ cutAt' \in {cutAt, nth} /\ progress' \in BOOLEAN
           /\ cutFrom' \in Nat /\ RecoversBySlowStart'
           /\ cutAt' # Never /\ ~progress' =>
                 backedOff' /\ nextBlock' = Wire(FirstSeq + cutAt')
           /\ cwnd' < cwnd => cutAt = Never \/ progress
  <1>1. CASE OnResend /\ Cuts
    <2>1. Mtu \in Nat /\ Half(cwnd) \in Nat
      BY Halves, CongestionAssumption DEF IInv, TypeOK
    <2>2. /\ ssThresh' = MaxOf(Half(cwnd), Mtu) /\ cwnd' = Mtu
          /\ nextBlock' = nextSeq /\ backedOff' = TRUE
          /\ cutAt' = nth /\ progress' = FALSE /\ cutFrom' = cwnd
      BY <1>1 DEF OnResend
    <2>3. ssThresh' \in Nat /\ cutFrom' \in Nat /\ RecoversBySlowStart'
      <3>1. MaxOf(Half(cwnd), Mtu) \in Nat /\ cwnd \in Nat
        BY <2>1, MaxOfAtLeast DEF IInv, TypeOK
      <3>2. cwnd' <= ssThresh' + Mtu
        BY <2>1, <2>2, <3>1
      <3>3. ssThresh' = MaxOf(Half(cutFrom'), Mtu)
        BY <2>2
      <3> QED
        BY <2>2, <3>1, <3>2, <3>3 DEF RecoversBySlowStart
    <2>4. cutAt = Never \/ progress
      BY <1>1 DEF Cuts, IInv, CutRemembered
    <2>5. nextBlock' \in SeqNum /\ nextBlock' = Wire(FirstSeq + cutAt')
      BY <2>2 DEF IInv, TypeOK, Numbered
    <2>6. cwnd' \in Nat /\ cwnd' >= Mtu
      BY <2>1, <2>2
    <2>7. progress' \in BOOLEAN /\ backedOff' \in BOOLEAN /\ cutAt' \in {cutAt, nth}
      BY <2>2
    <2> QED
      BY <2>3, <2>4, <2>5, <2>6, <2>7, <2>2, Zenon
  <1>2. CASE UNCHANGED <<cwnd, ssThresh, nextBlock, backedOff, cuts>>
    BY <1>2 DEF IInv, TypeOK, RecoversBySlowStart, CutRemembered, cuts
  <1> QED
    BY <1>1, <1>2 DEF OnResend

LEMMA UpdateStep ==
    ASSUME IInv, Update
    PROVE  IInv' /\ (cwnd' < cwnd => cutAt = Never \/ progress)
  <1>1. IsFiniteSet(DOMAIN history)
    <2>1. IsFiniteSet(SeqNum)
      BY FS_Interval, SeqCountPos DEF SeqNum
    <2> QED
      BY <2>1, FS_Subset DEF IInv, TypeOK
  <1>2. Cardinality(DOMAIN history) \in Nat
    BY <1>1, FS_CardinalityType
  <1>3. PICK r \in 0 .. Cardinality(DOMAIN history), w \in waiting .. MaxWaiting :
        \E n \in 0 .. w :
          LET fresh == {Wire(nextSeq + i) : i \in 0 .. r + n - 1}
              record(i) == [continuous |-> IF i < r THEN i + 1 < r \/ w > 0
                                           ELSE i - r + 1 < w,
                            nth |-> nth + i]
          IN  /\ r + n > 0 /\ nth + r + n <= MaxDatagrams
              /\ OnResend \/ UNCHANGED <<cwnd, ssThresh, nextBlock, backedOff, cuts>>
              /\ continuous' = IF w = 0 THEN continuous ELSE AskedLast(w, n) > 1
              /\ waiting' = w - n
              /\ history' = [s \in DOMAIN history \cup fresh |->
                                IF s \in fresh THEN record(SeqSub(s, nextSeq))
                                ELSE history[s]]
              /\ nextSeq' = Advance(r + n)
              /\ nth' = nth + r + n
    BY DEF Update
  <1>4. PICK n \in 0 .. w :
          LET fresh == {Wire(nextSeq + i) : i \in 0 .. r + n - 1}
              record(i) == [continuous |-> IF i < r THEN i + 1 < r \/ w > 0
                                           ELSE i - r + 1 < w,
                            nth |-> nth + i]
          IN  /\ r + n > 0 /\ nth + r + n <= MaxDatagrams
              /\ OnResend \/ UNCHANGED <<cwnd, ssThresh, nextBlock, backedOff, cuts>>
              /\ continuous' = IF w = 0 THEN continuous ELSE AskedLast(w, n) > 1
              /\ waiting' = w - n
              /\ history' = [s \in DOMAIN history \cup fresh |->
                                IF s \in fresh THEN record(SeqSub(s, nextSeq))
                                ELSE history[s]]
              /\ nextSeq' = Advance(r + n)
              /\ nth' = nth + r + n
    BY <1>3
  <1> DEFINE m == r + n
             fresh == {Wire(nextSeq + i) : i \in 0 .. m - 1}
  <1>5. /\ r \in Nat /\ w \in Nat /\ n \in Nat /\ m \in Nat
        /\ waiting \in Nat /\ MaxWaiting \in Nat /\ w <= MaxWaiting /\ n <= w
        /\ nth \in Nat /\ MaxDatagrams \in Nat /\ nth + m <= MaxDatagrams
        /\ nth' = nth + m
    BY <1>2, <1>4, CongestionAssumption DEF IInv, TypeOK
  <1>6. FirstSeq \in Nat /\ nextSeq \in Nat /\ nextSeq = Wire(FirstSeq + nth)
    BY CongestionAssumption, SeqCountPos DEF IInv, TypeOK, Numbered, SeqNum
  <1>7. ASSUME NEW i \in 0 .. m - 1
        PROVE  /\ Wire(nextSeq + i) = Wire(FirstSeq + (nth + i))
               /\ SeqSub(Wire(nextSeq + i), nextSeq) = i
    <2>1. i \in Nat /\ FirstSeq + nth \in Nat
      BY <1>5, <1>6
    <2>2. Wire(Wire(FirstSeq + nth) + i) = Wire(FirstSeq + nth + i)
      BY <2>1, WireAdd
    <2>3. Wire(nextSeq + i) = Wire(FirstSeq + (nth + i))
      BY <1>5, <1>6, <2>1, <2>2
    <2>4. i < HalfSeq /\ HalfSeq \in Nat
      BY <1>5, CongestionAssumption, HalfSeqAssumption
    <2>5. FirstSeq + nth + i \in Nat /\ FirstSeq + nth - HalfSeq <= FirstSeq + nth + i
          /\ FirstSeq + nth + i < FirstSeq + nth + HalfSeq
          /\ FirstSeq + nth + i >= FirstSeq + nth
      BY <1>5, <1>6, <2>1, <2>4
    <2>6. SeqSub(Wire(FirstSeq + nth + i), Wire(FirstSeq + nth)) = (FirstSeq + nth + i) - (FirstSeq + nth)
      <3> DEFINE x == FirstSeq + nth + i
                 y == FirstSeq + nth
      <3>1. x \in Nat /\ y \in Nat /\ y - HalfSeq <= x /\ x < y + HalfSeq /\ x >= y
        BY <2>1, <2>4, <2>5
      <3> HIDE DEF x, y
      <3>2. SeqSub(Wire(x), Wire(y)) = x - y
        BY <3>1, WireDistance
      <3> QED
        BY <3>2 DEF x, y
    <2>7. SeqSub(Wire(nextSeq + i), nextSeq) = i
      BY <1>5, <1>6, <2>1, <2>2, <2>6
    <2> QED
      BY <2>3, <2>7
  <1>8. /\ DOMAIN history' = DOMAIN history \cup fresh
        /\ \A s \in DOMAIN history \ fresh : history'[s] = history[s]
    BY <1>4
  <1>9. ASSUME NEW i \in 0 .. m - 1
        PROVE  /\ history'[Wire(nextSeq + i)] \in [continuous : BOOLEAN, nth : 0 .. nth' - 1]
               /\ history'[Wire(nextSeq + i)].nth = nth + i
    <2>1. history'[Wire(nextSeq + i)] =
              [continuous |-> IF i < r THEN i + 1 < r \/ w > 0 ELSE i - r + 1 < w,
               nth |-> nth + i]
      BY <1>4, <1>7
    <2>2. (IF i < r THEN i + 1 < r \/ w > 0 ELSE i - r + 1 < w) \in BOOLEAN
      <3>1. CASE i < r
        <4>1. (i + 1 < r) \in BOOLEAN /\ (w > 0) \in BOOLEAN
          BY <1>5
        <4> QED
          BY <3>1, <4>1, Zenon
      <3>2. CASE ~(i < r)
        <4>1. (i - r + 1 < w) \in BOOLEAN
          BY <1>5
        <4> QED
          BY <3>2, <4>1, Zenon
      <3> QED
        BY <3>1, <3>2
    <2>3. nth + i \in 0 .. nth' - 1
      BY <1>5
    <2> QED
      BY <2>1, <2>2, <2>3
  <1> HIDE DEF m
  <1>10. fresh \subseteq SeqNum
    BY <1>5, <1>6, WireIsSeqNum
  <1>11. nextSeq' = Wire(FirstSeq + nth') /\ nextSeq' \in SeqNum
    <2>0. FirstSeq + nth \in Nat
      BY <1>5, <1>6
    <2>1. Wire(Wire(FirstSeq + nth) + m) = Wire(FirstSeq + nth + m)
      BY <1>5, <2>0, WireAdd
    <2>2. nextSeq' = Wire(nextSeq + m)
      BY <1>4 DEF m, Advance
    <2>3. nextSeq' = Wire(FirstSeq + nth')
      BY <1>5, <1>6, <2>1, <2>2
    <2> QED
      BY <1>5, <1>6, <2>3, WireIsSeqNum
  <1>12. continuous' \in BOOLEAN /\ waiting' \in 0 .. MaxWaiting
    <2>1. waiting' = w - n
      BY <1>4
    <2>2. continuous' = IF w = 0 THEN continuous ELSE AskedLast(w, n) > 1
      BY <1>4
    <2>3. (AskedLast(w, n) > 1) \in BOOLEAN /\ continuous \in BOOLEAN
      <3>1. AskedLast(w, n) \in Int
        BY <1>5 DEF AskedLast
      <3> QED
        BY <3>1 DEF IInv, TypeOK
    <2>4. continuous' \in BOOLEAN
      BY <2>2, <2>3, Zenon
    <2> QED
      BY <1>5, <2>1, <2>4
  <1>13. /\ cwnd' \in Nat /\ cwnd' >= Mtu /\ ssThresh' \in Nat
         /\ nextBlock' \in SeqNum /\ backedOff' \in BOOLEAN
         /\ cutAt' \in {cutAt, nth} /\ progress' \in BOOLEAN
         /\ cutFrom' \in Nat /\ RecoversBySlowStart'
         /\ cutAt' # Never /\ ~progress' =>
               backedOff' /\ nextBlock' = Wire(FirstSeq + cutAt')
         /\ cwnd' < cwnd => cutAt = Never \/ progress
    BY <1>4, ResendStep
  <1>14. ASSUME NEW s \in DOMAIN history'
         PROVE  /\ history'[s] \in [continuous : BOOLEAN, nth : 0 .. nth' - 1]
                /\ s = Wire(FirstSeq + history'[s].nth)
    <2>1. CASE s \in fresh
      BY <1>7, <1>9, <2>1
    <2>2. CASE s \notin fresh
      <3>1. s \in DOMAIN history /\ history'[s] = history[s]
        BY <1>8, <2>2
      <3>2. history[s] \in [continuous : BOOLEAN, nth : 0 .. nth - 1]
            /\ s = Wire(FirstSeq + history[s].nth)
        BY <3>1 DEF IInv, TypeOK, Numbered
      <3> QED
        BY <1>5, <3>1, <3>2
    <2> QED
      BY <2>1, <2>2
  <1>15. TypeOK'
    <2>1. nth' \in 0 .. MaxDatagrams /\ cutAt' \in 0 .. nth' \cup {Never}
      BY <1>5, <1>13 DEF IInv, TypeOK
    <2>2. DOMAIN history' \subseteq SeqNum
      BY <1>8, <1>10 DEF IInv, TypeOK
    <2> HIDE DEF fresh
    <2> QED
      BY <1>11, <1>12, <1>13, <1>14, <2>1, <2>2 DEF TypeOK
  <1>16. RecoversBySlowStart'
    BY <1>13
  <1>17. Numbered'
    BY <1>11, <1>14 DEF Numbered
  <1>18. CutRemembered'
    BY <1>13 DEF CutRemembered
  <1> QED
    BY <1>13, <1>15, <1>16, <1>17, <1>18 DEF IInv

LEMMA InitIInv == Init => IInv
  <1> SUFFICES ASSUME Init PROVE IInv
    OBVIOUS
  <1>1. /\ FirstSeq \in 0 .. SeqCount - 1 /\ SeqCount \in Nat \ {0}
        /\ Mtu \in Nat \ {0} /\ MaxWaiting \in Nat /\ MaxDatagrams \in Nat
    BY CongestionAssumption, SeqCountPos DEF SeqNum
  <1>2. FirstSeq + 0 = FirstSeq
    BY <1>1
  <1>3. Wire(FirstSeq) = FirstSeq
    BY CongestionAssumption, WireOfNumber
  <1>4. FirstSeq = Wire(FirstSeq + 0)
    BY <1>2, <1>3
  <1>5. DOMAIN history = {}
    BY DEF Init
  <1>6. TypeOK
    <2>1. /\ cwnd = Mtu /\ ssThresh = 0 /\ nextSeq = FirstSeq /\ nextBlock = 0
          /\ backedOff = FALSE /\ continuous = FALSE
          /\ waiting = 0 /\ nth = 0 /\ cutAt = Never /\ progress = FALSE
          /\ cutFrom = 0
      BY DEF Init
    <2>2. FirstSeq \in SeqNum /\ 0 \in SeqNum
      BY <1>1 DEF SeqNum
    <2>3. /\ cwnd \in Nat /\ cwnd >= Mtu /\ ssThresh \in Nat
          /\ waiting \in 0 .. MaxWaiting /\ nth \in 0 .. MaxDatagrams
          /\ cutAt \in 0 .. nth \cup {Never} /\ cutFrom \in Nat
      BY <1>1, <2>1
    <2>4. backedOff \in BOOLEAN /\ continuous \in BOOLEAN /\ progress \in BOOLEAN
      BY <2>1
    <2> QED
      BY <1>5, <2>1, <2>2, <2>3, <2>4 DEF TypeOK
  <1> QED
    BY <1>1, <1>4, <1>5, <1>6
       DEF Init, IInv, RecoversBySlowStart, Numbered, CutRemembered

LEMMA NextStep ==
    ASSUME IInv, [Next]_vars
    PROVE  IInv' /\ (cwnd' < cwnd => cutAt = Never \/ progress)
  <1>0. cwnd \in Nat
    BY DEF IInv, TypeOK
  <1>1. CASE HandleAck
    <2>1. IInv' /\ cwnd' >= cwnd
      BY <1>1, HandleAckStep
    <2>2. cwnd' \in Nat
      BY <2>1 DEF IInv, TypeOK
    <2> QED
      BY <1>0, <2>1, <2>2
  <1>2. CASE HandleNak
    BY <1>0, <1>2, HandleNakStep
  <1>3. CASE Update
    BY <1>3, UpdateStep
  <1>4. CASE UNCHANGED vars
    BY <1>0, <1>4 DEF vars, window, traffic, cuts, IInv, TypeOK, RecoversBySlowStart,
                      Numbered, CutRemembered
  <1> QED
    BY <1>1, <1>2, <1>3, <1>4 DEF Next

LEMMA IInvInvariant == Spec => []IInv
  <1>1. IInv /\ [Next]_vars => IInv'
    BY NextStep
  <1> QED
    BY <1>1, InitIInv, PTL DEF Spec

(* The window holds a datagram at least, and the numbers of the controller *)
(* and of the recorded datagrams keep their width.                         *)
THEOREM TypeCorrect == Spec => []TypeOK
  <1>1. IInv => TypeOK
    BY DEF IInv
  <1> QED
    BY <1>1, IInvInvariant, PTL

(* From a cut to the first acknowledgement of something sent after it, the *)
(* threshold is half the window that on_resend cut, and the window stays   *)
(* within an MTU of it.                                                    *)
THEOREM AlwaysRecovers == Spec => []RecoversBySlowStart
  <1>1. IInv => RecoversBySlowStart
    BY DEF IInv
  <1> QED
    BY <1>1, IInvInvariant, PTL

(* The window is not cut again before a datagram sent after the cut is     *)
(* acknowledged, wherever the numbers wrap.                                *)
THEOREM CutOncePerRoundTrip == Spec => OneCutPerRoundTrip
  <1>1. IInv /\ [Next]_vars => [cwnd' < cwnd => cutAt = Never \/ progress]_vars
    BY NextStep
  <1> QED
    BY <1>1, IInvInvariant, PTL DEF Spec, OneCutPerRoundTrip
=============================================================================
