------------------------ MODULE MessageWindowProofs ------------------------
(***************************************************************************)
(* The duplicate filter is correct for every size of the sequence space,   *)
(* every gap limit below half of it and any number of wrap-arounds.        *)
(***************************************************************************)
EXTENDS MessageWindow, SequenceTheorems, TLAPS

(***************************************************************************)
(* Arithmetic of the circular space.                                       *)

(* There are sequence numbers, more than half of the space holds.          *)
LEMMA SeqCountPos == SeqCount \in Nat \ {0} /\ HalfSeq < SeqCount
  BY HalfSeqAssumption DEF SeqCount

(* Whole turns do not show on the wire.                                    *)
LEMMA WireOfTurns ==
    ASSUME NEW q \in Int, NEW r \in SeqNum
    PROVE  Wire(q * SeqCount + r) = r
  <1> DEFINE m == SeqCount
  <1>1. m \in Nat \ {0} /\ r \in 0 .. m - 1
    BY SeqCountPos DEF SeqNum
  <1> HIDE DEF m
  <1>2. (q * m + r) % m = r
    BY <1>1, Z3
  <1> QED
    BY <1>2 DEF Wire, m

(* Every number is so many turns and what travels of it.                   *)
LEMMA WireIsSeqNum ==
    ASSUME NEW i \in Int
    PROVE  /\ Wire(i) \in SeqNum /\ Wire(i) \in Int
           /\ \E q \in Int : i = q * SeqCount + Wire(i)
  <1> DEFINE m == SeqCount
  <1>1. m \in Nat \ {0}
    BY SeqCountPos
  <1> HIDE DEF m
  <1>2. i % m \in 0 .. m - 1 /\ (i \div m) \in Int /\ i = (i \div m) * m + (i % m)
    BY <1>1, Z3
  <1> QED
    BY <1>2 DEF Wire, SeqNum, m

(* Masked subtraction gives the distance of two numbers less than half the *)
(* space apart, ahead or behind.                                           *)
LEMMA WireDistance ==
    ASSUME NEW i \in Nat, NEW j \in Nat, j - HalfSeq <= i, i < j + HalfSeq
    PROVE  SeqSub(Wire(i), Wire(j)) = IF i >= j THEN i - j ELSE i - j + SeqCount
  <1> DEFINE a == Wire(i)
             b == Wire(j)
             m == SeqCount
             d == IF i >= j THEN i - j ELSE i - j + m
  <1>1. PICK p \in Int : i = p * m + a
    BY WireIsSeqNum
  <1>2. PICK q \in Int : j = q * m + b
    BY WireIsSeqNum
  <1>3. a \in Int /\ b \in Int /\ m \in Int /\ d \in SeqNum /\ (d = i - j \/ d = i - j + m)
    BY WireIsSeqNum, HalfSeqAssumption DEF SeqCount, SeqNum
  <1>4. Wire((q - p) * m + d) = d /\ Wire((q - p - 1) * m + d) = d
    <2>1. q - p \in Int /\ q - p - 1 \in Int
      OBVIOUS
    <2> QED
      BY <1>3, <2>1, WireOfTurns, Zenon
  <1> HIDE DEF a, b, m, d
  <1>5. /\ d \in Int /\ (q - p) * m = q * m - p * m
        /\ (q - p - 1) * m = q * m - p * m - m
    BY <1>3, Z3 DEF SeqNum
  <1>6. a - b = (q - p) * m + d \/ a - b = (q - p - 1) * m + d
    BY <1>1, <1>2, <1>3, <1>5
  <1>7. Wire(a - b) = d
    BY <1>4, <1>6
  <1> QED
    BY <1>7 DEF SeqSub, Wire, a, b, d, m

(* Advancing a wrapped number is advancing the number, then wrapping it.   *)
LEMMA WireAdd ==
    ASSUME NEW i \in Nat, NEW n \in Nat
    PROVE  Wire(Wire(i) + n) = Wire(i + n)
  <1> DEFINE a == Wire(i)
             b == Wire(a + n)
             m == SeqCount
  <1>1. PICK p \in Int : i = p * m + a
    BY WireIsSeqNum
  <1>2. PICK q \in Int : a + n = q * m + b
    BY WireIsSeqNum
  <1>3. a \in Int /\ b \in Int /\ b \in SeqNum /\ m \in Int
    BY WireIsSeqNum, SeqCountPos
  <1>4. Wire((p + q) * m + b) = b
    <2>1. p + q \in Int
      OBVIOUS
    <2> QED
      BY <1>3, <2>1, WireOfTurns, Zenon
  <1> HIDE DEF a, b, m
  <1>5. (p + q) * m = p * m + q * m
    BY <1>3, Z3
  <1>6. i + n = (p + q) * m + b
    BY <1>1, <1>2, <1>3, <1>5
  <1> QED
    BY <1>4, <1>6 DEF a, b

(* A sequence number stands for itself.                                    *)
LEMMA WireOfNumber ==
    ASSUME NEW n \in SeqNum
    PROVE  Wire(n) = n
  <1>1. 0 * SeqCount + n = n
    BY SeqCountPos DEF SeqNum
  <1>2. Wire(0 * SeqCount + n) = n
    BY WireOfTurns
  <1> QED
    BY <1>1, <1>2

----------------------------------------------------------------------------
IInv == TypeOK /\ WindowMatchesHistory

(* The masked subtraction of check_and_mark measures the true distance of  *)
(* the number from the first missing one.                                  *)
LEMMA HoleDistance ==
    ASSUME IInv, NEW i \in Numbers, InLifetime(i)
    PROVE  /\ i \in Nat
           /\ Hole(i) = IF i >= low THEN i - low ELSE i - low + SeqCount
           /\ i < low <=> Hole(i) >= HalfSeq
  <1>1. i \in Nat /\ low \in Nat /\ base = Wire(low)
    BY NumbersAssumption DEF IInv, TypeOK, WindowMatchesHistory
  <1>2. Hole(i) = IF i >= low THEN i - low ELSE i - low + SeqCount
    BY <1>1, WireDistance DEF Hole, InLifetime
  <1> QED
    BY <1>1, <1>2, HalfSeqAssumption DEF InLifetime, SeqCount

(* What is left of the deque after n numbers have passed its front.        *)
LEMMA PassedWindow ==
    ASSUME NEW w \in Seq(BOOLEAN), NEW n \in 1 .. Len(w) + 1, Passes(w, n)
    PROVE  LET v == SubSeq(w, n + 1, Len(w))
           IN  /\ v \in Seq(BOOLEAN)
               /\ Len(v) = IF n <= Len(w) THEN Len(w) - n ELSE 0
               /\ \A k \in 1 .. Len(v) : v[k] = w[k + n]
               /\ Len(v) > 0 => ~v[1]
  <1> DEFINE v == SubSeq(w, n + 1, Len(w))
  <1>1. \A k \in n + 1 .. Len(w) : w[k] \in BOOLEAN
    OBVIOUS
  <1>2. /\ v \in Seq(BOOLEAN)
        /\ Len(v) = IF n + 1 <= Len(w) THEN Len(w) - (n + 1) + 1 ELSE 0
        /\ \A k \in 1 .. Len(w) - (n + 1) + 1 : v[k] = w[(n + 1) + k - 1]
    BY <1>1, SubSeqProperties, n + 1 \in Int, Len(w) \in Int
  <1>3. Len(v) = IF n <= Len(w) THEN Len(w) - n ELSE 0
    BY <1>2
  <1>4. \A k \in 1 .. Len(v) : v[k] = w[k + n]
    BY <1>2, <1>3
  <1>5. Len(v) > 0 => ~v[1]
    BY <1>3, <1>4 DEF Passes
  <1> QED
    BY <1>2, <1>3, <1>4, <1>5

(* Setting a flag of the deque changes that flag and nothing else.         *)
LEMMA FlagSet ==
    ASSUME NEW w \in Seq(BOOLEAN), NEW j \in 1 .. Len(w)
    PROVE  LET v == [w EXCEPT ![j] = TRUE]
           IN  /\ v \in Seq(BOOLEAN)
               /\ Len(v) = Len(w)
               /\ v[j]
               /\ \A k \in 1 .. Len(w) : k # j => v[k] = w[k]
  <1> DEFINE v == [w EXCEPT ![j] = TRUE]
  <1>1. v \in Seq(BOOLEAN) /\ Len(v) = Len(w)
    BY ExceptSeq, TRUE \in BOOLEAN
  <1> QED
    BY <1>1

(* A stretched deque keeps its flags, and of the new ones only the last is *)
(* set.                                                                    *)
LEMMA StretchedWindow ==
    ASSUME NEW w \in Seq(BOOLEAN), NEW h \in Nat, h >= Len(w)
    PROVE  /\ Stretched(w, h) \in Seq(BOOLEAN)
           /\ Len(Stretched(w, h)) = h + 1
           /\ \A k \in 1 .. h + 1 :
                 Stretched(w, h)[k] = IF k <= Len(w) THEN w[k] ELSE k = h + 1
  <1>1. ASSUME NEW k \in 1 .. h + 1
        PROVE  (IF k <= Len(w) THEN w[k] ELSE k = h + 1) \in BOOLEAN
    <2>1. CASE k <= Len(w)
      BY <2>1
    <2>2. CASE ~(k <= Len(w))
      BY <2>2, Zenon
    <2> QED
      BY <2>1, <2>2
  <1>2. Stretched(w, h) \in [1 .. h + 1 -> BOOLEAN]
    BY <1>1 DEF Stretched
  <1> QED
    BY <1>2 DEF Stretched

----------------------------------------------------------------------------
(* One step: the invariant is kept and the answer is the set's answer.     *)

(* A refusal changes nothing but the answer.                               *)
LEMMA RefuseStep ==
    ASSUME IInv, NEW i \in Numbers, Refuse(i),
           times[i] > 0 \/ ~Set!InReach(i)
    PROVE  IInv' /\ Set!Offer(i)
  <1>1. IInv'
    BY DEF IInv, TypeOK, WindowMatchesHistory, Refuse
  <1>2. ~(times[i] = 0 /\ Set!InReach(i))
    BY DEF IInv, TypeOK
  <1>3. (times[i] = 0 /\ Set!InReach(i)) = FALSE
    BY <1>2, Zenon
  <1>4. [times EXCEPT ![i] = times[i]] = times
    BY DEF IInv, TypeOK
  <1>5. Set!Offer(i)
    BY <1>3, <1>4, Zenon DEF Refuse, Set!Offer
  <1> QED
    BY <1>1, <1>5

(* A number the deque has not seen is accepted, inside the gap limit.      *)
LEMMA AcceptStep ==
    ASSUME IInv, NEW i \in Numbers, Accept(i),
           times[i] = 0, i <= low + MaxGap
    PROVE  /\ Set!Offer(i)
           /\ times' \in [Numbers -> Nat]
           /\ answer' \in [num : Numbers \cup {-1}, new : BOOLEAN]
           /\ \A n \in Numbers : times'[n] = IF n = i THEN 1 ELSE times[n]
  <1>1. \A m \in Numbers : m < i - MaxGap => times[m] > 0
    BY MaxGapAssumption, NumbersAssumption
       DEF IInv, TypeOK, WindowMatchesHistory
  <1>2. Set!Offer(i)
    BY <1>1 DEF Accept, Set!Offer, Set!InReach, IInv, TypeOK
  <1>3. /\ times' \in [Numbers -> Nat]
        /\ \A n \in Numbers : times'[n] = IF n = i THEN 1 ELSE times[n]
    BY DEF Accept, IInv, TypeOK
  <1>4. answer' \in [num : Numbers \cup {-1}, new : BOOLEAN]
    BY DEF Accept
  <1> QED
    BY <1>2, <1>3, <1>4

(* When the awaited number arrives, popping it and the set flags behind it *)
(* keeps the invariant, and the number is new to the set.                  *)
LEMMA ExpectedStep ==
    ASSUME IInv, NEW i \in Numbers, InLifetime(i), Expected(i)
    PROVE  IInv' /\ Set!Offer(i)
  <1>1. i = low /\ low \in Nat /\ window \in Seq(BOOLEAN)
    BY HoleDistance, HalfSeqAssumption DEF Expected, IInv, TypeOK, SeqCount, InLifetime
  <1>2. times[i] = 0 /\ i <= low + MaxGap
    BY <1>1, MaxGapAssumption DEF IInv, WindowMatchesHistory
  <1>3. Accept(i)
    BY DEF Expected
  <1>4. /\ Set!Offer(i)
        /\ times' \in [Numbers -> Nat]
        /\ answer' \in [num : Numbers \cup {-1}, new : BOOLEAN]
        /\ \A n \in Numbers : times'[n] = IF n = i THEN 1 ELSE times[n]
    BY <1>2, <1>3, AcceptStep
  <1>5. PICK n \in 1 .. Len(window) + 1 :
             /\ Passes(window, n)
             /\ window' = SubSeq(window, n + 1, Len(window))
             /\ base' = Wire(base + n)
             /\ low' = low + n
    BY DEF Expected
  <1>6. /\ window' \in Seq(BOOLEAN)
        /\ Len(window') = IF n <= Len(window) THEN Len(window) - n ELSE 0
        /\ \A k \in 1 .. Len(window') : window'[k] = window[k + n]
        /\ Len(window') > 0 => ~window'[1]
    BY <1>1, <1>5, PassedWindow
  <1>7. low' \in Nat /\ base' = Wire(low')
    BY <1>1, <1>5, WireAdd DEF IInv, WindowMatchesHistory
  <1>8. base' \in SeqNum
    BY <1>7, WireIsSeqNum
  <1> DEFINE L == Len(window)
             M == Len(window')
  <1>a. /\ low \in Nat /\ low' \in Nat /\ n \in Nat /\ L \in Nat /\ M \in Nat
        /\ n >= 1 /\ n <= L + 1 /\ low' = low + n
        /\ n <= L => M = L - n
        /\ n > L => M = 0 /\ L = 0 /\ n = 1
    <2>1. n >= 1 /\ (n = 1 \/ n <= L)
      BY <1>5, Zenon DEF Passes
    <2>2. low \in Nat /\ low' \in Nat /\ low' = low + n
      BY <1>1, <1>5, <1>7
    <2>3. L \in Nat /\ M \in Nat /\ n \in 1 .. L + 1
      BY <1>1, <1>6
    <2>4. M = IF n <= L THEN L - n ELSE 0
      BY <1>6, Zenon
    <2> HIDE DEF L, M
    <2> QED
      BY <2>1, <2>2, <2>3, <2>4
  <1>b. \A k \in 1 .. M : window'[k] = window[k + n]
    BY <1>6
  <1> HIDE DEF L, M
  <1>9. ASSUME NEW m \in Numbers
        PROVE  times'[m] = IF m < low' \/ (m < low' + M /\ window'[m - low' + 1])
                           THEN 1 ELSE 0
    <2>1. m \in Nat
      BY NumbersAssumption
    <2>2. /\ times'[m] = IF m = low THEN 1 ELSE times[m]
          /\ times[m] = IF m < low \/ (m < low + L /\ window[m - low + 1])
                        THEN 1 ELSE 0
      BY <1>1, <1>4 DEF IInv, WindowMatchesHistory, L
    <2>3. CASE m <= low
      BY <1>a, <2>1, <2>2, <2>3
    <2>4. CASE low < m /\ m < low'
      <3>1. m < low + L /\ m - low + 1 \in 2 .. n
        BY <1>a, <2>1, <2>4
      <3>2. window[m - low + 1]
        BY <1>5, <3>1 DEF Passes
      <3> QED
        BY <1>a, <2>1, <2>2, <2>4, <3>1, <3>2
    <2>5. CASE low' <= m /\ m < low' + M
      <3>1. m < low + L /\ m # low /\ ~(m < low)
        BY <1>a, <2>1, <2>5
      <3>2. m - low' + 1 \in 1 .. M /\ (m - low' + 1) + n = m - low + 1
        BY <1>a, <2>1, <2>5
      <3>3. window'[m - low' + 1] = window[m - low + 1]
        BY <1>b, <3>2
      <3>4. ~(m < low')
        BY <1>a, <2>1, <2>5
      <3> QED
        BY <2>2, <2>5, <3>1, <3>3, <3>4
    <2>6. CASE low' + M <= m
      <3>1. m # low /\ ~(m < low) /\ ~(m < low + L)
        BY <1>a, <2>1, <2>6
      <3>2. ~(m < low') /\ ~(m < low' + M)
        BY <1>a, <2>1, <2>6
      <3> QED
        BY <2>2, <3>1, <3>2
    <2> QED
      BY <1>a, <2>1, <2>3, <2>4, <2>5, <2>6
  <1>10. Len(window') <= MaxGap + 1
    BY <1>a, MaxGapAssumption DEF IInv, WindowMatchesHistory, L, M
  <1> QED
    BY <1>4, <1>6, <1>7, <1>8, <1>9, <1>10 DEF IInv, TypeOK, WindowMatchesHistory, M

(* A number inside the deque that was missing is new to the set, and       *)
(* setting its flag keeps the invariant.                                   *)
LEMMA FillHoleStep ==
    ASSUME IInv, NEW i \in Numbers, InLifetime(i), FillHole(i)
    PROVE  IInv' /\ Set!Offer(i)
  <1> DEFINE L == Len(window)
  <1>1. /\ low \in Nat /\ i \in Nat /\ L \in Nat /\ L <= MaxGap + 1
        /\ window \in Seq(BOOLEAN)
        /\ low < i /\ i < low + L /\ Hole(i) = i - low
    BY HoleDistance, HalfSeqAssumption, MaxGapAssumption
       DEF FillHole, IInv, TypeOK, WindowMatchesHistory, SeqCount
  <1>2. times[i] = 0 /\ i <= low + MaxGap
    BY <1>1, MaxGapAssumption DEF IInv, WindowMatchesHistory, FillHole
  <1>3. /\ Set!Offer(i)
        /\ times' \in [Numbers -> Nat]
        /\ answer' \in [num : Numbers \cup {-1}, new : BOOLEAN]
        /\ \A n \in Numbers : times'[n] = IF n = i THEN 1 ELSE times[n]
    BY <1>2, AcceptStep DEF FillHole
  <1>4. /\ window' \in Seq(BOOLEAN) /\ Len(window') = L
        /\ window'[i - low + 1]
        /\ \A k \in 1 .. L : k # i - low + 1 => window'[k] = window[k]
        /\ low' = low /\ base' = base
    <2>1. i - low + 1 \in 1 .. Len(window)
      BY <1>1
    <2>2. window' = [window EXCEPT ![i - low + 1] = TRUE]
      BY <1>1 DEF FillHole
    <2> QED
      BY <1>1, <2>1, <2>2, FlagSet DEF FillHole
  <1> HIDE DEF L
  <1>5. ASSUME NEW m \in Numbers
        PROVE  times'[m] = IF m < low' \/ (m < low' + L /\ window'[m - low' + 1])
                           THEN 1 ELSE 0
    <2>1. m \in Nat
      BY NumbersAssumption
    <2>2. /\ times'[m] = IF m = i THEN 1 ELSE times[m]
          /\ times[m] = IF m < low \/ (m < low + L /\ window[m - low + 1])
                        THEN 1 ELSE 0
      BY <1>3 DEF IInv, WindowMatchesHistory, L
    <2>3. CASE m < low \/ low + L <= m
      BY <1>1, <1>4, <2>1, <2>2, <2>3
    <2>4. CASE low <= m /\ m < low + L
      <3>1. m - low + 1 \in 1 .. L /\ (m - low + 1 = i - low + 1 <=> m = i)
        BY <1>1, <2>1, <2>4
      <3>2. CASE m = i
        BY <1>4, <2>2, <2>4, <3>1, <3>2
      <3>3. CASE m # i
        <4>1. window'[m - low + 1] = window[m - low + 1]
          BY <1>4, <3>1, <3>3
        <4> QED
          BY <1>4, <2>2, <2>4, <3>3, <4>1
      <3> QED
        BY <3>2, <3>3
    <2> QED
      BY <1>1, <2>1, <2>3, <2>4
  <1>6. ~window'[1]
    <2>1. 1 \in 1 .. L /\ 1 # i - low + 1
      BY <1>1
    <2>2. window'[1] = window[1]
      BY <1>4, <2>1
    <2> QED
      BY <1>1, <2>2 DEF IInv, WindowMatchesHistory, L
  <1> QED
    BY <1>1, <1>3, <1>4, <1>5, <1>6 DEF IInv, TypeOK, WindowMatchesHistory, L

(* A number beyond the deque but inside the gap limit is new to the set,   *)
(* and extending the deque up to it keeps the invariant.                   *)
LEMMA ExtendStep ==
    ASSUME IInv, NEW i \in Numbers, InLifetime(i), Extend(i)
    PROVE  IInv' /\ Set!Offer(i)
  <1> DEFINE L == Len(window)
             h == Hole(i)
  <1>1. /\ low \in Nat /\ i \in Nat /\ L \in Nat /\ h \in Nat
        /\ window \in Seq(BOOLEAN)
        /\ i = low + h /\ h > 0 /\ h <= MaxGap /\ L <= h
    BY HoleDistance, HalfSeqAssumption, MaxGapAssumption
       DEF Extend, IInv, TypeOK, WindowMatchesHistory, SeqCount
  <1>2. times[i] = 0 /\ i <= low + MaxGap
    BY <1>1, MaxGapAssumption DEF IInv, WindowMatchesHistory
  <1>3. /\ Set!Offer(i)
        /\ times' \in [Numbers -> Nat]
        /\ answer' \in [num : Numbers \cup {-1}, new : BOOLEAN]
        /\ \A n \in Numbers : times'[n] = IF n = i THEN 1 ELSE times[n]
    BY <1>2, AcceptStep DEF Extend
  <1>4. /\ window' = Stretched(window, h)
        /\ low' = low /\ base' = base
    BY DEF Extend
  <1> HIDE DEF h
  <1>5. /\ window' \in Seq(BOOLEAN) /\ Len(window') = h + 1
        /\ \A k \in 1 .. h + 1 : window'[k] = IF k <= L THEN window[k] ELSE k = h + 1
    BY <1>1, <1>4, StretchedWindow
  <1> HIDE DEF L
  <1>6. ASSUME NEW m \in Numbers
        PROVE  times'[m] = IF m < low' \/ (m < low' + (h + 1) /\ window'[m - low' + 1])
                           THEN 1 ELSE 0
    <2>1. m \in Nat
      BY NumbersAssumption
    <2>2. /\ times'[m] = IF m = i THEN 1 ELSE times[m]
          /\ times[m] = IF m < low \/ (m < low + L /\ window[m - low + 1])
                        THEN 1 ELSE 0
      BY <1>3 DEF IInv, WindowMatchesHistory, L
    <2>3. CASE m < low \/ low + h < m
      BY <1>1, <1>4, <2>1, <2>2, <2>3
    <2>4. CASE low <= m /\ m < low + L
      <3>1. m - low + 1 \in 1 .. h + 1 /\ m - low + 1 <= L /\ m # i
        BY <1>1, <2>1, <2>4
      <3>2. window'[m - low + 1] = window[m - low + 1]
        BY <1>5, <3>1
      <3>3. m < low + (h + 1)
        BY <1>1, <2>1, <2>4
      <3> QED
        BY <1>4, <2>2, <2>4, <3>1, <3>2, <3>3
    <2>5. CASE low + L <= m /\ m <= low + h
      <3>1. m - low + 1 \in 1 .. h + 1 /\ ~(m - low + 1 <= L) /\ ~(m < low)
        BY <1>1, <2>1, <2>5
      <3>2. window'[m - low + 1] <=> m - low + 1 = h + 1
        BY <1>5, <3>1
      <3>3. (m - low + 1 = h + 1 <=> m = i) /\ m < low + (h + 1) /\ ~(m < low + L)
        BY <1>1, <2>1, <2>5
      <3> QED
        BY <1>4, <2>2, <3>1, <3>2, <3>3
    <2> QED
      BY <1>1, <2>1, <2>3, <2>4, <2>5
  <1>7. ~window'[1]
    <2>1. 1 \in 1 .. h + 1 /\ 1 # h + 1
      BY <1>1
    <2>2. CASE L > 0
      BY <1>1, <1>5, <2>1, <2>2 DEF IInv, WindowMatchesHistory, L
    <2>3. CASE L = 0
      BY <1>5, <2>1, <2>3
    <2> QED
      BY <1>1, <2>2, <2>3
  <1>8. h + 1 <= MaxGap + 1
    BY <1>1, MaxGapAssumption
  <1> QED
    BY <1>3, <1>4, <1>5, <1>6, <1>7, <1>8 DEF IInv, TypeOK, WindowMatchesHistory

(* A new filter satisfies the invariant and stands for the empty set.      *)
LEMMA InitIInv == Init => IInv /\ Set!Init
  <1> SUFFICES ASSUME Init PROVE IInv /\ Set!Init
    OBVIOUS
  <1>1. Wire(0) = 0
    BY WireOfNumber, SeqCountPos DEF SeqNum
  <1>2. TypeOK
    BY SeqCountPos DEF Init, TypeOK, SeqNum
  <1>3. WindowMatchesHistory
    BY <1>1, NumbersAssumption, MaxGapAssumption DEF Init, WindowMatchesHistory
  <1> QED
    BY <1>2, <1>3 DEF IInv, Init, Set!Init

(* Every call of check_and_mark keeps the invariant and answers as the     *)
(* set of received numbers would.                                          *)
LEMMA CheckAndMarkStep ==
    ASSUME IInv, NEW i \in Numbers, InLifetime(i), CheckAndMark(i)
    PROVE  IInv' /\ Set!Offer(i)
  <1> USE DEF IInv
  <1>1. CASE Behind(i)
    <2>1. times[i] > 0
      BY <1>1, HoleDistance DEF Behind, WindowMatchesHistory
    <2> QED
      BY <1>1, <2>1, RefuseStep DEF Behind
  <1>2. CASE TooFar(i)
    <2>1. low + MaxGap < i /\ low \in Numbers /\ times[low] = 0
      <3>1. i \in Nat /\ low \in Nat /\ MaxGap < Hole(i) /\ Hole(i) < HalfSeq
        BY <1>2, HoleDistance DEF TooFar, TypeOK
      <3>2. i >= low /\ Hole(i) = i - low
        BY <3>1, HoleDistance, HalfSeqAssumption DEF SeqCount
      <3>3. low + MaxGap < i
        BY <3>1, <3>2, MaxGapAssumption
      <3>4. low \in Numbers
        BY <3>1, <3>2, NumbersAssumption
      <3>5. times[low] = 0
        <4>1. ~(low < low)
          BY <3>1
        <4>2. low < low + Len(window) => ~window[low - low + 1]
          <5>1. Len(window) \in Nat /\ low - low + 1 = 1
            BY <3>1 DEF TypeOK
          <5>2. low < low + Len(window) => Len(window) > 0
            BY <3>1, <5>1
          <5> QED
            BY <5>1, <5>2 DEF WindowMatchesHistory
        <4> QED
          BY <3>4, <4>1, <4>2 DEF WindowMatchesHistory
      <3> QED
        BY <3>3, <3>4, <3>5
    <2>2. ~Set!InReach(i)
      BY <2>1, HoleDistance, MaxGapAssumption DEF Set!InReach, TypeOK
    <2> QED
      BY <1>2, <2>2, RefuseStep DEF TooFar
  <1>3. CASE Expected(i)
    BY <1>3, ExpectedStep
  <1>4. CASE Known(i)
    <2>1. times[i] > 0
      BY <1>4, HoleDistance, HalfSeqAssumption, MaxGapAssumption
         DEF Known, TypeOK, WindowMatchesHistory, SeqCount
    <2> QED
      BY <1>4, <2>1, RefuseStep DEF Known
  <1>5. CASE FillHole(i)
    BY <1>5, FillHoleStep
  <1>6. CASE Extend(i)
    BY <1>6, ExtendStep
  <1> QED
    BY <1>1, <1>2, <1>3, <1>4, <1>5, <1>6 DEF CheckAndMark

----------------------------------------------------------------------------
LEMMA StepIInv == IInv /\ [Next]_vars => IInv'
  <1> SUFFICES ASSUME IInv, [Next]_vars PROVE IInv'
    OBVIOUS
  <1>1. CASE Next
    BY <1>1, CheckAndMarkStep DEF Next
  <1>2. CASE UNCHANGED vars
    BY <1>2 DEF vars, IInv, TypeOK, WindowMatchesHistory
  <1> QED
    BY <1>1, <1>2

(* The base stays a 24-bit number, the deque a sequence of flags, and      *)
(* check_and_mark answers for numbers that were sent only.                 *)
THEOREM TypeCorrect == Spec => []TypeOK
  <1>1. IInv => TypeOK
    BY DEF IInv
  <1> QED
    BY <1>1, InitIInv, StepIInv, PTL DEF Spec

(* The two fields of _ReliableMessageWindow always describe exactly the    *)
(* numbers let through so far, each of them let through once.              *)
THEOREM WindowCorrect == Spec => [](TypeOK /\ WindowMatchesHistory)
  <1>1. IInv => TypeOK /\ WindowMatchesHistory
    BY DEF IInv
  <1> QED
    BY <1>1, InitIInv, StepIInv, PTL DEF Spec

(* check_and_mark implements the set it stands for: a number is answered   *)
(* TRUE once, and refused unseen only beyond the gap limit.                *)
THEOREM WindowImplementsSet == Spec => ImplementsNumberSet
  <1>1. Init => IInv /\ Set!Init
    BY InitIInv
  <1>2. IInv /\ [Next]_vars => IInv' /\ [Set!Next]_(Set!vars)
    <2> SUFFICES ASSUME IInv, [Next]_vars PROVE IInv' /\ [Set!Next]_(Set!vars)
      OBVIOUS
    <2>1. CASE Next
      BY <2>1, CheckAndMarkStep DEF Next, Set!Next
    <2>2. CASE UNCHANGED vars
      BY <2>2 DEF vars, IInv, TypeOK, WindowMatchesHistory, Set!vars
    <2> QED
      BY <2>1, <2>2
  <1> QED
    BY <1>1, <1>2, PTL DEF Spec, ImplementsNumberSet, Set!Spec
=============================================================================
