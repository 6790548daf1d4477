--------------------------- MODULE OrderingProofs ---------------------------
(***************************************************************************)
(* An ordering channel delivers in the order of sending, skips nothing and *)
(* strands nothing, for any number of messages, any mix of ordered and     *)
(* sequenced ones and any order of arrival.  Two things are asked of the   *)
(* traffic: that a run of sequenced messages stays below the sub-key of    *)
(* ordered ones (ShortRuns), and that the heap never straddles the wrap of *)
(* the ordering index (HeapUnwrapped); the code relies on both.            *)
(***************************************************************************)
EXTENDS Ordering, FiniteSetTheorems, SequenceTheorems,
        WellFoundedInduction, TLAPS

(***************************************************************************)
(* Arithmetic of the circular space.                                       *)

(* There are sequence numbers, more than half of the space holds.          *)
LEMMA SeqCountPos == SeqCount \in Nat \ {0} /\ HalfSeq < SeqCount
  BY HalfSeqAssumption DEF SeqCount

(* Whole turns do not show on the wire.                                    *)
LEMMA WireOfTurns ==
    ASSUME NEW q \in Int, NEW r \in SeqNum
    PROVE  Wire(q * SeqCount + r) = r
  <1> DEFINE m == SeqCount
  <1>1. m \in Nat \ {0} /\ r \in 0 .. m - 1
    BY SeqCountPos DEF SeqNum
  <1> HIDE DEF m
  <1>2. (q * m + r) % m = r
    BY <1>1, Z3
  <1> QED
    BY <1>2 DEF Wire, m

(* Every number is so many turns and what travels of it.                   *)
LEMMA WireIsSeqNum ==
    ASSUME NEW i \in Int
    PROVE  /\ Wire(i) \in SeqNum /\ Wire(i) \in Int
           /\ \E q \in Int : i = q * SeqCount + Wire(i)
  <1> DEFINE m == SeqCount
  <1>1. m \in Nat \ {0}
    BY SeqCountPos
  <1> HIDE DEF m
  <1>2. i % m \in 0 .. m - 1 /\ (i \div m) \in Int /\ i = (i \div m) * m + (i % m)
    BY <1>1, Z3
  <1> QED
    BY <1>2 DEF Wire, SeqNum, m

(* Masked subtraction gives the distance of two numbers less than half the *)
(* space apart, ahead or behind.                                           *)
LEMMA WireDistance ==
    ASSUME NEW i \in Nat, NEW j \in Nat, j - HalfSeq <= i, i < j + HalfSeq
    PROVE  SeqSub(Wire(i), Wire(j)) = IF i >= j THEN i - j ELSE i - j + SeqCount
  <1> DEFINE a == Wire(i)
             b == Wire(j)
             m == SeqCount
             d == IF i >= j THEN i - j ELSE i - j + m
  <1>1. PICK p \in Int : i = p * m + a
    BY WireIsSeqNum
  <1>2. PICK q \in Int : j = q * m + b
    BY WireIsSeqNum
  <1>3. a \in Int /\ b \in Int /\ m \in Int /\ d \in SeqNum /\ (d = i - j \/ d = i - j + m)
    BY WireIsSeqNum, HalfSeqAssumption DEF SeqCount, SeqNum
  <1>4. Wire((q - p) * m + d) = d /\ Wire((q - p - 1) * m + d) = d
    <2>1. q - p \in Int /\ q - p - 1 \in Int
      OBVIOUS
    <2> QED
      BY <1>3, <2>1, WireOfTurns, Zenon
  <1> HIDE DEF a, b, m, d
  <1>5. /\ d \in Int /\ (q - p) * m = q * m - p * m
        /\ (q - p - 1) * m = q * m - p * m - m
    BY <1>3, Z3 DEF SeqNum
  <1>6. a - b = (q - p) * m + d \/ a - b = (q - p - 1) * m + d
    BY <1>1, <1>2, <1>3, <1>5
  <1>7. Wire(a - b) = d
    BY <1>4, <1>6
  <1> QED
    BY <1>7 DEF SeqSub, Wire, a, b, d, m

(* Advancing a wrapped number is advancing the number, then wrapping it.   *)
LEMMA WireAdd ==
    ASSUME NEW i \in Nat, NEW n \in Nat
    PROVE  Wire(Wire(i) + n) = Wire(i + n)
  <1> DEFINE a == Wire(i)
             b == Wire(a + n)
             m == SeqCount
  <1>1. PICK p \in Int : i = p * m + a
    BY WireIsSeqNum
  <1>2. PICK q \in Int : a + n = q * m + b
    BY WireIsSeqNum
  <1>3. a \in Int /\ b \in Int /\ b \in SeqNum /\ m \in Int
    BY WireIsSeqNum, SeqCountPos
  <1>4. Wire((p + q) * m + b) = b
    <2>1. p + q \in Int
      OBVIOUS
    <2> QED
      BY <1>3, <2>1, WireOfTurns, Zenon
  <1> HIDE DEF a, b, m
  <1>5. (p + q) * m = p * m + q * m
    BY <1>3, Z3
  <1>6. i + n = (p + q) * m + b
    BY <1>1, <1>2, <1>3, <1>5
  <1> QED
    BY <1>4, <1>6 DEF a, b

(* A sequence number stands for itself.                                    *)
LEMMA WireOfNumber ==
    ASSUME NEW n \in SeqNum
    PROVE  Wire(n) = n
  <1>1. 0 * SeqCount + n = n
    BY SeqCountPos DEF SeqNum
  <1>2. Wire(0 * SeqCount + n) = n
    BY WireOfTurns
  <1> QED
    BY <1>1, <1>2

(* Less than half the space apart, equal indices on the wire are equal     *)
(* indices, and the code's comparison tells the later of two others.       *)
LEMMA WireCompare ==
    ASSUME NEW i \in Nat, NEW j \in Nat, j - HalfSeq < i, i < j + HalfSeq
    PROVE  /\ Wire(i) = Wire(j) <=> i = j
           /\ SeqGreaterThan(Wire(i), Wire(j)) <=> i > j
  <1>1. SeqSub(Wire(i), Wire(j)) = IF i >= j THEN i - j ELSE i - j + SeqCount
    BY WireDistance, HalfSeqAssumption
  <1>2. SeqSub(Wire(j), Wire(j)) = 0
    <2>1. SeqSub(Wire(j), Wire(j)) = IF j >= j THEN j - j ELSE j - j + SeqCount
      BY WireDistance, HalfSeqAssumption
    <2> QED
      BY <2>1
  <1>3. ASSUME Wire(i) = Wire(j) PROVE i = j
    <2>1. SeqSub(Wire(i), Wire(j)) = 0
      BY <1>2, <1>3
    <2> QED
      BY <1>1, <2>1, HalfSeqAssumption DEF SeqCount
  <1>4. SeqGreaterThan(Wire(i), Wire(j)) <=> i # j /\ SeqSub(Wire(i), Wire(j)) < HalfSeq
    BY <1>3 DEF SeqGreaterThan
  <1>5. SeqSub(Wire(i), Wire(j)) < HalfSeq <=> i >= j
    BY <1>1, HalfSeqAssumption DEF SeqCount
  <1>6. i # j /\ i >= j <=> i > j
    OBVIOUS
  <1> QED
    BY <1>3, <1>4, <1>5, <1>6

----------------------------------------------------------------------------
(* Fewer sequenced messages in a row than _ORDERED_SUBKEY.                 *)
ShortRuns == nextSub <= OrderedSubKey

(* A later slot is a larger index among the buffered frames.               *)
HeapUnwrapped ==
    \A a, b \in heap : Slot(a.msg) < Slot(b.msg) => a.ord < b.ord

\* How many of the first n members of f are ordered.
Count(f, n) == Cardinality({j \in 1 .. n : f[j].ordered})

\* The slot of message k, when m are the messages sent.
SlotIn(m, k) == Count(m, k - 1)

\* The ordered messages delivered so far.
Done == Cardinality(OrderedDelivered)

(* The wrapped indices of what was sent are those of its slots, and within *)
(* a slot the sub-indices rise.                                            *)
Stamped ==
    /\ nextOrd = Wire(FirstIndex + SlotIn(msgs, Len(msgs) + 1))
    /\ nextSub <= Len(msgs)
    /\ \A k \in DOMAIN msgs :
          /\ msgs[k].ord = Wire(FirstIndex + SlotIn(msgs, k))
          /\ ~msgs[k].ordered =>
                /\ msgs[k].sub < OrderedSubKey
                /\ SlotIn(msgs, k) = SlotIn(msgs, Len(msgs) + 1) => msgs[k].sub < nextSub
    /\ \A j, k \in DOMAIN msgs :
          j < k /\ SlotIn(msgs, j) = SlotIn(msgs, k) /\ ~msgs[k].ordered => msgs[j].sub < msgs[k].sub

(* The log holds the ordered messages of the slots below Done, and of slot *)
(* Done sequenced ones up to highest.                                      *)
Logged ==
    /\ expected = Wire(FirstIndex + Done)
    /\ Done <= SlotIn(msgs, Len(msgs) + 1)
    /\ highest < OrderedSubKey \/ highest = None
    /\ \A k \in DOMAIN msgs :
          msgs[k].ordered => (SlotIn(msgs, k) < Done <=> \E i \in DOMAIN log : log[i] = k)
    /\ \A i \in DOMAIN log :
          /\ SlotIn(msgs, log[i]) <= Done
          /\ SlotIn(msgs, log[i]) = Done =>
                ~msgs[log[i]].ordered /\ highest # None /\ msgs[log[i]].sub <= highest

(* The heap holds messages of later slots, each once.                      *)
Buffered ==
    /\ IsFiniteSet(heap) /\ Cardinality(heap) <= HeapCap
    /\ \A e \in heap :
          /\ e.ord = msgs[e.msg].ord /\ e.ordered = msgs[e.msg].ordered
          /\ e.sub = IF e.ordered THEN OrderedSubKey ELSE msgs[e.msg].sub
          /\ Done < SlotIn(msgs, e.msg) /\ SlotIn(msgs, e.msg) < Done + HalfSeq
          /\ e.msg \notin overflow
    /\ \A a, b \in heap : a.msg = b.msg => a = b

(* An ordered message that arrived is somewhere, and one that was dropped  *)
(* is not in the log.                                                      *)
Accounted ==
    /\ \A k \in arrived : msgs[k].ordered =>
          \/ \E i \in DOMAIN log : log[i] = k
          \/ \E e \in heap : e.msg = k
          \/ k \in overflow
    /\ \A k \in overflow : msgs[k].ordered => Done <= SlotIn(msgs, k)

IInv ==
    /\ TypeOK /\ Stamped /\ Logged /\ Buffered /\ Accounted
    /\ DeliveredInSendOrder
----------------------------------------------------------------------------
(* Counting.                                                               *)

(* A set of numbers that is not empty has a least one. *)
LEMMA LeastMember ==
    ASSUME NEW S \in SUBSET Nat, S # {}
    PROVE  \E m \in S : \A x \in S : m <= x
  <1>1. PICK m \in S : \A y \in S : <<y, m>> \notin OpToRel(<, Nat)
    BY NatLessThanWellFounded, WFMin
  <1>2. \A x \in S : m <= x
    <2> SUFFICES ASSUME NEW x \in S, ~(m <= x)
                 PROVE  <<x, m>> \in OpToRel(<, Nat)
      BY <1>1
    <2>1. x \in Nat /\ m \in Nat /\ x < m
      OBVIOUS
    <2> QED
      BY <2>1 DEF OpToRel
  <1> QED
    BY <1>2

LEMMA CountZero ==
    ASSUME NEW f
    PROVE  Count(f, 0) = 0
  <1>1. {j \in 1 .. 0 : f[j].ordered} = {}
    OBVIOUS
  <1> QED
    BY <1>1, FS_EmptySet DEF Count

LEMMA CountIsNat ==
    ASSUME NEW f, NEW n \in Nat
    PROVE  Count(f, n) \in Nat /\ Count(f, n) <= n
  <1> DEFINE S == {j \in 1 .. n : f[j].ordered}
  <1>1. IsFiniteSet(1 .. n) /\ Cardinality(1 .. n) = n
    BY FS_Interval
  <1>2. S \subseteq 1 .. n
    OBVIOUS
  <1> HIDE DEF S
  <1>3. IsFiniteSet(S) /\ Cardinality(S) <= n
    BY <1>1, <1>2, FS_Subset
  <1>4. Cardinality(S) \in Nat
    BY <1>3, FS_CardinalityType
  <1> QED
    BY <1>3, <1>4 DEF Count, S

LEMMA CountStep ==
    ASSUME NEW f, NEW n \in Nat
    PROVE  Count(f, n + 1) = Count(f, n) + (IF f[n + 1].ordered THEN 1 ELSE 0)
  <1> DEFINE S == {j \in 1 .. n : f[j].ordered}
             T == {j \in 1 .. n + 1 : f[j].ordered}
  <1>1. IsFiniteSet(S) /\ Cardinality(S) \in Nat
    <2>1. IsFiniteSet(1 .. n)
      BY FS_Interval
    <2>2. S \subseteq 1 .. n
      OBVIOUS
    <2> QED
      BY <2>1, <2>2, FS_Subset, FS_CardinalityType
  <1>2. ASSUME f[n + 1].ordered PROVE Count(f, n + 1) = Count(f, n) + 1
    <2>1. T = S \cup {n + 1} /\ n + 1 \notin S
      BY <1>2
    <2> HIDE DEF S, T
    <2>2. Cardinality(T) = Cardinality(S) + 1
      BY <1>1, <2>1, FS_AddElement
    <2> QED
      BY <1>2, <2>2 DEF Count, S, T
  <1>3. ASSUME ~f[n + 1].ordered PROVE Count(f, n + 1) = Count(f, n) + 0
    <2>1. T = S
      BY <1>3
    <2> HIDE DEF S, T
    <2>2. Cardinality(T) = Cardinality(S) + 0
      BY <1>1, <2>1
    <2> QED
      BY <2>2 DEF Count, S, T
  <1> QED
    BY <1>2, <1>3

(* The count over a longer prefix is no smaller, and larger when there is  *)
(* an ordered member in between.                                           *)
LEMMA CountMonotone ==
    ASSUME NEW f, NEW a \in Nat, NEW b \in Nat, a <= b
    PROVE  Count(f, a) <= Count(f, b)
  <1> DEFINE S == {n \in Nat : a <= n /\ Count(f, n) < Count(f, a)}
  <1>1. ASSUME S # {} PROVE FALSE
    <2>1. PICK m \in S : \A x \in S : m <= x
      BY <1>1, LeastMember
    <2>2. m \in Nat /\ a <= m /\ Count(f, m) < Count(f, a)
      BY <2>1
    <2>3. m # a /\ m - 1 \in Nat
      BY <2>2, CountIsNat
    <2>4. m - 1 \notin S
      BY <2>1, <2>2, <2>3
    <2>5. Count(f, a) <= Count(f, m - 1)
      BY <2>2, <2>3, <2>4, CountIsNat
    <2>6. Count(f, m - 1 + 1) = Count(f, m - 1) + (IF f[m - 1 + 1].ordered THEN 1 ELSE 0)
      BY <2>3, CountStep
    <2>7. m - 1 + 1 = m
      BY <2>2
    <2>8. Count(f, m - 1) <= Count(f, m)
      BY <2>3, <2>6, <2>7, CountIsNat
    <2> QED
      BY <2>2, <2>3, <2>5, <2>8, CountIsNat
  <1> QED
    BY <1>1, CountIsNat

LEMMA CountRises ==
    ASSUME NEW f, NEW a \in Nat, NEW b \in Nat, a < b, f[a + 1].ordered
    PROVE  Count(f, a) < Count(f, b)
  <1>1. Count(f, a + 1) = Count(f, a) + 1
    BY CountStep
  <1>2. Count(f, a + 1) <= Count(f, b)
    BY CountMonotone
  <1> QED
    BY <1>1, <1>2, CountIsNat

(* Every number below the count is the count before an ordered member.     *)
LEMMA CountReaches ==
    ASSUME NEW f, NEW n \in Nat, NEW v \in Nat, v < Count(f, n)
    PROVE  \E i \in 1 .. n : f[i].ordered /\ Count(f, i - 1) = v
  <1> DEFINE S == {m \in 0 .. n : v < Count(f, m)}
  <1>1. PICK i \in S : \A x \in S : i <= x
    <2>1. n \in S /\ S \in SUBSET Nat
      OBVIOUS
    <2> QED
      BY <2>1, LeastMember
  <1>2. i # 0
    BY CountZero
  <1>3. i \in 1 .. n /\ i - 1 \in Nat /\ i - 1 + 1 = i /\ v < Count(f, i)
    BY <1>1, <1>2
  <1>4. i - 1 \notin S
    BY <1>1, <1>3
  <1>5. Count(f, i - 1) <= v
    BY <1>3, <1>4, CountIsNat
  <1>6. Count(f, i) = Count(f, i - 1) + (IF f[i].ordered THEN 1 ELSE 0)
    BY <1>3, CountStep
  <1>7. f[i].ordered /\ Count(f, i - 1) = v
    BY <1>3, <1>5, <1>6, CountIsNat
  <1> QED
    BY <1>3, <1>7

\* After its first a members f goes on as the first b of g.
GoesOn(f, a, g, b) == \A i \in 1 .. b : f[a + i] = g[i]

(* The count over a sequence is that over its two parts.                   *)
LEMMA CountGoesOn ==
    ASSUME NEW f, NEW g, NEW a \in Nat, NEW b \in Nat, GoesOn(f, a, g, b)
    PROVE  Count(f, a + b) = Count(f, a) + Count(g, b)
  <1> DEFINE S == {n \in 0 .. b : Count(f, a + n) # Count(f, a) + Count(g, n)}
  <1>1. ASSUME S # {} PROVE FALSE
    <2>0. S \subseteq 0 .. b
      OBVIOUS
    <2>1. PICK m \in S : \A x \in S : m <= x
      <3> HIDE DEF S
      <3>1. S \in SUBSET Nat
        BY <2>0
      <3> QED
        BY <1>1, <3>1, LeastMember
    <2>2. m \in 0 .. b /\ Count(f, a + m) # Count(f, a) + Count(g, m)
      BY <2>1
    <2>3. m # 0
      BY <2>2, CountZero, CountIsNat
    <2>4. m - 1 \in 0 .. b /\ m - 1 \in Nat /\ m \in 1 .. b /\ a + (m - 1) \in Nat
      BY <2>2, <2>3
    <2>5. m - 1 \notin S
      BY <2>1, <2>4
    <2>6. Count(f, a + (m - 1)) = Count(f, a) + Count(g, m - 1)
      BY <2>4, <2>5
    <2>7. /\ Count(f, a + (m - 1) + 1)
                = Count(f, a + (m - 1)) + (IF f[a + (m - 1) + 1].ordered THEN 1 ELSE 0)
          /\ Count(g, (m - 1) + 1) = Count(g, m - 1) + (IF g[(m - 1) + 1].ordered THEN 1 ELSE 0)
      BY <2>4, CountStep
    <2>8. a + (m - 1) + 1 = a + m /\ (m - 1) + 1 = m
      BY <2>2
    <2>9. f[a + m] = g[m]
      BY <2>4 DEF GoesOn
    <2> QED
      BY <2>2, <2>4, <2>6, <2>7, <2>8, <2>9, CountIsNat
  <1> QED
    <2>1. b \notin S
      BY <1>1
    <2>2. Count(f, a + b) = Count(f, a) + Count(g, b)
      BY <2>1
    <2> QED
      BY <2>2

LEMMA CountSame ==
    ASSUME NEW f, NEW g, NEW n \in Nat,
           \A i \in 1 .. n : f[i].ordered <=> g[i].ordered
    PROVE  Count(f, n) = Count(g, n)
  <1>1. {j \in 1 .. n : f[j].ordered} = {j \in 1 .. n : g[j].ordered}
    OBVIOUS
  <1> QED
    BY <1>1 DEF Count
----------------------------------------------------------------------------
(* Type correctness.                                                       *)

LEMMA SortedListing ==
    ASSUME IsFiniteSet(heap), NEW entries \in Sorted(heap)
    PROVE  /\ Len(entries) = Cardinality(heap) /\ Cardinality(heap) \in Nat
           /\ entries \in Seq(heap) /\ DOMAIN entries = 1 .. Len(entries)
           /\ \A i, j \in DOMAIN entries : i # j => entries[i] # entries[j]
           /\ \A e \in heap : \E i \in DOMAIN entries : entries[i] = e
           /\ \A i, j \in DOMAIN entries : i < j => Precedes(entries[i], entries[j])
  <1>1. Cardinality(heap) \in Nat
    BY FS_CardinalityType
  <1>2. /\ entries \in [1 .. Cardinality(heap) -> heap]
        /\ \A i, j \in DOMAIN entries : i # j => entries[i] # entries[j]
        /\ \A e \in heap : \E i \in DOMAIN entries : entries[i] = e
    BY DEF Sorted, Bijection, Injection, Surjection, IsInjective
  <1>3. entries \in Seq(heap) /\ Len(entries) = Cardinality(heap)
    BY <1>1, <1>2
  <1>4. \A i, j \in DOMAIN entries : i < j => Precedes(entries[i], entries[j])
    BY DEF Sorted
  <1> QED
    BY <1>1, <1>2, <1>3, <1>4

(* The indices of buffered frames, and the messages, are what they should. *)
LEMMA EntryType ==
    ASSUME TypeOK, NEW e \in heap
    PROVE  /\ e.ord \in SeqNum /\ e.sub \in SeqNum /\ e.count \in 1 .. count
           /\ e.ordered \in BOOLEAN /\ e.msg \in arrived
           /\ e = [ord |-> e.ord, sub |-> e.sub, count |-> e.count,
                    ordered |-> e.ordered, msg |-> e.msg]
  <1>1. OrderedSubKey \in SeqNum
    BY OrderingAssumption, HalfSeqAssumption DEF SeqNum, SeqCount
  <1> QED
    BY <1>1 DEF TypeOK

LEMMA MessageType ==
    ASSUME TypeOK, NEW k \in DOMAIN msgs
    PROVE  /\ k \in 1 .. Len(msgs) /\ Len(msgs) \in Nat
           /\ msgs[k].ordered \in BOOLEAN
           /\ msgs[k].ord \in SeqNum /\ msgs[k].sub \in SeqNum
  <1> DEFINE R == [ordered : BOOLEAN, ord : SeqNum, sub : SeqNum]
  <1>1. msgs \in Seq(R)
    BY DEF TypeOK
  <1>2. \A r \in R : r.ordered \in BOOLEAN /\ r.ord \in SeqNum /\ r.sub \in SeqNum
    OBVIOUS
  <1> HIDE DEF R
  <1>3. k \in 1 .. Len(msgs) /\ Len(msgs) \in Nat /\ msgs[k] \in R
    BY <1>1
  <1> QED
    BY <1>2, <1>3

(* What a frame that is not taken at once does. *)
LEMMA BufferType ==
    ASSUME TypeOK, IsFiniteSet(heap), NEW k \in DOMAIN msgs,
           arrived' = arrived \cup {k},
           UNCHANGED <<msgs, nextOrd, nextSub>>, Buffer(k)
    PROVE  TypeOK' /\ IsFiniteSet(heap')
  <1> DEFINE new == [ord |-> msgs[k].ord,
                     sub |-> IF msgs[k].ordered THEN OrderedSubKey ELSE msgs[k].sub,
                     count |-> count + 1, ordered |-> msgs[k].ordered, msg |-> k]
  <1>1. /\ expected' = expected /\ highest' = highest /\ log' = log
        /\ \/ heap' = heap \cup {new} /\ count' = count + 1 /\ overflow' = overflow
           \/ heap' = heap /\ count' = count /\ overflow' = overflow \cup {k}
    BY DEF Buffer, DropFull
  <1>2. count \in Nat /\ count' \in Nat /\ count <= count'
    BY <1>1 DEF TypeOK
  <1>3. new \in [ord : SeqNum, sub : SeqNum \cup {OrderedSubKey}, count : 1 .. count + 1,
                 ordered : BOOLEAN, msg : arrived']
    BY <1>2, MessageType
  <1>4. heap \subseteq [ord : SeqNum, sub : SeqNum \cup {OrderedSubKey},
                        count : 1 .. count', ordered : BOOLEAN, msg : arrived']
    BY <1>2 DEF TypeOK
  <1>5. heap' \subseteq [ord : SeqNum, sub : SeqNum \cup {OrderedSubKey},
                         count : 1 .. count', ordered : BOOLEAN, msg : arrived']
    <2> HIDE DEF new
    <2> QED
      BY <1>1, <1>3, <1>4
  <1>6. log' \in Seq(arrived') /\ overflow' \subseteq arrived'
    BY <1>1 DEF TypeOK
  <1>7. IsFiniteSet(heap')
    <2> HIDE DEF new
    <2>1. IsFiniteSet(heap \cup {new})
      BY FS_AddElement
    <2> QED
      BY <1>1, <2>1
  <1> QED
    BY <1>1, <1>2, <1>5, <1>6, <1>7 DEF TypeOK

LEMMA FlushType ==
    ASSUME TypeOK, IsFiniteSet(heap), NEW k \in DOMAIN msgs,
           arrived' = arrived \cup {k},
           UNCHANGED <<msgs, nextOrd, nextSub>>, DeliverAndFlush(k)
    PROVE  TypeOK' /\ IsFiniteSet(heap')
  <1>1. PICK entries \in Sorted(heap) : \E n \in 0 .. Len(entries) :
            /\ heap' = {entries[i] : i \in n + 1 .. Len(entries)}
            /\ log' = Append(log, k) \o [i \in 1 .. n |-> entries[i].msg]
            /\ expected' = Wire(expected + 1 + Cardinality({i \in 1 .. n : entries[i].ordered}))
            /\ highest' = IF n = 0 \/ entries[n].ordered THEN None ELSE entries[n].sub
            /\ UNCHANGED <<count, overflow>>
    BY DEF DeliverAndFlush
  <1>2. PICK n \in 0 .. Len(entries) :
            /\ heap' = {entries[i] : i \in n + 1 .. Len(entries)}
            /\ log' = Append(log, k) \o [i \in 1 .. n |-> entries[i].msg]
            /\ expected' = Wire(expected + 1 + Cardinality({i \in 1 .. n : entries[i].ordered}))
            /\ highest' = IF n = 0 \/ entries[n].ordered THEN None ELSE entries[n].sub
            /\ UNCHANGED <<count, overflow>>
    BY <1>1
  <1>3. /\ Len(entries) \in Nat /\ n \in Nat /\ n <= Len(entries)
        /\ \A i \in 1 .. Len(entries) : entries[i] \in heap
    BY SortedListing
  <1>4. heap' \subseteq heap
    BY <1>2, <1>3
  <1>5. IsFiniteSet(heap')
    BY <1>4, FS_Subset
  <1>6. heap' \subseteq [ord : SeqNum, sub : SeqNum \cup {OrderedSubKey},
                         count : 1 .. count', ordered : BOOLEAN, msg : arrived']
    BY <1>2, <1>4 DEF TypeOK
  <1>7. log' \in Seq(arrived')
    <2>1. Append(log, k) \in Seq(arrived')
      <3>1. log \in Seq(arrived')
        BY DEF TypeOK
      <3> QED
        BY <3>1
    <2>2. [i \in 1 .. n |-> entries[i].msg] \in Seq(arrived')
      <3>1. \A i \in 1 .. n : entries[i].msg \in arrived'
        BY <1>3, EntryType
      <3> QED
        BY <1>3, <3>1
    <2> QED
      BY <1>2, <2>1, <2>2
  <1>8. expected' \in SeqNum
    <2>1. Count(entries, n) \in Nat
      BY <1>3, CountIsNat
    <2>2. expected + 1 + Count(entries, n) \in Int
      BY <2>1 DEF TypeOK, SeqNum
    <2> QED
      BY <1>2, <2>2, WireIsSeqNum DEF Count
  <1>9. highest' \in SeqNum \cup {None}
    <2>1. n # 0 => entries[n] \in heap
      BY <1>3
    <2> QED
      BY <1>2, <2>1, EntryType
  <1>10. overflow' \subseteq arrived' /\ arrived' \subseteq DOMAIN msgs
    BY <1>2 DEF TypeOK
  <1> QED
    BY <1>2, <1>5, <1>6, <1>7, <1>8, <1>9, <1>10 DEF TypeOK

(* A channel stays type-correct, whatever the traffic. *)
LEMMA TypeStep ==
    ASSUME TypeOK, IsFiniteSet(heap), [Next]_vars
    PROVE  TypeOK' /\ IsFiniteSet(heap')
  <1>1. CASE SendOrdered \/ SendSequenced
    <2>1. PICK b \in BOOLEAN, u \in SeqNum :
              /\ msgs' = Append(msgs, [ordered |-> b, ord |-> nextOrd, sub |-> u])
              /\ Len(msgs) < MaxMessages
      <3>1. 0 \in SeqNum
        BY SeqCountPos DEF SeqNum
      <3>2. nextSub \in SeqNum
        BY DEF TypeOK
      <3> QED
        BY <1>1, <3>1, <3>2 DEF SendOrdered, SendSequenced
    <2>2. nextOrd' \in SeqNum /\ nextSub' \in SeqNum
      <3>1. 0 \in SeqNum
        BY SeqCountPos DEF SeqNum
      <3>2. SeqNext(nextOrd) \in SeqNum /\ SeqNext(nextSub) \in SeqNum
        <4>1. nextOrd + 1 \in Int /\ nextSub + 1 \in Int
          BY DEF TypeOK, SeqNum
        <4> QED
          BY <4>1, WireIsSeqNum DEF SeqNext, Wire
      <3> QED
        BY <1>1, <3>1, <3>2 DEF SendOrdered, SendSequenced, TypeOK
    <2>3. UNCHANGED <<arrived, receiverVars>>
      BY <1>1 DEF SendOrdered, SendSequenced
    <2>4. /\ msgs' \in Seq([ordered : BOOLEAN, ord : SeqNum, sub : SeqNum])
          /\ Len(msgs') <= MaxMessages /\ arrived' \subseteq DOMAIN msgs'
      <3> DEFINE R == [ordered : BOOLEAN, ord : SeqNum, sub : SeqNum]
                 r == [ordered |-> b, ord |-> nextOrd, sub |-> u]
      <3>1. r \in R /\ msgs \in Seq(R) /\ arrived \subseteq DOMAIN msgs
        BY DEF TypeOK
      <3>2. msgs' = Append(msgs, r) /\ Len(msgs) < MaxMessages /\ MaxMessages \in Nat
        BY <2>1, OrderingAssumption
      <3> HIDE DEF r, R
      <3>3. msgs' \in Seq(R) /\ Len(msgs') = Len(msgs) + 1
        BY <3>1, <3>2
      <3>4. DOMAIN msgs \subseteq DOMAIN msgs'
        BY <3>1, <3>3
      <3> QED
        BY <2>3, <3>1, <3>2, <3>3, <3>4 DEF R
    <2> QED
      BY <2>2, <2>3, <2>4 DEF TypeOK, receiverVars
  <1>2. ASSUME NEW k \in 1 .. MaxMessages, Arrive(k)
        PROVE  TypeOK' /\ IsFiniteSet(heap')
    <2>1. /\ k \in DOMAIN msgs /\ arrived' = arrived \cup {k}
          /\ UNCHANGED <<msgs, nextOrd, nextSub>>
          /\ SequencedFrame(k) \/ OrderedFrame(k)
      BY <1>2 DEF Arrive
    <2>2. CASE DeliverAndFlush(k)
      BY <2>1, <2>2, FlushType
    <2>3. CASE Buffer(k)
      BY <2>1, <2>3, BufferType
    <2>4. CASE Drop
      <3>1. UNCHANGED <<expected, highest, heap, count, log, overflow>>
        BY <2>4 DEF Drop, receiverVars
      <3>2. log \in Seq(arrived') /\ heap \subseteq
               [ord : SeqNum, sub : SeqNum \cup {OrderedSubKey},
                count : 1 .. count, ordered : BOOLEAN, msg : arrived']
        BY <2>1 DEF TypeOK
      <3> QED
        BY <2>1, <3>1, <3>2 DEF TypeOK
    <2>5. CASE /\ highest' = msgs[k].sub
               /\ log' = Append(log, k)
               /\ UNCHANGED <<expected, heap, count, overflow>>
      <3>1. highest' \in SeqNum
        BY <2>1, <2>5, MessageType
      <3>2. log' \in Seq(arrived') /\ heap \subseteq
               [ord : SeqNum, sub : SeqNum \cup {OrderedSubKey},
                count : 1 .. count, ordered : BOOLEAN, msg : arrived']
        <4>1. log \in Seq(arrived')
          BY <2>1 DEF TypeOK
        <4> QED
          BY <2>1, <2>5, <4>1 DEF TypeOK
      <3> QED
        BY <2>1, <2>5, <3>1, <3>2 DEF TypeOK
    <2> QED
      BY <2>1, <2>2, <2>3, <2>4, <2>5 DEF SequencedFrame, OrderedFrame
  <1>3. CASE UNCHANGED vars
    BY <1>3 DEF vars, receiverVars, TypeOK
  <1> QED
    BY <1>1, <1>2, <1>3 DEF Next

LEMMA TypeInit ==
    ASSUME Init
    PROVE  TypeOK /\ IsFiniteSet(heap)
  <1>1. 0 \in SeqNum /\ FirstIndex \in SeqNum /\ MaxMessages \in Nat
    BY SeqCountPos, OrderingAssumption DEF SeqNum
  <1> QED
    BY <1>1, FS_EmptySet DEF Init, TypeOK

(* TypeOK holds for every size of the index space and of the heap, any     *)
(* number of messages and any order of arrival.                            *)
THEOREM TypeCorrect == Spec => []TypeOK
  <1>1. Init => TypeOK /\ IsFiniteSet(heap)
    BY TypeInit
  <1>2. TypeOK /\ IsFiniteSet(heap) /\ [Next]_vars => (TypeOK /\ IsFiniteSet(heap))'
    BY TypeStep
  <1> QED
    BY <1>1, <1>2, PTL DEF Spec

(* What was handed to the application stays, and more comes after it.      *)
LEMMA LogExtends ==
    ASSUME TypeOK, TypeOK', IsFiniteSet(heap), [Next]_vars
    PROVE  \E new \in Seq(Nat) : log' = log \o new
  <1>1. log \in Seq(Nat)
    <2>1. log \in Seq(arrived) /\ arrived \subseteq Nat
      BY DEF TypeOK
    <2> QED
      BY <2>1, SeqMonotonic
  <1>2. CASE log' = log
    <2>1. log \o << >> = log /\ << >> \in Seq(Nat)
      BY <1>1
    <2> QED
      BY <1>2, <2>1
  <1>3. ASSUME NEW k \in 1 .. MaxMessages, log' = Append(log, k)
        PROVE  \E new \in Seq(Nat) : log' = log \o new
    <2>1. k \in Nat
      BY OrderingAssumption
    <2>2. log' = log \o <<k>> /\ <<k>> \in Seq(Nat)
      BY <1>1, <1>3, <2>1
    <2> QED
      BY <2>2
  <1>4. ASSUME NEW k \in 1 .. MaxMessages, DeliverAndFlush(k)
        PROVE  \E new \in Seq(Nat) : log' = log \o new
    <2>1. \A entries \in Sorted(heap) : Len(entries) \in Nat
      BY SortedListing
    <2>2. PICK entries \in Sorted(heap) : \E n \in 0 .. Len(entries) :
              log' = Append(log, k) \o [i \in 1 .. n |-> entries[i].msg]
      BY <1>4 DEF DeliverAndFlush
    <2>3. PICK n \in 0 .. Len(entries) :
              log' = Append(log, k) \o [i \in 1 .. n |-> entries[i].msg]
      BY <2>2
    <2>4. n \in Nat /\ n <= Len(entries)
      BY <2>1
    <2>5. \A i \in 1 .. n : entries[i] \in heap
      BY <2>4, SortedListing
    <2>6. \A i \in 1 .. n : entries[i].msg \in Nat
      <3>1. \A e \in heap : e.msg \in Nat
        <4>1. \A e \in heap : e.msg \in DOMAIN msgs
          BY EntryType DEF TypeOK
        <4> QED
          BY <4>1 DEF TypeOK
      <3> QED
        BY <2>5, <3>1
    <2> DEFINE tail == [i \in 1 .. n |-> entries[i].msg]
    <2>7. tail \in Seq(Nat)
      BY <2>6
    <2>8. log' = Append(log, k) \o tail
      BY <2>3
    <2> HIDE DEF tail
    <2>9. Append(log, k) = log \o <<k>> /\ <<k>> \in Seq(Nat)
      BY <1>1
    <2>10. log' = log \o (<<k>> \o tail)
      BY <1>1, <2>7, <2>8, <2>9, ConcatAssociative
    <2>11. <<k>> \o tail \in Seq(Nat)
      BY <2>7, <2>9, ConcatProperties
    <2> QED
      BY <2>10, <2>11
  <1>5. CASE \E k \in 1 .. MaxMessages : Arrive(k)
    <2>1. PICK k \in 1 .. MaxMessages : SequencedFrame(k) \/ OrderedFrame(k)
      BY <1>5 DEF Arrive
    <2>2. log' = log \/ log' = Append(log, k) \/ DeliverAndFlush(k)
      BY <2>1 DEF SequencedFrame, OrderedFrame, Buffer, DropFull, Drop, receiverVars
    <2> QED
      BY <1>2, <1>3, <1>4, <2>2
  <1>6. CASE SendOrdered \/ SendSequenced \/ UNCHANGED vars
    BY <1>2, <1>6 DEF SendOrdered, SendSequenced, vars, receiverVars
  <1> QED
    BY <1>5, <1>6 DEF Next

LEMMA LogOnlyGrows == Spec => [][\E new \in Seq(Nat) : log' = log \o new]_vars
  <1>1. Init => TypeOK /\ IsFiniteSet(heap)
    BY TypeInit
  <1>2. TypeOK /\ IsFiniteSet(heap) /\ [Next]_vars => (TypeOK /\ IsFiniteSet(heap))'
    BY TypeStep
  <1>3. TypeOK /\ IsFiniteSet(heap) /\ TypeOK' /\ [Next]_vars
            => [\E new \in Seq(Nat) : log' = log \o new]_vars
    BY LogExtends
  <1> QED
    BY <1>1, <1>2, <1>3, PTL DEF Spec

----------------------------------------------------------------------------
(* Slots.                                                                  *)

LEMMA SlotCounted ==
    \A k : Slot(k) = SlotIn(msgs, k)
  BY DEF Slot, SlotIn, Count, OrderedBefore

(* Slots are numbers and rise with the messages, past each ordered one;    *)
(* every slot below that of k has its ordered message, sent before k.      *)
LEMMA SlotFacts ==
    ASSUME NEW m, NEW len \in Nat
    PROVE  /\ \A k \in 1 .. len + 1 : SlotIn(m, k) \in Nat
           /\ \A j, k \in 1 .. len + 1 : j <= k => SlotIn(m, j) <= SlotIn(m, k)
           /\ \A j, k \in 1 .. len + 1 :
                 j < k /\ m[j].ordered => SlotIn(m, j) < SlotIn(m, k)
           /\ \A k \in 1 .. len + 1 : \A v \in Nat :
                 v < SlotIn(m, k) =>
                    \E j \in 1 .. k - 1 : m[j].ordered /\ SlotIn(m, j) = v
  <1>1. \A k \in 1 .. len + 1 : k - 1 \in Nat /\ (k - 1) + 1 = k
    OBVIOUS
  <1>2. ASSUME NEW k \in 1 .. len + 1 PROVE SlotIn(m, k) \in Nat
    BY <1>1, CountIsNat DEF SlotIn
  <1>3. ASSUME NEW j \in 1 .. len + 1, NEW k \in 1 .. len + 1, j <= k
        PROVE  SlotIn(m, j) <= SlotIn(m, k)
    <2>1. j - 1 <= k - 1 /\ j - 1 \in Nat /\ k - 1 \in Nat
      BY <1>3
    <2> QED
      BY <2>1, CountMonotone DEF SlotIn
  <1>4. ASSUME NEW j \in 1 .. len + 1, NEW k \in 1 .. len + 1, j < k, m[j].ordered
        PROVE  SlotIn(m, j) < SlotIn(m, k)
    <2>1. j - 1 < k - 1 /\ j - 1 \in Nat /\ k - 1 \in Nat /\ m[(j - 1) + 1].ordered
      BY <1>4, <1>1
    <2> QED
      BY <2>1, CountRises DEF SlotIn
  <1>5. ASSUME NEW k \in 1 .. len + 1, NEW v \in Nat, v < SlotIn(m, k)
        PROVE  \E j \in 1 .. k - 1 : m[j].ordered /\ SlotIn(m, j) = v
    <2>1. k - 1 \in Nat /\ v < Count(m, k - 1)
      BY <1>1, <1>5 DEF SlotIn
    <2> QED
      BY <2>1, CountReaches DEF SlotIn
  <1> QED
    BY <1>2, <1>3, <1>4, <1>5

(* A slot has one ordered message, its last.                               *)
LEMMA SlotLast ==
    ASSUME NEW m, NEW len \in Nat, NEW j \in 1 .. len, NEW k \in 1 .. len,
           m[j].ordered, SlotIn(m, k) <= SlotIn(m, j)
    PROVE  k <= j
  <1>1. k \in 1 .. len + 1 /\ j \in 1 .. len + 1
    OBVIOUS
  <1>2. SlotIn(m, j) \in Nat /\ SlotIn(m, k) \in Nat
    BY <1>1, SlotFacts
  <1>3. j < k => SlotIn(m, j) < SlotIn(m, k)
    BY <1>1, SlotFacts
  <1> QED
    BY <1>2, <1>3

(* Messages of earlier slots were sent earlier.                            *)
LEMMA SlotBefore ==
    ASSUME NEW m, NEW len \in Nat, NEW j \in 1 .. len, NEW k \in 1 .. len,
           SlotIn(m, j) < SlotIn(m, k)
    PROVE  j < k
  <1>1. k \in 1 .. len + 1 /\ j \in 1 .. len + 1
    OBVIOUS
  <1>2. SlotIn(m, j) \in Nat /\ SlotIn(m, k) \in Nat
    BY <1>1, SlotFacts
  <1>3. k <= j => SlotIn(m, k) <= SlotIn(m, j)
    BY <1>1, SlotFacts
  <1> QED
    BY <1>2, <1>3

(* What goes to the log adds to Done what it has of ordered messages.      *)
LEMMA DoneGrows ==
    ASSUME TypeOK, UNCHANGED msgs, NEW n \in Nat, NEW g,
           DOMAIN log' = 1 .. Len(log) + n,
           \A i \in 1 .. Len(log) : log'[i] = log[i],
           \A i \in 1 .. n : msgs[log'[Len(log) + i]] = g[i]
    PROVE  Done' = Done + Count(g, n)
  <1> DEFINE f == [i \in 1 .. Len(log) |-> msgs[log[i]]]
             h == [i \in 1 .. Len(log) + n |-> msgs[log'[i]]]
             len == Len(log)
  <1>1. len \in Nat /\ DOMAIN log = 1 .. len
    BY DEF TypeOK
  <1>2. OrderedDelivered = {i \in 1 .. len : f[i].ordered}
    BY <1>1 DEF OrderedDelivered
  <1>3. OrderedDelivered' = {i \in 1 .. len + n : h[i].ordered}
    BY DEF OrderedDelivered
  <1>4. \A i \in 1 .. len : h[i].ordered <=> f[i].ordered
    BY <1>1
  <1>5. \A i \in 1 .. n : h[len + i] = g[i]
    BY <1>1
  <1>6. Done = Count(f, len) /\ Done' = Count(h, len + n)
    BY <1>2, <1>3 DEF Done, Count
  <1> HIDE DEF f, h, len
  <1>7. Count(h, len) = Count(f, len)
    BY <1>1, <1>4, CountSame
  <1>8. Count(h, len + n) = Count(h, len) + Count(g, n)
    <2>1. GoesOn(h, len, g, n) /\ len \in Nat
      BY <1>1, <1>5 DEF GoesOn
    <2> QED
      BY <2>1, CountGoesOn
  <1> QED
    BY <1>6, <1>7, <1>8

LEMMA DoneIsNat ==
    ASSUME TypeOK
    PROVE  Done \in Nat
  <1> DEFINE f == [i \in 1 .. Len(log) |-> msgs[log[i]]]
  <1>1. Len(log) \in Nat /\ DOMAIN log = 1 .. Len(log)
    BY DEF TypeOK
  <1>2. OrderedDelivered = {i \in 1 .. Len(log) : f[i].ordered}
    BY <1>1 DEF OrderedDelivered
  <1>3. Done = Count(f, Len(log))
    BY <1>2 DEF Done, Count
  <1> HIDE DEF f
  <1> QED
    BY <1>1, <1>3, CountIsNat

(* _handle_frame's comparisons tell where the frame's slot is.             *)
LEMMA Routing ==
    ASSUME TypeOK, Stamped, Logged, NEW k \in DOMAIN msgs, InReach(k)
    PROVE  /\ SlotIn(msgs, k) \in Nat /\ Done \in Nat
           /\ Current(k) <=> SlotIn(msgs, k) = Done
           /\ Future(k) <=> SlotIn(msgs, k) > Done
           /\ SlotIn(msgs, k) < Done + HalfSeq
  <1> DEFINE s == SlotIn(msgs, k)
  <1>1. s \in Nat /\ Done \in Nat
    <2>1. k \in 1 .. Len(msgs) + 1 /\ Len(msgs) \in Nat
      BY MessageType
    <2> QED
      BY <2>1, SlotFacts, DoneIsNat
  <1>2. s - Done <= MaxAhead /\ Done - s < HalfSeq
    BY SlotCounted DEF InReach, Done
  <1>3. msgs[k].ord = Wire(FirstIndex + s) /\ expected = Wire(FirstIndex + Done)
    BY DEF Stamped, Logged
  <1> HIDE DEF s
  <1>4. FirstIndex \in Nat /\ MaxAhead \in Nat /\ MaxAhead < HalfSeq /\ HalfSeq \in Nat
    BY OrderingAssumption, HalfSeqAssumption DEF SeqNum
  <1> DEFINE i == FirstIndex + s
             j == FirstIndex + Done
  <1>5. /\ i \in Nat /\ j \in Nat /\ j - HalfSeq < i /\ i < j + HalfSeq
        /\ i = j <=> s = Done
        /\ i > j <=> s > Done
        /\ s < Done + HalfSeq
    BY <1>1, <1>2, <1>4
  <1>6. msgs[k].ord = Wire(i) /\ expected = Wire(j)
    BY <1>3
  <1> HIDE DEF i, j
  <1>7. /\ Wire(i) = Wire(j) <=> i = j
        /\ SeqGreaterThan(Wire(i), Wire(j)) <=> i > j
    BY <1>5, WireCompare
  <1>8. Current(k) <=> s = Done
    BY <1>5, <1>6, <1>7 DEF Current
  <1>9. Future(k) <=> s > Done
    BY <1>5, <1>6, <1>7 DEF Future
  <1> QED
    BY <1>1, <1>5, <1>8, <1>9 DEF s

----------------------------------------------------------------------------
(* Sending.                                                                *)

LEMMA SendStep ==
    ASSUME IInv, TypeOK', ShortRuns, ShortRuns', SendOrdered \/ SendSequenced
    PROVE  IInv'
  <1> DEFINE len == Len(msgs)
             new == msgs'[len + 1]
  <1>1. /\ len \in Nat /\ DOMAIN msgs = 1 .. len
        /\ Len(msgs') = len + 1 /\ DOMAIN msgs' = 1 .. len + 1
        /\ \A k \in 1 .. len : msgs'[k] = msgs[k]
        /\ new.ord = nextOrd
        /\ \/ /\ new.ordered /\ nextOrd' = SeqNext(nextOrd) /\ nextSub' = 0
           \/ /\ ~new.ordered /\ new.sub = nextSub
              /\ nextOrd' = nextOrd /\ nextSub' = SeqNext(nextSub)
    <2> DEFINE R == [ordered : BOOLEAN, ord : SeqNum, sub : SeqNum]
               a == [ordered |-> TRUE, ord |-> nextOrd, sub |-> 0]
               b == [ordered |-> FALSE, ord |-> nextOrd, sub |-> nextSub]
    <2>1. msgs \in Seq(R)
      BY DEF IInv, TypeOK
    <2>2. /\ a.ordered /\ a.ord = nextOrd
          /\ ~b.ordered /\ b.ord = nextOrd /\ b.sub = nextSub
      OBVIOUS
    <2>3. \/ /\ msgs' = Append(msgs, a) /\ nextOrd' = SeqNext(nextOrd) /\ nextSub' = 0
          \/ /\ msgs' = Append(msgs, b)
             /\ nextOrd' = nextOrd /\ nextSub' = SeqNext(nextSub)
      BY DEF SendOrdered, SendSequenced
    <2> HIDE DEF R, a, b
    <2>4. len \in Nat /\ DOMAIN msgs = 1 .. len
      BY <2>1
    <2>5. /\ Len(msgs') = len + 1 /\ DOMAIN msgs' = 1 .. len + 1
          /\ \A k \in 1 .. len : msgs'[k] = msgs[k]
          /\ msgs' = Append(msgs, a) => new = a
          /\ msgs' = Append(msgs, b) => new = b
      BY <2>1, <2>3
    <2> QED
      BY <2>2, <2>3, <2>4, <2>5
  <1>2. UNCHANGED <<arrived, expected, highest, heap, count, log, overflow>>
    BY DEF SendOrdered, SendSequenced, receiverVars
  <1> DEFINE S(k) == SlotIn(msgs, k)
             T(k) == SlotIn(msgs', k)
  <1>3. ASSUME NEW k \in 1 .. len + 1 PROVE T(k) = S(k)
    <2>1. k - 1 \in Nat /\ \A i \in 1 .. k - 1 : msgs'[i].ordered <=> msgs[i].ordered
      BY <1>1
    <2> HIDE DEF len
    <2>2. Count(msgs', k - 1) = Count(msgs, k - 1)
      BY <2>1, CountSame
    <2> QED
      BY <2>2 DEF SlotIn
  <1>4. T(len + 2) = S(len + 1) + (IF new.ordered THEN 1 ELSE 0)
    <2>1. Count(msgs', len + 1) = Count(msgs', len) + (IF new.ordered THEN 1 ELSE 0)
      BY <1>1, CountStep
    <2>2. len + 2 - 1 = len + 1 /\ len + 1 - 1 = len
      BY <1>1
    <2>3. T(len + 1) = S(len + 1)
      BY <1>1, <1>3
    <2> QED
      BY <2>1, <2>2, <2>3 DEF SlotIn
  <1>5. /\ \A k \in 1 .. len + 1 : S(k) \in Nat
        /\ \A k \in 1 .. len + 1 : S(k) <= S(len + 1)
        /\ \A k \in 1 .. len : msgs[k].ordered => S(k) < S(len + 1)
    <2>1. \A k \in 1 .. len : k \in 1 .. len + 1 /\ k < len + 1
      BY <1>1
    <2>2. len + 1 \in 1 .. len + 1
      BY <1>1
    <2> HIDE DEF len
    <2>3. /\ \A k \in 1 .. len + 1 : SlotIn(msgs, k) \in Nat
          /\ \A j, k \in 1 .. len + 1 : j <= k => SlotIn(msgs, j) <= SlotIn(msgs, k)
          /\ \A j, k \in 1 .. len + 1 :
                j < k /\ msgs[j].ordered => SlotIn(msgs, j) < SlotIn(msgs, k)
      BY <1>1, SlotFacts
    <2>4. \A k \in 1 .. len + 1 : k <= len + 1
      BY <1>1
    <2> QED
      BY <2>1, <2>2, <2>3, <2>4
  <1>6. Done' = Done
    <2>1. \A i \in DOMAIN log : log[i] \in 1 .. len
      BY <1>1 DEF IInv, TypeOK
    <2>2. OrderedDelivered' = OrderedDelivered
      BY <1>1, <1>2, <2>1 DEF OrderedDelivered
    <2> QED
      BY <2>2 DEF Done
  <1>7. Done \in Nat
    BY DoneIsNat DEF IInv
  <1>8. arrived \subseteq 1 .. len /\ overflow \subseteq 1 .. len
        /\ (\A i \in DOMAIN log : log[i] \in 1 .. len)
        /\ (\A e \in heap : e.msg \in 1 .. len)
    <2>1. \A e \in heap : e.msg \in arrived
      BY EntryType DEF IInv
    <2> QED
      BY <1>1, <2>1 DEF IInv, TypeOK
  <1>9. nextSub \in Nat /\ nextSub' <= OrderedSubKey /\ OrderedSubKey \in Nat
        /\ (~new.ordered => nextSub' = nextSub + 1)
    <2>1. /\ nextSub \in SeqNum /\ nextSub \in Nat /\ nextSub' \in SeqNum
          /\ nextSub' <= OrderedSubKey /\ OrderedSubKey \in Nat /\ OrderedSubKey < HalfSeq
      BY OrderingAssumption DEF IInv, TypeOK, ShortRuns, SeqNum
    <2>2. ASSUME ~new.ordered PROVE nextSub' = nextSub + 1
      <3>1. nextSub' = Wire(nextSub + 1)
        BY <1>1, <2>2 DEF SeqNext, Wire
      <3>2. nextSub + 1 \in SeqNum
        <4>1. nextSub <= OrderedSubKey
          BY DEF ShortRuns
        <4> QED
          BY <2>1, <4>1, HalfSeqAssumption DEF SeqNum, SeqCount
      <3> QED
        BY <3>1, <3>2, WireOfNumber
    <2> QED
      BY <2>1, <2>2
  <1>10. \A k \in 1 .. len :
            /\ msgs'[k] = msgs[k] /\ T(k) = S(k) /\ S(k) \in Nat /\ S(k) <= S(len + 1)
            /\ msgs[k].ordered => S(k) < S(len + 1)
    BY <1>1, <1>3, <1>5
  <1>11. T(len + 1) = S(len + 1) /\ S(len + 1) \in Nat
    BY <1>1, <1>3, <1>5
  <1>12. /\ nextOrd = Wire(FirstIndex + S(len + 1))
         /\ nextSub <= len
         /\ \A k \in 1 .. len :
               /\ msgs[k].ord = Wire(FirstIndex + S(k))
               /\ ~msgs[k].ordered =>
                     /\ msgs[k].sub < OrderedSubKey
                     /\ S(k) = S(len + 1) => msgs[k].sub < nextSub
         /\ \A j, k \in 1 .. len :
               j < k /\ S(j) = S(k) /\ ~msgs[k].ordered => msgs[j].sub < msgs[k].sub
    BY <1>1 DEF IInv, Stamped
  <1>13. nextOrd' = Wire(FirstIndex + T(len + 2))
    <2>1. CASE ~new.ordered
      BY <1>1, <1>4, <1>11, <1>12, <2>1
    <2>2. CASE new.ordered
      <3>1. nextOrd' = Wire(Wire(FirstIndex + S(len + 1)) + 1)
        BY <1>1, <1>12, <2>2 DEF SeqNext, Wire
      <3>2. FirstIndex + S(len + 1) \in Nat /\ FirstIndex \in Nat
        BY <1>11, OrderingAssumption DEF SeqNum
      <3>3. nextOrd' = Wire(FirstIndex + S(len + 1) + 1)
        BY <3>1, <3>2, WireAdd
      <3>4. T(len + 2) = S(len + 1) + 1
        BY <1>4, <2>2
      <3> QED
        BY <1>11, <3>2, <3>3, <3>4
    <2> QED
      BY <2>1, <2>2
  <1>14. nextSub' <= len + 1
    BY <1>1, <1>9, <1>12
  <1> HIDE DEF len, new, S, T
  <1>15. ASSUME NEW k \in 1 .. len + 1
         PROVE  /\ msgs'[k].ord = Wire(FirstIndex + T(k))
                /\ ~msgs'[k].ordered =>
                      /\ msgs'[k].sub < OrderedSubKey
                      /\ T(k) = T(len + 2) => msgs'[k].sub < nextSub'
    <2>1. CASE k \in 1 .. len
      <3>1. msgs'[k].ord = Wire(FirstIndex + T(k))
        BY <1>10, <1>12, <2>1
      <3>2. ASSUME ~msgs[k].ordered PROVE msgs[k].sub < OrderedSubKey
        BY <1>12, <2>1, <3>2
      <3>3. ASSUME ~msgs[k].ordered, T(k) = T(len + 2) PROVE msgs[k].sub < nextSub'
        <4>1. ~new.ordered /\ S(k) = S(len + 1)
          BY <1>4, <1>10, <1>11, <2>1, <3>3
        <4>2. msgs[k].sub < nextSub
          BY <1>12, <2>1, <3>3, <4>1
        <4>3. msgs[k].sub \in Nat
          BY <1>1, <2>1, MessageType DEF IInv, SeqNum
        <4> QED
          BY <1>9, <4>1, <4>2, <4>3
      <3> QED
        BY <1>10, <2>1, <3>1, <3>2, <3>3
    <2>2. CASE k = len + 1
      <3>1. msgs'[k] = new
        BY <2>2 DEF new
      <3>2. ~new.ordered => new.sub < OrderedSubKey /\ new.sub < nextSub'
        BY <1>1, <1>9
      <3> QED
        BY <1>1, <1>11, <1>12, <2>2, <3>1, <3>2
    <2> QED
      BY <1>1, <2>1, <2>2
  <1>16. ASSUME NEW j \in 1 .. len + 1, NEW k \in 1 .. len + 1,
                j < k, T(j) = T(k), ~msgs'[k].ordered
         PROVE  msgs'[j].sub < msgs'[k].sub
    <2>1. j \in 1 .. len
      BY <1>1, <1>16
    <2>2. CASE k \in 1 .. len
      <3>1. S(j) = S(k) /\ ~msgs[k].ordered
        BY <1>10, <1>16, <2>1, <2>2
      <3>2. msgs[j].sub < msgs[k].sub
        BY <1>12, <1>16, <2>1, <2>2, <3>1
      <3> QED
        BY <1>10, <2>1, <2>2, <3>2
    <2>3. CASE k = len + 1
      <3>1. msgs'[k] = new /\ ~new.ordered /\ new.sub = nextSub
        BY <1>1, <1>16, <2>3 DEF new
      <3>2. S(j) = S(len + 1)
        BY <1>10, <1>11, <1>16, <2>1, <2>3
      <3>3. ~msgs[j].ordered
        BY <1>10, <1>11, <2>1, <3>2
      <3> QED
        BY <1>10, <1>12, <2>1, <3>1, <3>2, <3>3
    <2> QED
      BY <1>1, <2>2, <2>3
  <1>17. Stamped'
    <2>1. Len(msgs') + 1 = len + 2
      BY <1>1
    <2> QED
      BY <1>1, <1>13, <1>14, <1>15, <1>16, <2>1 DEF Stamped, T
  <1>18. Logged'
    <2>1. /\ expected = Wire(FirstIndex + Done) /\ Done <= S(len + 1)
          /\ highest < OrderedSubKey \/ highest = None
          /\ \A k \in 1 .. len :
                msgs[k].ordered => (S(k) < Done <=> \E i \in DOMAIN log : log[i] = k)
          /\ \A i \in DOMAIN log :
                /\ S(log[i]) <= Done
                /\ S(log[i]) = Done =>
                      ~msgs[log[i]].ordered /\ highest # None /\ msgs[log[i]].sub <= highest
      BY <1>1 DEF IInv, Logged, S, len
    <2>2. Done <= T(len + 2)
      BY <1>4, <1>7, <1>11, <2>1
    <2>3. ASSUME NEW k \in 1 .. len + 1, msgs'[k].ordered
          PROVE  T(k) < Done <=> \E i \in DOMAIN log : log[i] = k
      <3>1. CASE k \in 1 .. len
        BY <1>10, <2>1, <2>3, <3>1
      <3>2. CASE k = len + 1
        <4>1. \A i \in DOMAIN log : log[i] # k
          BY <1>1, <1>8, <3>2
        <4>2. ~(T(k) < Done)
          BY <1>7, <1>11, <2>1, <3>2
        <4> QED
          BY <4>1, <4>2
      <3> QED
        BY <1>1, <3>1, <3>2
    <2>4. ASSUME NEW i \in DOMAIN log
          PROVE  /\ T(log[i]) <= Done
                 /\ T(log[i]) = Done =>
                      ~msgs'[log[i]].ordered /\ highest # None /\ msgs'[log[i]].sub <= highest
      <3>1. log[i] \in 1 .. len
        BY <1>8
      <3>2. T(log[i]) = S(log[i]) /\ msgs'[log[i]] = msgs[log[i]]
        BY <1>10, <3>1
      <3> QED
        BY <2>1, <3>2
    <2>5. Len(msgs') + 1 = len + 2
      BY <1>1
    <2> QED
      BY <1>1, <1>2, <1>6, <2>1, <2>2, <2>3, <2>4, <2>5 DEF Logged, T
  <1>19. Buffered'
    <2>1. ASSUME NEW e \in heap
          PROVE  T(e.msg) = S(e.msg) /\ msgs'[e.msg] = msgs[e.msg]
      BY <1>8, <1>10
    <2>2. IsFiniteSet(heap) /\ Cardinality(heap) <= HeapCap
          /\ \A a, b \in heap : a.msg = b.msg => a = b
      BY DEF IInv, Buffered
    <2>3. ASSUME NEW e \in heap
          PROVE  /\ e.ord = msgs'[e.msg].ord /\ e.ordered = msgs'[e.msg].ordered
                 /\ e.sub = IF e.ordered THEN OrderedSubKey ELSE msgs'[e.msg].sub
                 /\ Done < T(e.msg) /\ T(e.msg) < Done + HalfSeq
                 /\ e.msg \notin overflow
      BY <2>1 DEF IInv, Buffered, S
    <2> QED
      BY <1>2, <1>6, <2>2, <2>3 DEF Buffered, T
  <1>20. Accounted'
    <2>1. ASSUME NEW k \in arrived, msgs'[k].ordered
          PROVE  \/ \E i \in DOMAIN log : log[i] = k
                 \/ \E e \in heap : e.msg = k
                 \/ k \in overflow
      <3>1. msgs[k].ordered
        BY <1>8, <1>10, <2>1
      <3> QED
        BY <3>1 DEF IInv, Accounted
    <2>2. ASSUME NEW k \in overflow, msgs'[k].ordered
          PROVE  Done <= T(k)
      <3>1. k \in 1 .. len
        BY <1>8
      <3>2. msgs[k].ordered /\ T(k) = S(k)
        BY <1>10, <2>2, <3>1
      <3> QED
        BY <3>2 DEF IInv, Accounted, S
    <2> QED
      BY <1>2, <1>6, <2>1, <2>2 DEF Accounted, T
  <1>21. DeliveredInSendOrder'
    BY <1>2 DEF IInv, DeliveredInSendOrder
  <1> QED
    BY <1>17, <1>18, <1>19, <1>20, <1>21 DEF IInv

----------------------------------------------------------------------------
(* Receiving.                                                              *)

\* What every arrival has in common.
Receives(k) ==
    /\ k \in DOMAIN msgs \ arrived /\ InReach(k)
    /\ arrived' = arrived \cup {k}
    /\ UNCHANGED <<msgs, nextOrd, nextSub>>

LEMMA ReceiveFacts ==
    ASSUME IInv, NEW k, Receives(k)
    PROVE  /\ k \in 1 .. Len(msgs) /\ k \notin arrived
           /\ Len(msgs) \in Nat /\ DOMAIN msgs = 1 .. Len(msgs)
           /\ DOMAIN log = 1 .. Len(log) /\ Len(log) \in Nat
           /\ \A i \in DOMAIN log : log[i] \in arrived /\ log[i] \in 1 .. Len(msgs)
           /\ \A e \in heap : e.msg \in arrived /\ e.msg \in 1 .. Len(msgs)
           /\ overflow \subseteq arrived /\ arrived \subseteq 1 .. Len(msgs)
           /\ Stamped'
  <1>1. k \in 1 .. Len(msgs) /\ k \notin arrived
        /\ Len(msgs) \in Nat /\ DOMAIN msgs = 1 .. Len(msgs)
    BY MessageType DEF IInv, TypeOK, Receives
  <1>2. DOMAIN log = 1 .. Len(log) /\ Len(log) \in Nat
        /\ \A i \in DOMAIN log : log[i] \in arrived
    BY DEF IInv, TypeOK
  <1>3. overflow \subseteq arrived /\ arrived \subseteq 1 .. Len(msgs)
    BY <1>1 DEF IInv, TypeOK
  <1>4. \A e \in heap : e.msg \in arrived
    BY EntryType DEF IInv
  <1>5. Stamped'
    BY DEF IInv, Stamped, Receives
  <1> QED
    BY <1>1, <1>2, <1>3, <1>4, <1>5

(* A frame of the awaited slot was sent after all that is in the log.      *)
LEMMA LogOlder ==
    ASSUME IInv, NEW k \in 1 .. Len(msgs), k \notin arrived,
           SlotIn(msgs, k) = Done,
           msgs[k].ordered \/ highest = None \/ highest < msgs[k].sub,
           NEW i \in DOMAIN log
    PROVE  log[i] < k
  <1> DEFINE l == log[i]
             len == Len(msgs)
  <1>1. len \in Nat /\ k \in 1 .. len /\ l \in 1 .. len /\ l # k /\ DOMAIN msgs = 1 .. len
    BY DEF IInv, TypeOK
  <1>2. /\ SlotIn(msgs, l) <= Done
        /\ SlotIn(msgs, l) = Done =>
              ~msgs[l].ordered /\ highest # None /\ msgs[l].sub <= highest
    BY DEF IInv, Logged
  <1>3. msgs[k].sub \in Nat /\ msgs[l].sub \in Nat /\ (highest = None \/ highest \in Nat)
    <2>1. \A j \in DOMAIN msgs : msgs[j].sub \in Nat
      BY MessageType DEF IInv, SeqNum
    <2>2. highest = None \/ highest \in Nat
      BY DEF IInv, TypeOK, SeqNum
    <2> QED
      BY <1>1, <2>1, <2>2
  <1>4. SlotIn(msgs, l) = SlotIn(msgs, k) /\ k < l /\ ~msgs[l].ordered => msgs[k].sub < msgs[l].sub
    BY <1>1 DEF IInv, Stamped
  <1> HIDE DEF l, len
  <1>5. SlotIn(msgs, l) \in Nat /\ Done \in Nat
    <2>1. l \in 1 .. len + 1
      BY <1>1
    <2> QED
      BY <1>1, <2>1, SlotFacts, DoneIsNat DEF IInv
  <1>6. CASE SlotIn(msgs, l) < Done
    <2>1. l < k
      BY <1>1, <1>6, SlotBefore
    <2> QED
      BY <2>1 DEF l
  <1>7. CASE SlotIn(msgs, l) = Done
    <2>1. ~msgs[l].ordered /\ highest # None /\ msgs[l].sub <= highest
      BY <1>2, <1>7
    <2>2. CASE msgs[k].ordered
      <3>1. SlotIn(msgs, l) <= SlotIn(msgs, k)
        BY <1>5, <1>7
      <3>2. l <= k
        BY <1>1, <2>2, <3>1, SlotLast
      <3> QED
        BY <1>1, <3>2 DEF l
    <2>3. CASE highest < msgs[k].sub
      <3>1. ~(k < l)
        BY <1>3, <1>4, <1>7, <2>1, <2>3
      <3> QED
        BY <1>1, <3>1 DEF l
    <2> QED
      BY <2>1, <2>2, <2>3
  <1> QED
    BY <1>2, <1>5, <1>6, <1>7

(* The code's comparison of sequencing indices.                            *)
LEMMA NewerSub ==
    ASSUME IInv, NEW k \in DOMAIN msgs, ~msgs[k].ordered, highest # None
    PROVE  SeqGreaterThan(msgs[k].sub, highest) <=> highest < msgs[k].sub
  <1> DEFINE a == msgs[k].sub
  <1>1. a \in SeqNum /\ highest \in SeqNum /\ a < HalfSeq /\ highest < HalfSeq
    <2>1. a \in SeqNum /\ highest \in SeqNum
      BY MessageType DEF IInv, TypeOK
    <2>2. a < OrderedSubKey /\ highest < OrderedSubKey
      BY DEF IInv, Stamped, Logged
    <2> QED
      BY <2>1, <2>2, OrderingAssumption, HalfSeqAssumption DEF SeqNum
  <1> HIDE DEF a
  <1>2. Wire(a) = a /\ Wire(highest) = highest
    BY <1>1, WireOfNumber
  <1>3. /\ a \in Nat /\ highest \in Nat
        /\ highest - HalfSeq < a /\ a < highest + HalfSeq
    BY <1>1, HalfSeqAssumption DEF SeqNum
  <1>4. SeqGreaterThan(Wire(a), Wire(highest)) <=> a > highest
    BY <1>3, WireCompare
  <1> QED
    BY <1>2, <1>3, <1>4 DEF a

(* A frame that is dropped, of an earlier slot or superseded.              *)
LEMMA DropStep ==
    ASSUME IInv, TypeOK', NEW k, Receives(k), Drop,
           msgs[k].ordered => SlotIn(msgs, k) < Done
    PROVE  IInv'
  <1>1. UNCHANGED <<msgs, expected, highest, heap, count, log, overflow>>
        /\ arrived' = arrived \cup {k}
    BY DEF Drop, receiverVars, Receives
  <1>2. Done' = Done
    BY <1>1 DEF Done, OrderedDelivered
  <1>3. Stamped'
    BY ReceiveFacts
  <1>4. Logged'
    BY <1>1, <1>2 DEF IInv, Logged
  <1>5. Buffered'
    BY <1>1, <1>2 DEF IInv, Buffered
  <1>6. msgs[k].ordered => \E i \in DOMAIN log : log[i] = k
    BY ReceiveFacts DEF IInv, Logged
  <1>7. Accounted'
    BY <1>1, <1>2, <1>6 DEF IInv, Accounted
  <1>8. DeliveredInSendOrder'
    BY <1>1 DEF IInv, DeliveredInSendOrder
  <1> QED
    BY <1>3, <1>4, <1>5, <1>7, <1>8 DEF IInv

(* A frame of a later slot, put in the heap or lost when that is full.     *)
LEMMA BufferStep ==
    ASSUME IInv, TypeOK', NEW k, Receives(k), Buffer(k),
           Done < SlotIn(msgs, k), SlotIn(msgs, k) < Done + HalfSeq
    PROVE  IInv'
  <1> DEFINE new == [ord |-> msgs[k].ord,
                     sub |-> IF msgs[k].ordered THEN OrderedSubKey ELSE msgs[k].sub,
                     count |-> count + 1, ordered |-> msgs[k].ordered, msg |-> k]
  <1>1. /\ UNCHANGED <<msgs, expected, highest, log>> /\ arrived' = arrived \cup {k}
        /\ \/ heap' = heap \cup {new} /\ overflow' = overflow /\ Cardinality(heap) < HeapCap
           \/ heap' = heap /\ overflow' = overflow \cup {k}
    BY DEF Buffer, DropFull, Receives
  <1>2. /\ new.ord = msgs[k].ord /\ new.ordered = msgs[k].ordered /\ new.msg = k
        /\ new.sub = IF msgs[k].ordered THEN OrderedSubKey ELSE msgs[k].sub
    OBVIOUS
  <1> HIDE DEF new
  <1>3. Done' = Done
    BY <1>1 DEF Done, OrderedDelivered
  <1>4. Stamped'
    BY ReceiveFacts
  <1>5. Logged'
    BY <1>1, <1>3 DEF IInv, Logged
  <1>6. k \notin arrived /\ k \notin overflow /\ (\A e \in heap : e.msg # k)
    BY ReceiveFacts
  <1>7. Buffered'
    <2>1. IsFiniteSet(heap') /\ Cardinality(heap') <= HeapCap
      <3>1. CASE heap' = heap
        BY <3>1 DEF IInv, Buffered
      <3>2. CASE heap' = heap \cup {new} /\ Cardinality(heap) < HeapCap
        <4>1. IsFiniteSet(heap) /\ Cardinality(heap) \in Nat
          BY FS_CardinalityType DEF IInv, Buffered
        <4>2. new \notin heap
          BY <1>2, <1>6
        <4>3. IsFiniteSet(heap') /\ Cardinality(heap') = Cardinality(heap) + 1
          BY <3>2, <4>1, <4>2, FS_AddElement
        <4> QED
          BY <3>2, <4>1, <4>3, OrderingAssumption
      <3> QED
        BY <1>1, <3>1, <3>2
    <2>2. ASSUME NEW e \in heap'
          PROVE  /\ e.ord = msgs[e.msg].ord /\ e.ordered = msgs[e.msg].ordered
                 /\ e.sub = IF e.ordered THEN OrderedSubKey ELSE msgs[e.msg].sub
                 /\ Done < SlotIn(msgs, e.msg) /\ SlotIn(msgs, e.msg) < Done + HalfSeq
                 /\ e.msg \notin overflow'
      <3>1. CASE e \in heap
        <4>1. e.msg \notin overflow /\ e.msg # k
          BY <1>6, <3>1 DEF IInv, Buffered
        <4>2. e.msg \notin overflow'
          BY <1>1, <4>1
        <4> QED
          BY <3>1, <4>2 DEF IInv, Buffered
      <3>2. CASE e = new /\ overflow' = overflow
        BY <1>2, <1>6, <3>2
      <3> QED
        BY <1>1, <3>1, <3>2
    <2>3. \A a, b \in heap' : a.msg = b.msg => a = b
      <3>1. \A a, b \in heap : a.msg = b.msg => a = b
        BY DEF IInv, Buffered
      <3> QED
        BY <1>1, <1>2, <1>6, <3>1
    <2> QED
      BY <1>1, <1>3, <2>1, <2>2, <2>3 DEF Buffered
  <1>8. Accounted'
    <2>1. ASSUME NEW j \in arrived', msgs[j].ordered
          PROVE  \/ \E i \in DOMAIN log : log[i] = j
                 \/ \E e \in heap' : e.msg = j
                 \/ j \in overflow'
      <3>1. CASE j \in arrived
        BY <1>1, <2>1, <3>1 DEF IInv, Accounted
      <3>2. CASE j = k
        BY <1>1, <1>2, <3>2
      <3> QED
        BY <1>1, <3>1, <3>2
    <2>2. ASSUME NEW j \in overflow', msgs[j].ordered
          PROVE  Done <= SlotIn(msgs, j)
      <3>1. CASE j \in overflow
        BY <2>2, <3>1 DEF IInv, Accounted
      <3>2. CASE j = k
        <4>1. Done \in Nat /\ SlotIn(msgs, k) \in Nat
          <5>1. k \in 1 .. Len(msgs) + 1 /\ Len(msgs) \in Nat
            BY ReceiveFacts
          <5> QED
            BY <5>1, DoneIsNat, SlotFacts DEF IInv
        <4> QED
          BY <3>2, <4>1
      <3> QED
        BY <1>1, <3>1, <3>2
    <2> QED
      BY <1>1, <1>3, <2>1, <2>2 DEF Accounted
  <1>9. DeliveredInSendOrder'
    BY <1>1 DEF IInv, DeliveredInSendOrder
  <1> QED
    BY <1>4, <1>5, <1>7, <1>8, <1>9 DEF IInv

(* A sequenced frame of the awaited slot that is newer than the last one.  *)
LEMMA DeliverSequencedStep ==
    ASSUME IInv, TypeOK', NEW k, Receives(k), ~msgs[k].ordered, SlotIn(msgs, k) = Done,
           highest = None \/ SeqGreaterThan(msgs[k].sub, highest),
           highest' = msgs[k].sub, log' = Append(log, k),
           UNCHANGED <<expected, heap, count, overflow>>
    PROVE  IInv'
  <1> DEFINE last == Len(log) + 1
  <1>1. /\ k \in 1 .. Len(msgs) /\ k \notin arrived /\ DOMAIN msgs = 1 .. Len(msgs)
        /\ UNCHANGED <<msgs, expected, heap, overflow>> /\ arrived' = arrived \cup {k}
    BY ReceiveFacts DEF Receives
  <1>2. /\ DOMAIN log = 1 .. Len(log) /\ Len(log) \in Nat
        /\ DOMAIN log' = 1 .. Len(log) + 1 /\ log'[Len(log) + 1] = k
        /\ \A i \in 1 .. Len(log) : log'[i] = log[i]
    BY DEF IInv, TypeOK
  <1>3. Done' = Done /\ Done \in Nat
    <2> DEFINE g == [i \in 1 .. 1 |-> msgs[k]]
    <2>1. \A i \in 1 .. 1 : msgs[log'[Len(log) + i]] = g[i]
      BY <1>2
    <2>2. ~g[0 + 1].ordered
      OBVIOUS
    <2> HIDE DEF g
    <2>3. Done' = Done + Count(g, 1)
      BY <1>1, <1>2, <2>1, DoneGrows DEF IInv
    <2>4. Count(g, 0 + 1) = Count(g, 0) + 0 /\ Count(g, 0) = 0
      BY <2>2, CountStep, CountZero
    <2> QED
      BY <2>3, <2>4, DoneIsNat DEF IInv
  <1>4. highest = None \/ highest < msgs[k].sub
    BY <1>1, NewerSub
  <1>5. \A i \in DOMAIN log : log[i] < k
    BY <1>1, <1>4, LogOlder
  <1>6. Stamped'
    BY ReceiveFacts
  <1>7. msgs[k].sub \in Nat /\ msgs[k].sub < OrderedSubKey
        /\ (highest = None \/ highest \in Nat)
    <2>1. msgs[k].sub \in Nat
      BY <1>1, MessageType DEF IInv, SeqNum
    <2>2. highest = None \/ highest \in Nat
      BY DEF IInv, TypeOK, SeqNum
    <2>3. msgs[k].sub < OrderedSubKey
      BY <1>1 DEF IInv, Stamped
    <2> QED
      BY <2>1, <2>2, <2>3
  <1>8. Logged'
    <2>1. ASSUME NEW m \in DOMAIN msgs, msgs[m].ordered
          PROVE  SlotIn(msgs, m) < Done <=> \E i \in DOMAIN log' : log'[i] = m
      <3>1. SlotIn(msgs, m) < Done <=> \E i \in DOMAIN log : log[i] = m
        BY <2>1 DEF IInv, Logged
      <3>2. m # k
        BY <2>1
      <3> QED
        BY <1>2, <3>1, <3>2
    <2>2. ASSUME NEW i \in DOMAIN log'
          PROVE  /\ SlotIn(msgs, log'[i]) <= Done
                 /\ SlotIn(msgs, log'[i]) = Done =>
                       /\ ~msgs[log'[i]].ordered /\ highest' # None
                       /\ msgs[log'[i]].sub <= highest'
      <3>0. highest' # None
        BY <1>7 DEF None
      <3>1. CASE i = last
        BY <1>2, <1>3, <1>7, <3>0, <3>1
      <3>2. CASE i \in DOMAIN log
        <4>1. /\ SlotIn(msgs, log[i]) <= Done
              /\ SlotIn(msgs, log[i]) = Done =>
                    ~msgs[log[i]].ordered /\ highest # None /\ msgs[log[i]].sub <= highest
          BY <3>2 DEF IInv, Logged
        <4>2. msgs[log[i]].sub \in Nat /\ log'[i] = log[i]
          <5>1. log[i] \in DOMAIN msgs
            BY <1>1, <3>2, ReceiveFacts
          <5> QED
            BY <1>2, <3>2, <5>1, MessageType DEF IInv, SeqNum
        <4> QED
          BY <1>4, <1>7, <3>0, <4>1, <4>2
      <3> QED
        BY <1>2, <3>1, <3>2
    <2> QED
      BY <1>1, <1>3, <1>7, <2>1, <2>2 DEF IInv, Logged
  <1>9. Buffered'
    BY <1>1, <1>3 DEF IInv, Buffered
  <1>10. Accounted'
    <2>1. ASSUME NEW j \in arrived', msgs[j].ordered
          PROVE  \/ \E i \in DOMAIN log' : log'[i] = j
                 \/ \E e \in heap : e.msg = j
                 \/ j \in overflow
      <3>1. j \in arrived
        BY <1>1, <2>1
      <3>2. (\E i \in DOMAIN log : log[i] = j) => \E i \in DOMAIN log' : log'[i] = j
        BY <1>2
      <3> QED
        BY <2>1, <3>1, <3>2 DEF IInv, Accounted
    <2> QED
      BY <1>1, <1>3, <2>1 DEF IInv, Accounted
  <1>11. DeliveredInSendOrder'
    <2>1. ASSUME NEW i \in DOMAIN log', NEW j \in DOMAIN log', i < j
          PROVE  log'[i] < log'[j]
      <3>1. i \in DOMAIN log /\ log'[i] = log[i]
        BY <1>2, <2>1
      <3>2. CASE j = last
        BY <1>2, <1>5, <3>1, <3>2
      <3>3. CASE j \in DOMAIN log
        BY <1>2, <2>1, <3>1, <3>3 DEF IInv, DeliveredInSendOrder
      <3> QED
        BY <1>2, <3>2, <3>3
    <2> QED
      BY <2>1 DEF DeliveredInSendOrder
  <1> QED
    BY <1>6, <1>8, <1>9, <1>10, <1>11 DEF IInv

(* Entries of one slot stand in the heap as their messages were sent, the  *)
(* ordered one last.                                                       *)
LEMMA EntriesOfSlot ==
    ASSUME IInv, NEW entries \in Sorted(heap),
           NEW i \in DOMAIN entries, NEW j \in DOMAIN entries, i < j,
           SlotIn(msgs, entries[i].msg) = SlotIn(msgs, entries[j].msg)
    PROVE  /\ ~entries[i].ordered /\ entries[i].sub <= entries[j].sub
           /\ entries[i].msg < entries[j].msg
  <1> DEFINE a == entries[i]
             b == entries[j]
             len == Len(msgs)
  <1>1. IsFiniteSet(heap)
    BY DEF IInv, Buffered
  <1>2. a \in heap /\ b \in heap /\ a # b /\ Precedes(a, b)
    <2>1. entries \in Seq(heap)
      BY <1>1, SortedListing
    <2>2. i # j
      BY <1>1, SortedListing
    <2> QED
      BY <1>1, <2>1, <2>2, SortedListing
  <1>3. SlotIn(msgs, a.msg) = SlotIn(msgs, b.msg)
    OBVIOUS
  <1>4. len \in Nat /\ DOMAIN msgs = 1 .. len
    BY DEF IInv, TypeOK
  <1> SUFFICES ~a.ordered /\ a.sub <= b.sub /\ a.msg < b.msg
    OBVIOUS
  <1> HIDE DEF a, b, len
  <1>5. a.msg \in 1 .. len /\ b.msg \in 1 .. len /\ a.msg # b.msg
    <2>1. a.msg \in DOMAIN msgs /\ b.msg \in DOMAIN msgs
      BY <1>2, EntryType DEF IInv, TypeOK
    <2>2. a.msg # b.msg
      BY <1>2 DEF IInv, Buffered
    <2> QED
      BY <1>4, <2>1, <2>2
  <1>6. /\ a.ord = Wire(FirstIndex + SlotIn(msgs, a.msg)) /\ a.ordered = msgs[a.msg].ordered
        /\ b.ord = Wire(FirstIndex + SlotIn(msgs, b.msg)) /\ b.ordered = msgs[b.msg].ordered
        /\ a.sub = IF a.ordered THEN OrderedSubKey ELSE msgs[a.msg].sub
        /\ b.sub = IF b.ordered THEN OrderedSubKey ELSE msgs[b.msg].sub
    <2>1. \A k \in 1 .. len : msgs[k].ord = Wire(FirstIndex + SlotIn(msgs, k))
      BY <1>4 DEF IInv, Stamped
    <2> QED
      BY <1>2, <1>5, <2>1 DEF IInv, Buffered
  <1>7. /\ a.sub \in Nat /\ b.sub \in Nat /\ a.ord \in Nat /\ a.ord = b.ord
        /\ a.count \in Nat /\ b.count \in Nat
    <2>1. a.sub \in SeqNum /\ b.sub \in SeqNum /\ a.ord \in SeqNum
          /\ a.count \in 1 .. count /\ b.count \in 1 .. count
      BY <1>2, EntryType DEF IInv
    <2>2. a.ord = b.ord
      BY <1>3, <1>6
    <2> QED
      BY <2>1, <2>2 DEF SeqNum
  <1>8. a.sub <= b.sub
    BY <1>2, <1>7 DEF Precedes
  <1>9. SlotIn(msgs, a.msg) \in Nat /\ SlotIn(msgs, b.msg) \in Nat
    <2>1. a.msg \in 1 .. len + 1 /\ b.msg \in 1 .. len + 1
      BY <1>4, <1>5
    <2> QED
      BY <1>4, <2>1, SlotFacts
  <1>10. /\ msgs[a.msg].ordered => b.msg <= a.msg
         /\ msgs[b.msg].ordered => a.msg <= b.msg
    <2>1. SlotIn(msgs, a.msg) <= SlotIn(msgs, b.msg)
          /\ SlotIn(msgs, b.msg) <= SlotIn(msgs, a.msg)
      BY <1>3, <1>9
    <2> QED
      BY <1>4, <1>5, <2>1, SlotLast
  <1>11. /\ ~msgs[b.msg].ordered => msgs[b.msg].sub < OrderedSubKey
         /\ b.msg < a.msg /\ ~msgs[a.msg].ordered => msgs[b.msg].sub < msgs[a.msg].sub
    BY <1>3, <1>4, <1>5 DEF IInv, Stamped
  <1>12. OrderedSubKey \in Nat
    BY OrderingAssumption
  <1>13. ~a.ordered
    <2> SUFFICES ASSUME a.ordered PROVE FALSE
      OBVIOUS
    <2>1. a.sub = OrderedSubKey /\ b.msg <= a.msg
      BY <1>6, <1>10
    <2>2. ~b.ordered
      BY <1>5, <1>6, <1>10, <2>1
    <2>3. b.sub < OrderedSubKey
      BY <1>6, <1>11, <2>2
    <2> QED
      BY <1>7, <1>8, <1>12, <2>1, <2>3
  <1>14. a.msg < b.msg
    <2> SUFFICES ASSUME b.msg < a.msg PROVE FALSE
      BY <1>5
    <2>1. ~b.ordered
      BY <1>5, <1>6, <1>10
    <2>2. b.sub < a.sub
      BY <1>6, <1>11, <1>13, <2>1
    <2> QED
      BY <1>7, <1>8, <2>2
  <1> QED
    BY <1>8, <1>13, <1>14

(* The frames that leave the heap are those of the next slots, without a   *)
(* gap, and what stays is of later ones.                                   *)
LEMMA FlushSlots ==
    ASSUME IInv, HeapUnwrapped, NEW entries \in Sorted(heap),
           NEW n \in 0 .. Len(entries), Flushes(entries, expected + 1, n)
    PROVE  /\ \A i \in 1 .. n :
                 SlotIn(msgs, entries[i].msg) = Done + 1 + Count(entries, i - 1)
           /\ \A i \in n + 1 .. Len(entries) :
                 Done + 1 + Count(entries, n) < SlotIn(msgs, entries[i].msg)
  <1> DEFINE S(i) == SlotIn(msgs, entries[i].msg)
             size == Len(entries)
             C(i) == Count(entries, i)
  <1>1. IsFiniteSet(heap) /\ Cardinality(heap) <= HeapCap
    BY DEF IInv, Buffered
  <1>2. /\ size \in Nat /\ size <= HeapCap /\ DOMAIN entries = 1 .. size
        /\ \A i \in 1 .. size : entries[i] \in heap
        /\ \A i, j \in 1 .. size : i < j => Precedes(entries[i], entries[j])
    <2>1. /\ size = Cardinality(heap) /\ size \in Nat /\ entries \in Seq(heap)
          /\ DOMAIN entries = 1 .. size
          /\ \A i, j \in DOMAIN entries : i < j => Precedes(entries[i], entries[j])
      BY <1>1, SortedListing
    <2> QED
      BY <1>1, <2>1
  <1>3. Done \in Nat /\ HeapCap \in Nat /\ HeapCap < HalfSeq /\ HalfSeq \in Nat
        /\ FirstIndex \in Nat
    BY DoneIsNat, OrderingAssumption, HalfSeqAssumption DEF IInv, SeqNum
  <1>4. ASSUME NEW i \in 1 .. size
        PROVE  /\ S(i) \in Nat /\ Done < S(i) /\ S(i) < Done + HalfSeq
               /\ entries[i].ord = Wire(FirstIndex + S(i))
    <2> DEFINE e == entries[i]
               len == Len(msgs)
    <2>1. e \in heap
      BY <1>2
    <2> HIDE DEF e
    <2>2. e.msg \in DOMAIN msgs
      BY <2>1, EntryType DEF IInv, TypeOK
    <2>3. e.ord = Wire(FirstIndex + SlotIn(msgs, e.msg))
      BY <2>1, <2>2 DEF IInv, Buffered, Stamped
    <2>4. Done < SlotIn(msgs, e.msg) /\ SlotIn(msgs, e.msg) < Done + HalfSeq
      BY <2>1 DEF IInv, Buffered
    <2>5. SlotIn(msgs, e.msg) \in Nat
      <3>1. e.msg \in 1 .. len + 1 /\ len \in Nat
        BY <2>2, MessageType DEF IInv
      <3> QED
        BY <3>1, SlotFacts
    <2> QED
      BY <2>3, <2>4, <2>5 DEF e
  <1>5. ASSUME NEW i \in 1 .. size, NEW c \in 0 .. HeapCap - 1
        PROVE  entries[i].ord = Wire(expected + 1 + c) <=> S(i) = Done + 1 + c
    <2> DEFINE s == S(i)
               x == FirstIndex + s
               y == FirstIndex + Done
               z == FirstIndex + Done + (1 + c)
    <2>1. /\ x \in Nat /\ y \in Nat /\ z \in Nat /\ z = y + (1 + c) /\ 1 + c \in Nat
          /\ z - HalfSeq < x /\ x < z + HalfSeq
          /\ x = z <=> s = Done + 1 + c
      <3>1. s \in Nat /\ Done < s /\ s < Done + HalfSeq /\ c \in Nat /\ c < HalfSeq - 1
        BY <1>3, <1>4
      <3> HIDE DEF s
      <3> QED
        BY <1>3, <3>1
    <2>2. entries[i].ord = Wire(x) /\ expected = Wire(y) /\ expected \in Int
      BY <1>4 DEF IInv, Logged, TypeOK, SeqNum
    <2>3. expected + 1 + c = expected + (1 + c)
      BY <2>2
    <2> HIDE DEF x, y, z, s
    <2>4. Wire(expected + 1 + c) = Wire(z)
      BY <2>1, <2>2, <2>3, WireAdd
    <2>5. Wire(x) = Wire(z) <=> x = z
      BY <2>1, WireCompare
    <2> QED
      BY <2>1, <2>2, <2>4, <2>5 DEF s
  <1>6. ASSUME NEW i \in 0 .. size PROVE C(i) \in 0 .. i
    BY <1>2, CountIsNat
  <1>7. /\ \A i \in 1 .. n : entries[i].ord = Wire(expected + 1 + C(i - 1))
        /\ n < size => entries[n + 1].ord # Wire(expected + 1 + C(n))
    <2>1. /\ \A i \in 1 .. n : entries[i].ord = Wire(expected + 1 + C(i - 1))
          /\ n < size => entries[n + 1].ord # Wire(expected + 1 + C(n + 1 - 1))
      BY DEF Flushes, Count
    <2>2. n + 1 - 1 = n
      OBVIOUS
    <2> QED
      BY <2>1, <2>2
  <1>8. ASSUME NEW i \in 1 .. size, NEW j \in 1 .. size, i < j
        PROVE  S(i) <= S(j)
    <2>1. entries[i].ord <= entries[j].ord
      <3>1. entries[i].ord \in Nat /\ entries[j].ord \in Nat
        BY <1>2, EntryType DEF IInv, SeqNum
      <3>2. Precedes(entries[i], entries[j])
        BY <1>2, <1>8
      <3> QED
        BY <3>1, <3>2 DEF Precedes
    <2>2. ~(S(j) < S(i))
      <3>1. S(j) < S(i) => entries[j].ord < entries[i].ord
        BY <1>2, SlotCounted DEF HeapUnwrapped
      <3>2. entries[i].ord \in Nat /\ entries[j].ord \in Nat
        BY <1>2, EntryType DEF IInv, SeqNum
      <3> QED
        BY <2>1, <3>1, <3>2
    <2> QED
      BY <1>4, <2>2
  <1>9. n \in 0 .. size /\ n \in Nat
    BY <1>2
  <1> HIDE DEF S, C, size
  <1>10. ASSUME NEW i \in 1 .. n PROVE S(i) = Done + 1 + C(i - 1)
    <2>1. i \in 1 .. size /\ i - 1 \in 0 .. size /\ i - 1 < HeapCap
      BY <1>2, <1>3, <1>9
    <2>2. C(i - 1) \in 0 .. HeapCap - 1
      BY <1>3, <1>6, <2>1
    <2> QED
      BY <1>5, <1>7, <2>1, <2>2
  <1>11. ASSUME n < size PROVE Done + 1 + C(n) < S(n + 1)
    <2>1. n + 1 \in 1 .. size /\ C(n) \in 0 .. HeapCap - 1
      BY <1>2, <1>3, <1>6, <1>9, <1>11
    <2>2. S(n + 1) # Done + 1 + C(n)
      BY <1>5, <1>7, <1>11, <2>1
    <2>3. S(n + 1) \in Nat /\ Done < S(n + 1)
      BY <1>4, <2>1
    <2>4. CASE n = 0
      <3>1. C(n) = 0
        BY <1>6, <1>9, <2>4
      <3> QED
        BY <1>3, <2>2, <2>3, <3>1
    <2>5. CASE n # 0
      <3>1. n \in 1 .. n /\ n \in 1 .. size /\ n - 1 \in 0 .. size /\ n - 1 \in Nat
        BY <1>2, <1>9, <2>5
      <3>2. S(n) = Done + 1 + C(n - 1) /\ S(n) <= S(n + 1)
        BY <1>8, <1>9, <1>10, <2>1, <3>1
      <3>3. C(n - 1) \in Nat /\ C(n) \in Nat
        BY <1>6, <1>9, <3>1
      <3>4. C(n) = C(n - 1) + (IF entries[n].ordered THEN 1 ELSE 0)
        <4>1. Count(entries, n - 1 + 1) = Count(entries, n - 1) + (IF entries[n - 1 + 1].ordered THEN 1 ELSE 0)
          BY <3>1, CountStep
        <4>2. n - 1 + 1 = n
          BY <1>9
        <4> QED
          BY <4>1, <4>2 DEF C
      <3>5. CASE ~entries[n].ordered
        BY <1>3, <2>2, <2>3, <3>2, <3>3, <3>4, <3>5
      <3>6. CASE entries[n].ordered
        <4>1. S(n) # S(n + 1)
          <5>1. n \in DOMAIN entries /\ n + 1 \in DOMAIN entries /\ n < n + 1
            BY <1>2, <1>9, <2>1, <3>1
          <5> QED
            BY <3>6, <5>1, EntriesOfSlot DEF S
        <4>2. C(n) = C(n - 1) + 1
          BY <3>4, <3>6
        <4>3. S(n + 1) > Done + 1 + C(n - 1)
          BY <1>3, <2>3, <3>2, <3>3, <4>1
        <4> QED
          BY <1>3, <2>2, <2>3, <3>3, <4>2, <4>3
      <3> QED
        BY <3>5, <3>6
    <2> QED
      BY <2>4, <2>5
  <1>12. ASSUME NEW i \in n + 1 .. size PROVE Done + 1 + C(n) < S(i)
    <2>1. n < size /\ n + 1 \in 1 .. size /\ i \in 1 .. size /\ (i = n + 1 \/ n + 1 < i)
      BY <1>2, <1>9
    <2>2. S(n + 1) <= S(i)
      BY <1>4, <1>8, <2>1
    <2>3. S(n + 1) \in Nat /\ S(i) \in Nat /\ C(n) \in Nat
      BY <1>4, <1>6, <1>9, <2>1
    <2> QED
      BY <1>3, <1>11, <2>1, <2>2, <2>3
  <1> QED
    BY <1>10, <1>12 DEF S, C, size

(* What a flush logs: the frame itself, then the entries that were next.   *)
LEMMA FlushLog ==
    ASSUME IInv, NEW k, Receives(k), msgs[k].ordered,
           NEW entries \in Seq(heap), NEW n \in 0 .. Len(entries),
           log' = Append(log, k) \o [i \in 1 .. n |-> entries[i].msg]
    PROVE  /\ DOMAIN log' = 1 .. Len(log) + 1 + n
           /\ \A i \in 1 .. Len(log) : log'[i] = log[i]
           /\ log'[Len(log) + 1] = k
           /\ \A i \in 1 .. n : log'[Len(log) + 1 + i] = entries[i].msg
           /\ Done' = Done + 1 + Count(entries, n)
  <1> DEFINE tail == [i \in 1 .. n |-> entries[i].msg]
             head == Append(log, k)
             len == Len(log)
  <1>1. /\ log \in Seq(Nat) /\ k \in Nat /\ n \in Nat /\ n <= Len(entries)
        /\ Len(entries) \in Nat /\ len \in Nat
        /\ \A i \in 1 .. n : entries[i] \in heap /\ entries[i].msg \in Nat
    <2>1. \A e \in heap : e.msg \in Nat
      BY ReceiveFacts
    <2>2. log \in Seq(Nat) /\ k \in Nat
      BY ReceiveFacts DEF IInv, TypeOK
    <2> QED
      BY <2>1, <2>2
  <1>2. tail \in Seq(Nat) /\ Len(tail) = n /\ \A i \in 1 .. n : tail[i] = entries[i].msg
    BY <1>1
  <1>3. /\ head \in Seq(Nat) /\ Len(head) = len + 1 /\ head[len + 1] = k
        /\ \A i \in 1 .. len : head[i] = log[i]
    BY <1>1
  <1> HIDE DEF tail, head
  <1>4. /\ log' \in Seq(Nat) /\ Len(log') = len + 1 + n /\ DOMAIN log' = 1 .. len + 1 + n
        /\ \A i \in 1 .. len + 1 : log'[i] = head[i]
        /\ \A i \in 1 .. n : log'[len + 1 + i] = tail[i]
    <2>1. log' = head \o tail
      BY DEF head, tail
    <2> HIDE DEF len
    <2>2. /\ log' \in Seq(Nat) /\ Len(log') = (len + 1) + n
          /\ \A i \in 1 .. (len + 1) + n :
                log'[i] = IF i <= len + 1 THEN head[i] ELSE tail[i - (len + 1)]
      <3>1. Len(head) = len + 1 /\ Len(tail) = n /\ head \in Seq(Nat) /\ tail \in Seq(Nat)
        BY <1>2, <1>3 DEF len
      <3>2. /\ head \o tail \in Seq(Nat)
            /\ Len(head \o tail) = Len(head) + Len(tail)
            /\ \A i \in 1 .. Len(head) + Len(tail) : (head \o tail)[i] =
                  IF i <= Len(head) THEN head[i] ELSE tail[i - Len(head)]
        BY <3>1, ConcatProperties
      <3> QED
        BY <2>1, <3>1, <3>2
    <2>3. DOMAIN log' = 1 .. (len + 1) + n
      BY <2>2
    <2>4. \A i \in 1 .. len + 1 : i \in 1 .. (len + 1) + n /\ i <= len + 1
      BY <1>1
    <2>6. \A i \in 1 .. len + 1 : log'[i] = head[i]
      BY <2>2, <2>4
    <2>7. ASSUME NEW i \in 1 .. n PROVE log'[len + 1 + i] = tail[i]
      <3> DEFINE j == len + 1 + i
      <3>1. j \in 1 .. (len + 1) + n /\ ~(j <= len + 1) /\ j - (len + 1) = i
        BY <1>1
      <3> HIDE DEF j
      <3>2. log'[j] = tail[j - (len + 1)]
        BY <2>2, <3>1
      <3> QED
        BY <3>1, <3>2 DEF j
    <2> QED
      BY <2>2, <2>3, <2>6, <2>7
  <1>5. /\ \A i \in 1 .. len : log'[i] = log[i]
        /\ log'[len + 1] = k
        /\ \A i \in 1 .. n : log'[len + 1 + i] = entries[i].msg
    BY <1>1, <1>2, <1>3, <1>4
  <1>6. Done' = Done + 1 + Count(entries, n)
    <2> DEFINE g == [i \in 1 .. 1 + n |-> IF i = 1 THEN msgs[k] ELSE msgs[entries[i - 1].msg]]
               r == [i \in 1 .. n |-> g[1 + i]]
    <2>1. UNCHANGED msgs /\ 1 + n \in Nat /\ DOMAIN log' = 1 .. len + (1 + n)
      BY <1>1, <1>4 DEF Receives
    <2>2. ASSUME NEW i \in 1 .. 1 + n
          PROVE  msgs[log'[len + i]] = g[i]
      <3>1. CASE i = 1
        BY <1>5, <3>1
      <3>2. CASE i # 1
        <4>1. i - 1 \in 1 .. n /\ len + i = len + 1 + (i - 1)
          BY <1>1, <3>2
        <4>2. log'[len + i] = entries[i - 1].msg /\ g[i] = msgs[entries[i - 1].msg]
          BY <1>5, <3>2, <4>1
        <4> QED
          BY <4>2
      <3> QED
        BY <3>1, <3>2
    <2>3. ASSUME NEW i \in 1 .. n PROVE r[i].ordered <=> entries[i].ordered
      <3>1. r[i] = msgs[entries[i].msg]
        BY <1>1
      <3>2. entries[i].ordered = msgs[entries[i].msg].ordered
        BY <1>1 DEF IInv, Buffered
      <3> QED
        BY <3>1, <3>2
    <2>4. g[0 + 1].ordered
      BY <1>1
    <2> HIDE DEF g
    <2>0. \A i \in 1 .. n : g[1 + i] = r[i]
      OBVIOUS
    <2> HIDE DEF r
    <2>5. Count(g, 1 + n) = Count(g, 1) + Count(r, n)
      <3>1. GoesOn(g, 1, r, n) /\ 1 \in Nat
        BY <2>0 DEF GoesOn
      <3> QED
        BY <1>1, <3>1, CountGoesOn
    <2>6. Done' = Done + Count(g, 1 + n)
      BY <2>1, <2>2, <1>5, DoneGrows DEF IInv
    <2>7. Count(r, n) = Count(entries, n)
      BY <1>1, <2>3, CountSame
    <2>8. Count(g, 0 + 1) = Count(g, 0) + 1 /\ Count(g, 0) = 0
      BY <2>4, CountStep, CountZero
    <2> QED
      BY <1>1, <2>5, <2>6, <2>7, <2>8, CountIsNat, DoneIsNat DEF IInv
  <1> QED
    BY <1>4, <1>5, <1>6

(* The awaited ordered frame and the entries it lets go.                   *)
LEMMA DeliverAndFlushStep ==
    ASSUME IInv, HeapUnwrapped, TypeOK', NEW k, Receives(k), msgs[k].ordered,
           SlotIn(msgs, k) = Done, DeliverAndFlush(k)
    PROVE  IInv'
  <1>1. PICK entries \in Sorted(heap) : \E n \in 0 .. Len(entries) :
            /\ Flushes(entries, expected + 1, n)
            /\ heap' = {entries[i] : i \in n + 1 .. Len(entries)}
            /\ log' = Append(log, k) \o [i \in 1 .. n |-> entries[i].msg]
            /\ expected' = Wire(expected + 1 + Cardinality({i \in 1 .. n : entries[i].ordered}))
            /\ highest' = IF n = 0 \/ entries[n].ordered THEN None ELSE entries[n].sub
            /\ UNCHANGED <<count, overflow>>
    BY DEF DeliverAndFlush
  <1>2. PICK n \in 0 .. Len(entries) :
            /\ Flushes(entries, expected + 1, n)
            /\ heap' = {entries[i] : i \in n + 1 .. Len(entries)}
            /\ log' = Append(log, k) \o [i \in 1 .. n |-> entries[i].msg]
            /\ expected' = Wire(expected + 1 + Cardinality({i \in 1 .. n : entries[i].ordered}))
            /\ highest' = IF n = 0 \/ entries[n].ordered THEN None ELSE entries[n].sub
            /\ UNCHANGED <<count, overflow>>
    BY <1>1
  <1> DEFINE len == Len(msgs)
             size == Len(entries)
             base == Len(log)
             S(i) == SlotIn(msgs, entries[i].msg)
             C(i) == Count(entries, i)
  <1>3. /\ k \in 1 .. len /\ k \notin arrived /\ len \in Nat /\ DOMAIN msgs = 1 .. len
        /\ UNCHANGED <<msgs, overflow>> /\ arrived' = arrived \cup {k}
        /\ DOMAIN log = 1 .. base /\ base \in Nat
    BY <1>2, ReceiveFacts DEF Receives
  <1>4. IsFiniteSet(heap) /\ Cardinality(heap) <= HeapCap
    BY DEF IInv, Buffered
  <1>5. /\ size \in Nat /\ n \in 0 .. size /\ DOMAIN entries = 1 .. size
        /\ entries \in Seq(heap)
        /\ \A e \in heap : \E i \in 1 .. size : entries[i] = e
    <2>1. /\ size = Cardinality(heap) /\ Cardinality(heap) \in Nat /\ entries \in Seq(heap)
          /\ DOMAIN entries = 1 .. size
          /\ \A e \in heap : \E i \in DOMAIN entries : entries[i] = e
      BY <1>4, SortedListing
    <2> QED
      BY <1>2, <2>1
  <1>6. ASSUME NEW i \in 1 .. size
        PROVE  /\ entries[i] \in heap /\ entries[i].msg \in 1 .. len
               /\ entries[i].msg \in arrived /\ entries[i].msg # k
               /\ entries[i].msg \notin overflow
               /\ entries[i].ordered = msgs[entries[i].msg].ordered
               /\ S(i) \in Nat /\ Done < S(i) /\ S(i) < Done + HalfSeq
    <2> DEFINE e == entries[i]
    <2>1. e \in heap
      BY <1>5
    <2> HIDE DEF e, len
    <2>2. e.msg \in 1 .. len /\ e.msg \in arrived /\ e.msg # k
      BY <1>3, <2>1, ReceiveFacts DEF len
    <2>3. /\ e.msg \notin overflow /\ e.ordered = msgs[e.msg].ordered
          /\ Done < SlotIn(msgs, e.msg) /\ SlotIn(msgs, e.msg) < Done + HalfSeq
      BY <2>1 DEF IInv, Buffered
    <2>4. SlotIn(msgs, e.msg) \in Nat
      <3>1. e.msg \in 1 .. len + 1
        BY <1>3, <2>2
      <3> QED
        BY <1>3, <3>1, SlotFacts
    <2> QED
      BY <2>1, <2>2, <2>3, <2>4 DEF e
  <1>7. /\ DOMAIN log' = 1 .. base + 1 + n
        /\ \A i \in 1 .. base : log'[i] = log[i]
        /\ log'[base + 1] = k
        /\ \A i \in 1 .. n : log'[base + 1 + i] = entries[i].msg
        /\ Done' = Done + 1 + C(n)
    <2>1. entries \in Seq(heap) /\ n \in 0 .. Len(entries)
      BY <1>5
    <2>2. log' = Append(log, k) \o [i \in 1 .. n |-> entries[i].msg]
      BY <1>2
    <2> QED
      BY <2>1, <2>2, FlushLog
  <1>8. /\ \A i \in 1 .. n : S(i) = Done + 1 + C(i - 1)
        /\ \A i \in n + 1 .. size : Done + 1 + C(n) < S(i)
    BY <1>2, FlushSlots
  <1>9. ASSUME NEW i \in 1 .. n
        PROVE  /\ C(i - 1) \in Nat /\ C(i - 1) <= C(n)
               /\ entries[i].ordered => C(i - 1) < C(n)
    <2>1. i - 1 \in Nat /\ n \in Nat /\ i - 1 < n /\ i - 1 <= n /\ (i - 1) + 1 = i
      BY <1>5
    <2> QED
      BY <2>1, CountIsNat, CountMonotone, CountRises
  <1>10. C(n) \in Nat /\ Done \in Nat /\ Done' \in Nat
    BY <1>5, <1>7, CountIsNat, DoneIsNat DEF IInv
  <1>11. expected' = Wire(FirstIndex + Done')
    <2>1. expected' = Wire(expected + 1 + C(n)) /\ expected = Wire(FirstIndex + Done)
          /\ expected \in Int
      BY <1>2 DEF IInv, Logged, TypeOK, Count, SeqNum
    <2> DEFINE y == FirstIndex + Done
               c == 1 + C(n)
    <2>2. y \in Nat /\ c \in Nat /\ y + c = FirstIndex + Done'
      <3>1. FirstIndex \in Nat
        BY OrderingAssumption DEF SeqNum
      <3> DEFINE w == C(n)
      <3>2. w \in Nat /\ Done \in Nat /\ Done' = Done + 1 + w
        BY <1>7, <1>10
      <3> HIDE DEF w
      <3>3. FirstIndex + Done \in Nat /\ 1 + w \in Nat
            /\ FirstIndex + Done + (1 + w) = FirstIndex + Done'
        BY <3>1, <3>2
      <3> QED
        BY <3>3 DEF w
    <2>3. expected' = Wire(Wire(y) + c)
      BY <1>10, <2>1
    <2> HIDE DEF y, c
    <2> QED
      BY <2>2, <2>3, WireAdd
  <1>12. \A j \in 1 .. len + 1 : SlotIn(msgs, j) \in Nat
    BY <1>3, SlotFacts
  <1>13. \A j \in 1 .. len : msgs[j].ordered => SlotIn(msgs, j) < SlotIn(msgs, len + 1)
    <2>1. \A j \in 1 .. len : j \in 1 .. len + 1 /\ len + 1 \in 1 .. len + 1 /\ j < len + 1
      BY <1>3
    <2> HIDE DEF len
    <2>2. \A i, j \in 1 .. len + 1 :
              i < j /\ msgs[i].ordered => SlotIn(msgs, i) < SlotIn(msgs, j)
      BY <1>3, SlotFacts
    <2> QED
      BY <2>1, <2>2
  \* Every slot from the awaited one to Done' is filled by this flush.
  <1>14. ASSUME NEW v \in Nat, Done <= v, v < Done'
         PROVE  \/ v = Done
                \/ \E i \in 1 .. n : entries[i].ordered /\ S(i) = v
    <2> SUFFICES ASSUME v # Done PROVE \E i \in 1 .. n : entries[i].ordered /\ S(i) = v
      OBVIOUS
    <2> DEFINE u == v - (Done + 1)
    <2>1. u \in Nat /\ u < C(n) /\ v = Done + 1 + u
      BY <1>7, <1>10, <1>14
    <2> HIDE DEF u
    <2>2. PICK i \in 1 .. n : entries[i].ordered /\ Count(entries, i - 1) = u
      BY <1>5, <2>1, CountReaches
    <2> QED
      BY <1>8, <2>1, <2>2
  <1>15. Done' <= SlotIn(msgs, len + 1)
    <2> DEFINE v == Done + C(n)
    <2>1. v \in Nat /\ Done <= v /\ v < Done' /\ Done' = v + 1
      BY <1>7, <1>10
    <2> HIDE DEF v
    <2>2. \E j \in 1 .. len : msgs[j].ordered /\ SlotIn(msgs, j) = v
      <3>1. CASE v = Done
        BY <1>3, <3>1
      <3>2. CASE \E i \in 1 .. n : entries[i].ordered /\ S(i) = v
        <4>1. PICK i \in 1 .. n : entries[i].ordered /\ S(i) = v
          BY <3>2
        <4>2. i \in 1 .. size
          BY <1>5
        <4> QED
          BY <1>6, <4>1, <4>2
      <3> QED
        BY <1>14, <2>1, <3>1, <3>2
    <2>3. len + 1 \in 1 .. len + 1
      BY <1>3
    <2>4. SlotIn(msgs, len + 1) \in Nat
      BY <1>12, <2>3
    <2>5. v < SlotIn(msgs, len + 1)
      BY <1>13, <2>2
    <2> QED
      BY <2>1, <2>4, <2>5
  <1>16. highest' < OrderedSubKey \/ highest' = None
    <2>1. CASE n = 0 \/ entries[n].ordered
      BY <1>2, <2>1
    <2>2. CASE n # 0 /\ ~entries[n].ordered
      <3>1. n \in 1 .. size
        BY <1>5, <2>2
      <3>2. entries[n].sub = msgs[entries[n].msg].sub
        BY <1>6, <2>2, <3>1 DEF IInv, Buffered
      <3>3. msgs[entries[n].msg].sub < OrderedSubKey
        BY <1>3, <1>6, <2>2, <3>1 DEF IInv, Stamped
      <3> QED
        BY <1>2, <2>2, <3>2, <3>3
    <2> QED
      BY <2>1, <2>2
  \* Where an entry of the new log comes from.
  <1>17. ASSUME NEW i \in DOMAIN log'
         PROVE  \/ i \in 1 .. base /\ log'[i] = log[i]
                \/ i = base + 1 /\ log'[i] = k
                \/ \E x \in 1 .. n : i = base + 1 + x /\ log'[i] = entries[x].msg
    <2>1. i \in 1 .. base + 1 + n
      BY <1>7
    <2>2. CASE i \in 1 .. base
      BY <1>7, <2>2
    <2>3. CASE i = base + 1
      BY <1>7, <2>3
    <2>4. CASE i > base + 1
      <3> DEFINE x == i - (base + 1)
      <3>1. x \in 1 .. n /\ i = base + 1 + x
        BY <1>3, <1>5, <2>1, <2>4
      <3> HIDE DEF x
      <3>2. log'[i] = entries[x].msg
        BY <1>7, <3>1
      <3> QED
        BY <3>1, <3>2
    <2> QED
      BY <1>3, <2>1, <2>2, <2>3, <2>4
  <1>18. /\ \A i \in 1 .. base : i \in DOMAIN log'
         /\ base + 1 \in DOMAIN log'
         /\ \A x \in 1 .. n : base + 1 + x \in DOMAIN log'
    BY <1>3, <1>5, <1>7
  <1>19. ASSUME NEW m \in 1 .. len, msgs[m].ordered
         PROVE  SlotIn(msgs, m) < Done' <=> \E i \in DOMAIN log' : log'[i] = m
    <2>1. SlotIn(msgs, m) < Done <=> \E i \in DOMAIN log : log[i] = m
      BY <1>3, <1>19 DEF IInv, Logged
    <2>2. SlotIn(msgs, m) \in Nat /\ m \in 1 .. len + 1
      BY <1>3, <1>12
    <2>3. ASSUME SlotIn(msgs, m) < Done' PROVE \E i \in DOMAIN log' : log'[i] = m
      <3>1. CASE SlotIn(msgs, m) < Done
        BY <1>3, <1>7, <1>18, <2>1, <3>1
      <3>2. CASE SlotIn(msgs, m) = Done
        <4>1. SlotIn(msgs, m) <= SlotIn(msgs, k) /\ SlotIn(msgs, k) <= SlotIn(msgs, m)
          BY <1>10, <3>2
        <4>2. m <= k /\ k <= m
          <5> HIDE DEF len
          <5> QED
            BY <1>3, <1>19, <4>1, SlotLast
        <4>3. m = k
          BY <1>3, <4>2
        <4> QED
          BY <1>7, <1>18, <4>3
      <3>3. CASE Done < SlotIn(msgs, m)
        <4>1. PICK x \in 1 .. n : entries[x].ordered /\ S(x) = SlotIn(msgs, m)
          BY <1>10, <1>14, <2>2, <2>3, <3>3
        <4>2. x \in 1 .. size
          BY <1>5
        <4> DEFINE e == entries[x].msg
        <4>3. msgs[e].ordered /\ e \in 1 .. len
              /\ SlotIn(msgs, m) <= SlotIn(msgs, e) /\ SlotIn(msgs, e) <= SlotIn(msgs, m)
          BY <1>6, <2>2, <4>1, <4>2
        <4> HIDE DEF e, len
        <4>4. m <= e /\ e <= m
          BY <1>3, <1>19, <4>3, SlotLast
        <4>5. m = e
          BY <1>3, <4>3, <4>4
        <4> QED
          BY <1>7, <1>18, <4>5 DEF e
      <3> QED
        BY <1>10, <2>2, <3>1, <3>2, <3>3
    <2>4. ASSUME NEW i \in DOMAIN log', log'[i] = m PROVE SlotIn(msgs, m) < Done'
      <3>1. CASE i \in 1 .. base /\ log'[i] = log[i]
        <4>1. SlotIn(msgs, m) < Done
          BY <1>3, <2>1, <2>4, <3>1
        <4> QED
          BY <1>7, <1>10, <2>2, <4>1
      <3>2. CASE log'[i] = k
        BY <1>7, <1>10, <2>4, <3>2
      <3>3. CASE \E x \in 1 .. n : i = base + 1 + x /\ log'[i] = entries[x].msg
        <4>1. PICK x \in 1 .. n : log'[i] = entries[x].msg
          BY <3>3
        <4>2. x \in 1 .. size /\ entries[x].msg = m
          BY <1>5, <2>4, <4>1
        <4>3. entries[x].ordered /\ S(x) = SlotIn(msgs, m)
          BY <1>6, <1>19, <4>2
        <4>4. S(x) = Done + 1 + C(x - 1) /\ C(x - 1) \in Nat /\ C(x - 1) < C(n)
          BY <1>8, <1>9, <4>3
        <4>5. Done' = Done + 1 + C(n)
          BY <1>7
        <4> HIDE DEF S, C
        <4>6. S(x) < Done'
          BY <1>10, <4>4, <4>5
        <4> QED
          BY <4>3, <4>6
      <3> QED
        BY <1>17, <3>1, <3>2, <3>3
    <2> QED
      BY <2>3, <2>4
  <1>20. ASSUME NEW i \in DOMAIN log'
         PROVE  /\ SlotIn(msgs, log'[i]) <= Done'
                /\ SlotIn(msgs, log'[i]) = Done' =>
                      /\ ~msgs[log'[i]].ordered /\ highest' # None
                      /\ msgs[log'[i]].sub <= highest'
    <2>1. CASE i \in 1 .. base /\ log'[i] = log[i]
      <3>1. SlotIn(msgs, log[i]) <= Done /\ SlotIn(msgs, log[i]) \in Nat
        <4>1. i \in DOMAIN log /\ log[i] \in 1 .. len
          BY <1>3, <2>1, ReceiveFacts
        <4>2. log[i] \in 1 .. len + 1
          BY <1>3, <4>1
        <4> QED
          BY <1>12, <4>1, <4>2 DEF IInv, Logged
      <3>2. SlotIn(msgs, log[i]) < Done'
        BY <1>7, <1>10, <3>1
      <3> QED
        BY <1>10, <2>1, <3>1, <3>2
    <2>2. CASE log'[i] = k
      <3>1. SlotIn(msgs, log'[i]) < Done'
        BY <1>7, <1>10, <2>2
      <3> QED
        BY <1>10, <2>2, <3>1
    <2>3. CASE \E x \in 1 .. n : i = base + 1 + x /\ log'[i] = entries[x].msg
      <3>1. PICK x \in 1 .. n : log'[i] = entries[x].msg
        BY <2>3
      <3>2. x \in 1 .. size /\ n \in 1 .. size /\ x <= n /\ n # 0
        BY <1>5
      <3>3. SlotIn(msgs, log'[i]) = S(x) /\ msgs[log'[i]].ordered = entries[x].ordered
        BY <1>6, <3>1, <3>2
      <3>4. /\ S(x) = Done + 1 + C(x - 1) /\ C(x - 1) \in Nat /\ C(x - 1) <= C(n)
            /\ entries[x].ordered => C(x - 1) < C(n)
        BY <1>8, <1>9
      <3>5. S(x) <= Done'
        <4> HIDE DEF S, C
        <4> QED
          BY <1>7, <1>10, <3>4
      <3>6. ASSUME S(x) = Done'
            PROVE  ~entries[x].ordered /\ highest' # None /\ msgs[log'[i]].sub <= highest'
        <4>1. C(x - 1) = C(n) /\ ~entries[x].ordered
          <5> HIDE DEF S, C
          <5> QED
            BY <1>7, <1>10, <3>4, <3>6
        <4>2. S(n) = S(x) /\ ~entries[n].ordered
          <5>1. n \in 1 .. n
            BY <1>5, <3>2
          <5>2. /\ S(n) = Done + 1 + C(n - 1) /\ C(n - 1) \in Nat /\ C(n - 1) <= C(n)
                /\ entries[n].ordered => C(n - 1) < C(n)
            BY <1>8, <1>9, <5>1
          <5>3. C(x - 1) <= C(n - 1)
            <6>1. x - 1 \in Nat /\ n - 1 \in Nat /\ x - 1 <= n - 1
              BY <1>5, <3>2
            <6> QED
              BY <6>1, CountMonotone
          <5> HIDE DEF S, C
          <5> QED
            BY <1>10, <3>4, <4>1, <5>2, <5>3
        <4>3. highest' = entries[n].sub
          BY <1>2, <3>2, <4>2
        <4>4. entries[x].sub = msgs[log'[i]].sub
          BY <1>6, <3>1, <3>2, <4>1 DEF IInv, Buffered
        <4>5. entries[x].sub \in Nat /\ entries[n].sub \in Nat
          <5>1. entries[x] \in heap /\ entries[n] \in heap
            BY <1>6, <3>2
          <5>2. entries[x].sub \in SeqNum /\ entries[n].sub \in SeqNum
            BY <5>1, EntryType DEF IInv
          <5> QED
            BY <5>2 DEF SeqNum
        <4>6. entries[x].sub <= entries[n].sub
          <5>1. CASE x = n
            BY <4>5, <5>1
          <5>2. CASE x < n
            <6>1. x \in DOMAIN entries /\ n \in DOMAIN entries
              BY <1>5, <3>2
            <6> QED
              BY <4>2, <5>2, <6>1, EntriesOfSlot
          <5> QED
            BY <1>5, <3>2, <5>1, <5>2
        <4>7. highest' # None
          BY <4>3, <4>5 DEF None
        <4> QED
          BY <4>1, <4>3, <4>4, <4>6, <4>7
      <3> QED
        BY <3>3, <3>5, <3>6
    <2> QED
      BY <1>17, <2>1, <2>2, <2>3
  <1>21. Logged'
    BY <1>3, <1>11, <1>15, <1>16, <1>19, <1>20 DEF Logged
  <1>22. \A e \in heap' : \E i \in n + 1 .. size : e = entries[i]
    BY <1>2
  <1>23. Buffered'
    <2>1. heap' \subseteq heap
      <3>1. \A i \in n + 1 .. size : i \in 1 .. size
        BY <1>5
      <3> QED
        BY <1>6, <1>22, <3>1
    <2>2. IsFiniteSet(heap') /\ Cardinality(heap') <= HeapCap
      <3>1. /\ IsFiniteSet(heap') /\ Cardinality(heap') <= Cardinality(heap)
        BY <1>4, <2>1, FS_Subset
      <3>2. Cardinality(heap) \in Nat /\ Cardinality(heap') \in Nat
        BY <1>4, <3>1, FS_CardinalityType
      <3> QED
        BY <1>4, <3>1, <3>2, OrderingAssumption
    <2>3. ASSUME NEW e \in heap'
          PROVE  /\ e.ord = msgs[e.msg].ord /\ e.ordered = msgs[e.msg].ordered
                 /\ e.sub = IF e.ordered THEN OrderedSubKey ELSE msgs[e.msg].sub
                 /\ Done' < SlotIn(msgs, e.msg) /\ SlotIn(msgs, e.msg) < Done' + HalfSeq
                 /\ e.msg \notin overflow
      <3>1. PICK i \in n + 1 .. size : e = entries[i]
        BY <1>22
      <3>2. i \in 1 .. size
        BY <1>5
      <3>3. /\ S(i) \in Nat /\ Done + 1 + C(n) < S(i) /\ S(i) < Done + HalfSeq
            /\ SlotIn(msgs, e.msg) = S(i)
        BY <1>6, <1>8, <3>1, <3>2
      <3>4. Done' < S(i) /\ S(i) < Done' + HalfSeq
        <4>1. Done' = Done + 1 + C(n)
          BY <1>7
        <4>2. Done < Done'
          <5> HIDE DEF C
          <5> QED
            BY <1>10, <4>1
        <4>3. HalfSeq \in Nat
          BY HalfSeqAssumption
        <4> HIDE DEF S, C
        <4> QED
          BY <1>10, <3>3, <4>1, <4>2, <4>3
      <3> QED
        BY <2>1, <3>3, <3>4 DEF IInv, Buffered
    <2>4. \A a, b \in heap' : a.msg = b.msg => a = b
      BY <2>1 DEF IInv, Buffered
    <2> QED
      BY <1>3, <2>2, <2>3, <2>4 DEF Buffered
  <1>24. Accounted'
    <2>1. ASSUME NEW j \in arrived', msgs[j].ordered
          PROVE  \/ \E i \in DOMAIN log' : log'[i] = j
                 \/ \E e \in heap' : e.msg = j
                 \/ j \in overflow
      <3>1. CASE j = k
        BY <1>7, <1>18, <3>1
      <3>2. CASE \E i \in DOMAIN log : log[i] = j
        BY <1>3, <1>7, <1>18, <3>2
      <3>3. CASE \E e \in heap : e.msg = j
        <4>1. PICK i \in 1 .. size : entries[i].msg = j
          BY <1>5, <3>3
        <4>2. CASE i \in 1 .. n
          BY <1>7, <1>18, <4>1, <4>2
        <4>3. CASE i \in n + 1 .. size
          BY <1>2, <4>1, <4>3
        <4> QED
          BY <1>5, <4>2, <4>3
      <3>4. CASE j \in overflow
        BY <3>4
      <3> QED
        BY <1>3, <2>1, <3>1, <3>2, <3>3, <3>4 DEF IInv, Accounted
    <2>2. ASSUME NEW j \in overflow, msgs[j].ordered
          PROVE  Done' <= SlotIn(msgs, j)
      <3>1. j \in 1 .. len /\ j \in arrived /\ j # k
        BY <1>3, ReceiveFacts
      <3>2. \A i \in DOMAIN log' : log'[i] # j
        <4> SUFFICES ASSUME NEW i \in DOMAIN log', log'[i] = j PROVE FALSE
          OBVIOUS
        <4>1. CASE i \in 1 .. base /\ log'[i] = log[i]
          <5>1. SlotIn(msgs, j) < Done
            BY <1>3, <2>2, <3>1, <4>1 DEF IInv, Logged
          <5>2. Done <= SlotIn(msgs, j)
            BY <2>2 DEF IInv, Accounted
          <5>3. SlotIn(msgs, j) \in Nat
            BY <1>3, <1>12, <3>1
          <5> QED
            BY <1>10, <5>1, <5>2, <5>3
        <4>2. CASE \E x \in 1 .. n : i = base + 1 + x /\ log'[i] = entries[x].msg
          <5>1. PICK x \in 1 .. n : log'[i] = entries[x].msg
            BY <4>2
          <5>2. x \in 1 .. size
            BY <1>5
          <5> QED
            BY <1>6, <5>1, <5>2
        <4> QED
          BY <1>17, <3>1, <4>1, <4>2
      <3>3. ~(SlotIn(msgs, j) < Done')
        BY <1>19, <2>2, <3>1, <3>2
      <3>4. SlotIn(msgs, j) \in Nat
        BY <1>3, <1>12, <3>1
      <3> QED
        BY <1>10, <3>3, <3>4
    <2> QED
      BY <1>3, <2>1, <2>2 DEF Accounted
  \* Slots rise along the new part of the log.
  <1>25. ASSUME NEW x \in 1 .. n PROVE k < entries[x].msg
    <2>1. x \in 1 .. size
      BY <1>5
    <2>2. SlotIn(msgs, k) < S(x)
      BY <1>6, <2>1
    <2> DEFINE e == entries[x].msg
    <2>3. e \in 1 .. len /\ SlotIn(msgs, k) < SlotIn(msgs, e)
      BY <1>6, <2>1, <2>2
    <2> HIDE DEF e, len
    <2>4. k < e
      BY <1>3, <2>3, SlotBefore
    <2> QED
      BY <2>4 DEF e
  <1>26. ASSUME NEW x \in 1 .. n, NEW y \in 1 .. n, x < y
         PROVE  entries[x].msg < entries[y].msg
    <2>1. x \in 1 .. size /\ y \in 1 .. size
      BY <1>5
    <2>2. S(x) <= S(y)
      <3>1. x - 1 \in Nat /\ y - 1 \in Nat /\ x - 1 <= y - 1
        BY <1>26
      <3>2. C(x - 1) <= C(y - 1) /\ C(x - 1) \in Nat /\ C(y - 1) \in Nat
        BY <3>1, CountMonotone, CountIsNat
      <3>3. S(x) = Done + 1 + C(x - 1) /\ S(y) = Done + 1 + C(y - 1)
        BY <1>8
      <3> HIDE DEF S, C
      <3> QED
        BY <1>10, <3>2, <3>3
    <2>3. CASE S(x) = S(y)
      <3>1. x \in DOMAIN entries /\ y \in DOMAIN entries
        BY <1>5, <2>1
      <3> QED
        BY <1>26, <2>3, <3>1, EntriesOfSlot
    <2>4. CASE S(x) < S(y)
      <3> DEFINE a == entries[x].msg
                 b == entries[y].msg
      <3>1. a \in 1 .. len /\ b \in 1 .. len /\ SlotIn(msgs, a) < SlotIn(msgs, b)
        BY <1>6, <2>1, <2>4
      <3> HIDE DEF a, b, len
      <3>2. a < b
        BY <1>3, <3>1, SlotBefore
      <3> QED
        BY <3>2 DEF a, b
    <2> QED
      BY <1>6, <2>1, <2>2, <2>3, <2>4
  <1>27. \A i \in DOMAIN log : log[i] < k /\ log[i] \in Nat
    BY <1>3, LogOlder, ReceiveFacts
  <1>28. DeliveredInSendOrder'
    <2>1. ASSUME NEW i \in DOMAIN log', NEW j \in DOMAIN log', i < j
          PROVE  log'[i] < log'[j]
      <3>1. i \in Nat /\ j \in Nat
        BY <1>7
      <3>2. CASE i \in 1 .. base /\ log'[i] = log[i]
        <4>1. CASE j \in 1 .. base /\ log'[j] = log[j]
          BY <1>3, <2>1, <3>2, <4>1 DEF IInv, DeliveredInSendOrder
        <4>2. CASE log'[j] = k
          BY <1>3, <1>27, <3>2, <4>2
        <4>3. CASE \E x \in 1 .. n : j = base + 1 + x /\ log'[j] = entries[x].msg
          <5>1. PICK x \in 1 .. n : log'[j] = entries[x].msg
            BY <4>3
          <5>2. x \in 1 .. size
            BY <1>5
          <5>3. entries[x].msg \in Nat /\ k < entries[x].msg /\ k \in Nat
            BY <1>3, <1>6, <1>25, <5>2
          <5>4. log[i] < k /\ log[i] \in Nat
            BY <1>3, <1>27, <3>2
          <5> QED
            BY <3>2, <5>1, <5>3, <5>4
        <4> QED
          BY <1>17, <4>1, <4>2, <4>3
      <3>3. CASE i = base + 1 /\ log'[i] = k
        <4>1. PICK x \in 1 .. n : log'[j] = entries[x].msg
          BY <1>3, <1>17, <2>1, <3>1, <3>3
        <4> QED
          BY <1>25, <3>3, <4>1
      <3>4. CASE \E x \in 1 .. n : i = base + 1 + x /\ log'[i] = entries[x].msg
        <4>1. PICK x \in 1 .. n : i = base + 1 + x /\ log'[i] = entries[x].msg
          BY <3>4
        <4>2. PICK y \in 1 .. n : j = base + 1 + y /\ log'[j] = entries[y].msg
          BY <1>3, <1>17, <2>1, <3>1, <4>1
        <4>3. x < y
          BY <1>3, <2>1, <4>1, <4>2
        <4> QED
          BY <1>26, <4>1, <4>2, <4>3
      <3> QED
        BY <1>17, <3>2, <3>3, <3>4
    <2> QED
      BY <2>1 DEF DeliveredInSendOrder
  <1>29. Stamped'
    BY ReceiveFacts
  <1> QED
    BY <1>21, <1>23, <1>24, <1>28, <1>29 DEF IInv

----------------------------------------------------------------------------
(* The invariant is inductive, and what follows from it.                   *)

LEMMA ArriveStep ==
    ASSUME IInv, HeapUnwrapped, TypeOK', NEW k, Arrive(k)
    PROVE  IInv'
  <1>1. Receives(k)
    BY DEF Arrive, Receives
  <1>2. SequencedFrame(k) \/ OrderedFrame(k)
    BY DEF Arrive
  <1>3. /\ SlotIn(msgs, k) \in Nat /\ Done \in Nat
        /\ Current(k) <=> SlotIn(msgs, k) = Done
        /\ Future(k) <=> SlotIn(msgs, k) > Done
        /\ SlotIn(msgs, k) < Done + HalfSeq
    BY <1>1, Routing DEF IInv, Receives
  <1>4. CASE Future(k) /\ Buffer(k)
    <2>1. Done < SlotIn(msgs, k)
      BY <1>3, <1>4
    <2> QED
      BY <1>1, <1>3, <1>4, <2>1, BufferStep
  <1>5. CASE ~Current(k) /\ ~Future(k) /\ Drop
    <2>1. SlotIn(msgs, k) < Done
      BY <1>3, <1>5
    <2> QED
      BY <1>1, <1>5, <2>1, DropStep
  <1>6. CASE msgs[k].ordered /\ Current(k) /\ DeliverAndFlush(k)
    BY <1>1, <1>3, <1>6, DeliverAndFlushStep
  <1>7. CASE ~msgs[k].ordered /\ Drop
    BY <1>1, <1>7, DropStep
  <1>8. CASE /\ ~msgs[k].ordered /\ Current(k)
             /\ highest = None \/ SeqGreaterThan(msgs[k].sub, highest)
             /\ highest' = msgs[k].sub
             /\ log' = Append(log, k)
             /\ UNCHANGED <<expected, heap, count, overflow>>
    BY <1>1, <1>3, <1>8, DeliverSequencedStep
  <1> QED
    BY <1>2, <1>4, <1>5, <1>6, <1>7, <1>8 DEF SequencedFrame, OrderedFrame

LEMMA InitInv ==
    ASSUME Init
    PROVE  IInv
  <1>1. TypeOK /\ IsFiniteSet(heap)
    BY TypeInit
  <1>2. msgs = << >> /\ log = << >> /\ heap = {} /\ overflow = {} /\ arrived = {}
        /\ nextOrd = FirstIndex /\ nextSub = 0 /\ expected = FirstIndex /\ highest = None
    BY DEF Init
  <1>3. DOMAIN msgs = {} /\ DOMAIN log = {} /\ Len(msgs) + 1 - 1 = 0 /\ Len(msgs) = 0
    BY <1>2
  <1>4. SlotIn(msgs, Len(msgs) + 1) = 0
    BY <1>3, CountZero DEF SlotIn
  <1>5. Done = 0
    <2>1. OrderedDelivered = {}
      BY <1>3 DEF OrderedDelivered
    <2> QED
      BY <2>1, FS_EmptySet DEF Done
  <1>6. Wire(FirstIndex + 0) = FirstIndex
    <2>1. FirstIndex \in SeqNum /\ FirstIndex + 0 = FirstIndex
      BY OrderingAssumption DEF SeqNum
    <2> QED
      BY <2>1, WireOfNumber
  <1>7. Stamped
    BY <1>2, <1>3, <1>4, <1>6 DEF Stamped
  <1>8. Logged
    BY <1>2, <1>3, <1>4, <1>5, <1>6 DEF Logged
  <1>9. Buffered
    <2>1. Cardinality(heap) = 0
      BY <1>2, FS_EmptySet
    <2> QED
      BY <1>1, <1>2, <2>1, OrderingAssumption DEF Buffered
  <1>10. Accounted /\ DeliveredInSendOrder
    BY <1>2, <1>3 DEF Accounted, DeliveredInSendOrder
  <1> QED
    BY <1>1, <1>7, <1>8, <1>9, <1>10 DEF IInv

LEMMA InductiveStep ==
    ASSUME IInv, ShortRuns, ShortRuns', HeapUnwrapped, [Next]_vars
    PROVE  IInv'
  <1>1. TypeOK'
    BY TypeStep DEF IInv, Buffered
  <1>2. CASE SendOrdered \/ SendSequenced
    BY <1>1, <1>2, SendStep
  <1>3. CASE \E k \in 1 .. MaxMessages : Arrive(k)
    BY <1>1, <1>3, ArriveStep
  <1>4. CASE UNCHANGED vars
    <2>1. UNCHANGED <<msgs, nextOrd, nextSub, arrived, expected, highest, heap, count,
                      log, overflow>>
      BY <1>4 DEF vars, receiverVars
    <2>2. Stamped'
      BY <2>1 DEF IInv, Stamped, SlotIn, Count
    <2>3. Done' = Done
      BY <2>1 DEF Done, OrderedDelivered
    <2>4. Logged'
      BY <2>1, <2>3 DEF IInv, Logged, SlotIn, Count
    <2>5. Buffered'
      BY <2>1, <2>3 DEF IInv, Buffered, SlotIn, Count
    <2>6. Accounted' /\ DeliveredInSendOrder'
      BY <2>1, <2>3 DEF IInv, Accounted, DeliveredInSendOrder, SlotIn, Count
    <2> QED
      BY <1>1, <2>2, <2>4, <2>5, <2>6 DEF IInv
  <1> QED
    BY <1>2, <1>3, <1>4 DEF Next

LEMMA Inductive == Spec /\ []ShortRuns /\ []HeapUnwrapped => []IInv
  <1>1. Init => IInv
    BY InitInv
  <1>2. IInv /\ ShortRuns /\ ShortRuns' /\ HeapUnwrapped /\ [Next]_vars => IInv'
    BY InductiveStep
  <1> QED
    BY <1>1, <1>2, PTL DEF Spec

(* Ordered and sequenced messages of a channel are delivered in the order  *)
(* in which they were sent, however the network reorders them.             *)
THEOREM AlwaysInSendOrder ==
    Spec /\ []ShortRuns /\ []HeapUnwrapped => []DeliveredInSendOrder
  <1>1. IInv => DeliveredInSendOrder
    BY DEF IInv
  <1> QED
    BY <1>1, Inductive, PTL

(* Nothing is delivered before the ordered messages sent earlier were.     *)
LEMMA SkipsNothing ==
    ASSUME IInv
    PROVE  NoOrderedMessageSkipped
  <1> SUFFICES ASSUME NEW i \in DOMAIN log, NEW k \in OrderedBefore(log[i])
               PROVE  \E j \in 1 .. i - 1 : log[j] = k
    BY DEF NoOrderedMessageSkipped
  <1> DEFINE len == Len(msgs)
             l == log[i]
  <1>1. len \in Nat /\ DOMAIN msgs = 1 .. len /\ l \in 1 .. len
        /\ DOMAIN log = 1 .. Len(log) /\ Len(log) \in Nat
    BY DEF IInv, TypeOK
  <1>2. k \in 1 .. len /\ k < l /\ msgs[k].ordered
    BY <1>1 DEF OrderedBefore
  <1>3. SlotIn(msgs, l) <= Done
    BY DEF IInv, Logged
  <1> HIDE DEF len, l
  <1>4. SlotIn(msgs, k) < SlotIn(msgs, l) /\ SlotIn(msgs, k) \in Nat /\ SlotIn(msgs, l) \in Nat
    <2>1. k \in 1 .. len + 1 /\ l \in 1 .. len + 1
      BY <1>1, <1>2
    <2> QED
      BY <1>1, <1>2, <2>1, SlotFacts
  <1>5. SlotIn(msgs, k) < Done
    BY <1>3, <1>4, DoneIsNat DEF IInv
  <1>6. PICK j \in DOMAIN log : log[j] = k
    BY <1>1, <1>2, <1>5 DEF IInv, Logged
  <1>7. i < j => l < k
    BY <1>6 DEF IInv, DeliveredInSendOrder, l
  <1>8. i # j
    BY <1>1, <1>2, <1>6 DEF l
  <1>9. j < i
    BY <1>1, <1>2, <1>7, <1>8
  <1> QED
    BY <1>1, <1>6, <1>9

(* No ordered message is passed over by a later one, ordered or sequenced. *)
THEOREM NeverSkipsOrdered ==
    Spec /\ []ShortRuns /\ []HeapUnwrapped => []NoOrderedMessageSkipped
  <1>1. IInv => NoOrderedMessageSkipped
    BY SkipsNothing
  <1> QED
    BY <1>1, Inductive, PTL

(* A buffered frame waits for the ordered message of the awaited slot.     *)
LEMMA StrandsNothing ==
    ASSUME IInv
    PROVE  NothingStranded
  <1> SUFFICES ASSUME NEW e \in heap
               PROVE  \E k \in OrderedBefore(e.msg) : k \notin arrived \ overflow
    BY DEF NothingStranded
  <1> DEFINE len == Len(msgs)
             m == e.msg
  <1>1. len \in Nat /\ DOMAIN msgs = 1 .. len /\ Done \in Nat
    BY DoneIsNat DEF IInv, TypeOK
  <1>2. m \in 1 .. len
    BY <1>1, EntryType DEF IInv, TypeOK
  <1>3. Done < SlotIn(msgs, m)
    BY DEF IInv, Buffered
  <1>4. PICK k \in 1 .. m - 1 : msgs[k].ordered /\ SlotIn(msgs, k) = Done
    <2> HIDE DEF len, m
    <2>1. m \in 1 .. len + 1
      BY <1>1, <1>2
    <2> QED
      BY <1>1, <1>3, <2>1, SlotFacts
  <1>5. k \in OrderedBefore(m) /\ k \in 1 .. len
    BY <1>1, <1>2, <1>4 DEF OrderedBefore
  <1>6. ~ \E i \in DOMAIN log : log[i] = k
    BY <1>1, <1>4, <1>5 DEF IInv, Logged
  <1>7. ~ \E x \in heap : x.msg = k
    BY <1>1, <1>4 DEF IInv, Buffered
  <1>8. k \notin arrived \ overflow
    BY <1>4, <1>6, <1>7 DEF IInv, Accounted
  <1> QED
    BY <1>5, <1>8

(* No frame stays in the heap without a reason.                            *)
THEOREM NeverStrands ==
    Spec /\ []ShortRuns /\ []HeapUnwrapped => []NothingStranded
  <1>1. IInv => NothingStranded
    BY StrandsNothing
  <1> QED
    BY <1>1, Inductive, PTL

(* After a lost ordered message the channel stands still.                  *)
LEMMA StopsAtLoss ==
    ASSUME IInv
    PROVE  LostOnlyToFullHeap
  <1>1. \A k \in arrived : msgs[k].ordered =>
          \/ \E i \in DOMAIN log : log[i] = k
          \/ \E e \in heap : e.msg = k
          \/ k \in overflow
    BY DEF IInv, Accounted
  <1>2. ASSUME NEW k \in overflow, NEW i \in DOMAIN log, msgs[k].ordered
        PROVE  log[i] < k
    <2> DEFINE len == Len(msgs)
               l == log[i]
    <2>1. len \in Nat /\ DOMAIN msgs = 1 .. len /\ l \in 1 .. len /\ k \in 1 .. len
      BY DEF IInv, TypeOK
    <2>2. /\ SlotIn(msgs, l) <= Done
          /\ SlotIn(msgs, l) = Done => ~msgs[l].ordered
          /\ Done <= SlotIn(msgs, k)
      BY <1>2 DEF IInv, Logged, Accounted
    <2> HIDE DEF len, l
    <2>3. SlotIn(msgs, l) \in Nat /\ SlotIn(msgs, k) \in Nat /\ Done \in Nat
      <3>1. l \in 1 .. len + 1 /\ k \in 1 .. len + 1
        BY <2>1
      <3> QED
        BY <2>1, <3>1, SlotFacts, DoneIsNat DEF IInv
    <2>4. SlotIn(msgs, l) <= SlotIn(msgs, k)
      BY <2>2, <2>3
    <2>5. l <= k
      BY <1>2, <2>1, <2>4, SlotLast
    <2>6. l # k
      <3> SUFFICES ASSUME l = k PROVE FALSE
        OBVIOUS
      <3>1. SlotIn(msgs, l) = Done
        BY <2>2, <2>3
      <3> QED
        BY <1>2, <2>2, <3>1
    <2> QED
      BY <2>1, <2>5, <2>6 DEF l
  <1> QED
    BY <1>1, <1>2 DEF LostOnlyToFullHeap

(* Only the full heap loses an ordered message, and stops the channel.     *)
THEOREM LossOnlyEverToFullHeap ==
    Spec /\ []ShortRuns /\ []HeapUnwrapped => []LostOnlyToFullHeap
  <1>1. IInv => LostOnlyToFullHeap
    BY StopsAtLoss
  <1> QED
    BY <1>1, Inductive, PTL

----------------------------------------------------------------------------
(* The first round of indices, where the hypotheses hold by themselves.    *)

LEMMA SubBounded == Spec => [](nextSub <= Len(msgs) /\ Len(msgs) <= MaxMessages)
  <1> DEFINE J == TypeOK /\ IsFiniteSet(heap) /\ nextSub <= Len(msgs)
  <1>1. Init => J
    <2>1. ASSUME Init PROVE nextSub <= Len(msgs)
      BY <2>1 DEF Init
    <2> QED
      BY <2>1, TypeInit
  <1>2. J /\ [Next]_vars => J'
    <2> SUFFICES ASSUME J, [Next]_vars PROVE nextSub' <= Len(msgs')
      BY TypeStep
    <2>1. CASE SendOrdered \/ SendSequenced
      <3>1. nextSub \in SeqNum /\ nextSub \in Nat /\ Len(msgs) \in Nat
        BY DEF TypeOK, SeqNum
      <3>2. Len(msgs') = Len(msgs) + 1
        <4> DEFINE R == [ordered : BOOLEAN, ord : SeqNum, sub : SeqNum]
        <4>1. msgs \in Seq(R) /\ \E r : msgs' = Append(msgs, r)
          BY <2>1 DEF TypeOK, SendOrdered, SendSequenced
        <4> HIDE DEF R
        <4> QED
          BY <4>1
      <3>3. SeqNext(nextSub) \in Nat /\ SeqNext(nextSub) <= nextSub + 1
        <4>1. SeqNext(nextSub) = Wire(nextSub + 1) /\ nextSub + 1 \in Int
          BY <3>1 DEF SeqNext, Wire
        <4>2. Wire(nextSub + 1) \in SeqNum
          BY <4>1, WireIsSeqNum
        <4>3. CASE nextSub + 1 \in SeqNum
          BY <3>1, <4>1, <4>3, WireOfNumber
        <4>4. CASE nextSub + 1 \notin SeqNum
          BY <3>1, <4>1, <4>2, <4>4, SeqCountPos DEF SeqNum
        <4> QED
          BY <4>3, <4>4
      <3>4. nextSub' = 0 \/ nextSub' = SeqNext(nextSub)
        BY <2>1 DEF SendOrdered, SendSequenced
      <3> QED
        BY <3>1, <3>2, <3>3, <3>4
    <2>2. CASE \E k \in 1 .. MaxMessages : Arrive(k)
      BY <2>2 DEF Arrive
    <2>3. CASE UNCHANGED vars
      BY <2>3 DEF vars
    <2> QED
      BY <2>1, <2>2, <2>3 DEF Next
  <1>3. J => nextSub <= Len(msgs) /\ Len(msgs) <= MaxMessages
    BY DEF TypeOK
  <1> QED
    BY <1>1, <1>2, <1>3, PTL DEF Spec

LEMMA EarlyUnwrapped ==
    ASSUME FirstIndex + MaxMessages < SeqCount, IInv
    PROVE  HeapUnwrapped
  <1>1. ASSUME NEW e \in heap
        PROVE  e.ord = FirstIndex + SlotIn(msgs, e.msg) /\ SlotIn(msgs, e.msg) \in Nat
    <2> DEFINE m == e.msg
    <2>1. m \in DOMAIN msgs
      BY EntryType DEF IInv, TypeOK
    <2>2. m \in 1 .. Len(msgs) /\ Len(msgs) \in Nat
      BY <2>1, MessageType DEF IInv
    <2>3. Len(msgs) <= MaxMessages /\ MaxMessages \in Nat /\ FirstIndex \in Nat
      BY OrderingAssumption DEF IInv, TypeOK, SeqNum
    <2>4. e.ord = Wire(FirstIndex + SlotIn(msgs, m))
      BY <2>1 DEF IInv, Buffered, Stamped
    <2> HIDE DEF m
    <2>5. SlotIn(msgs, m) \in Nat /\ SlotIn(msgs, m) <= m - 1
      <3>1. m - 1 \in Nat
        BY <2>2
      <3> QED
        BY <3>1, CountIsNat DEF SlotIn
    <2>6. FirstIndex + SlotIn(msgs, m) \in SeqNum
      BY <2>2, <2>3, <2>5, SeqCountPos DEF SeqNum
    <2> QED
      BY <2>4, <2>5, <2>6, WireOfNumber DEF m
  <1>2. FirstIndex \in Nat
    BY OrderingAssumption DEF SeqNum
  <1> SUFFICES ASSUME NEW a \in heap, NEW b \in heap, Slot(a.msg) < Slot(b.msg)
               PROVE  a.ord < b.ord
    BY DEF HeapUnwrapped
  <1>3. SlotIn(msgs, a.msg) < SlotIn(msgs, b.msg)
    BY SlotCounted
  <1> QED
    BY <1>1, <1>2, <1>3

(* On a channel whose index has not come around and that carried fewer     *)
(* messages than _ORDERED_SUBKEY, nothing at all is asked of the traffic.  *)
THEOREM EarlyChannelCorrect ==
    ASSUME FirstIndex + MaxMessages < SeqCount, MaxMessages <= OrderedSubKey
    PROVE  Spec => [](/\ DeliveredInSendOrder /\ NoOrderedMessageSkipped
                      /\ NothingStranded /\ LostOnlyToFullHeap)
  <1> DEFINE Few == nextSub <= Len(msgs) /\ Len(msgs) <= MaxMessages
             Good == /\ DeliveredInSendOrder /\ NoOrderedMessageSkipped
                     /\ NothingStranded /\ LostOnlyToFullHeap
  <1>1. TypeOK /\ Few => ShortRuns
    <2>1. TypeOK => nextSub \in Nat /\ Len(msgs) \in Nat
      BY DEF TypeOK, SeqNum
    <2>2. MaxMessages \in Nat /\ OrderedSubKey \in Nat
      BY OrderingAssumption
    <2> QED
      BY <2>1, <2>2 DEF ShortRuns
  <1>2. Init => IInv
    BY InitInv
  <1>3. IInv /\ ShortRuns /\ ShortRuns' /\ [Next]_vars => IInv'
    BY EarlyUnwrapped, InductiveStep
  <1>4. IInv => Good
    BY SkipsNothing, StrandsNothing, StopsAtLoss DEF IInv
  <1>5. Spec => []Few
    BY SubBounded
  <1> QED
    BY <1>1, <1>2, <1>3, <1>4, <1>5, TypeCorrect, PTL DEF Spec

=============================================================================
