----------------------------- MODULE SplitProofs -----------------------------
(***************************************************************************)
(* Splitting and reassembly are right for any number of messages, any      *)
(* sizes, any width of the split id and any cap on the trackers, as long   *)
(* as an id comes round again only when it is free (IdIsFree).             *)
(***************************************************************************)
EXTENDS Split, FiniteSetTheorems, TLAPS

Held(id) == DOMAIN trackers[id].received

(* A fragment is one of its message.                                       *)
FragmentsFit ==
    \A k \in DOMAIN totals, i \in 0 .. MaxFragments - 1 :
        <<k, i>> \in pending => i < totals[k]

(* Two messages with one id are not under way at the same time.            *)
OneUnderWay ==
    \A j, k \in DOMAIN totals :
        SplitId(j) = SplitId(k) /\ Incomplete(j) /\ Incomplete(k) => j = k

(* A tracker belongs to one message and holds some of its fragments, which *)
(* are no more under way; no other message with its id is under way.       *)
Owns(k, id) ==
    /\ SplitId(k) = id /\ trackers[id].total = totals[k]
    /\ Held(id) # {} /\ Held(id) \subseteq 0 .. totals[k] - 1 /\ Held(id) # 0 .. totals[k] - 1
    /\ \A i \in Held(id) : trackers[id].received[i] = k /\ <<k, i>> \notin pending
    /\ \A j \in DOMAIN totals : SplitId(j) = id /\ Incomplete(j) => j = k

TrackersOwned == \A id \in DOMAIN trackers : \E k \in DOMAIN totals : Owns(k, id)

(* Where a fragment may be.                                                *)
Filed(k, i) ==
    /\ SplitId(k) \in DOMAIN trackers /\ i \in Held(SplitId(k))
    /\ trackers[SplitId(k)].received[i] = k

FragmentsFound ==
    \A k \in DOMAIN totals : \A i \in 0 .. totals[k] - 1 :
        \/ <<k, i>> \in pending \/ k \in evicted \/ Oversized(k)
        \/ Reassembled(k) \/ Filed(k, i)

(* What comes out, as TypeOK would say of it.                              *)
Payload(k) == [i \in 0 .. totals[k] - 1 |-> k]

OutTyped == out \in Seq({Payload(k) : k \in DOMAIN totals})

(* What was put together is complete.                                      *)
OutComplete == \A k \in DOMAIN totals : Reassembled(k) => ~Incomplete(k)

IInv ==
    /\ TypeOK /\ FragmentsFit /\ OneUnderWay /\ TrackersOwned
    /\ FragmentsFound /\ OutTyped /\ ReassembledIntact /\ OutComplete

----------------------------------------------------------------------------
(* What the operators of the trackers do.                                  *)

(* Split ids are cut to their width. *)
LEMMA IdsWrap ==
    ASSUME NEW k \in Nat \ {0}
    PROVE  SplitId(k) \in 0 .. IdMod - 1
  <1> QED
    BY SplitAssumption DEF SplitId

(* Message numbers are positive. *)
LEMMA Numbers ==
    ASSUME TypeOK, NEW k \in DOMAIN totals
    PROVE  /\ k \in Nat \ {0} /\ totals[k] \in 2 .. MaxFragments
           /\ SplitId(k) \in 0 .. IdMod - 1
  <1> DEFINE Sizes == 2 .. MaxFragments
  <1>1. totals \in Seq(Sizes)
    BY DEF TypeOK
  <1> HIDE DEF Sizes
  <1>2. DOMAIN totals = 1 .. Len(totals) /\ Len(totals) \in Nat
    BY <1>1
  <1>3. k \in Nat \ {0}
    BY <1>2
  <1>4. totals[k] \in Sizes
    BY <1>1
  <1> QED
    BY <1>3, <1>4, IdsWrap DEF Sizes

(* A set of trackers is finite. *)
LEMMA TrackersFinite ==
    ASSUME TypeOK, NEW S \in SUBSET (0 .. IdMod - 1)
    PROVE  IsFiniteSet(S) /\ Cardinality(S) \in Nat
  <1>1. IsFiniteSet(0 .. IdMod - 1)
    BY FS_Interval, SplitAssumption
  <1>2. IsFiniteSet(S)
    BY <1>1, FS_Subset
  <1> QED
    BY <1>2, FS_CardinalityType

(* The count of the fragments tells whether all of them are there. *)
LEMMA CompleteMeansAll ==
    ASSUME NEW n \in Nat, NEW S \in SUBSET (0 .. n - 1)
    PROVE  Cardinality(S) = n <=> S = 0 .. n - 1
  <1>1. IsFiniteSet(0 .. n - 1) /\ Cardinality(0 .. n - 1) = n
    BY FS_Interval
  <1>2. Cardinality(S) = n => S = 0 .. n - 1
    BY <1>1, FS_Subset
  <1> QED
    BY <1>1, <1>2

LEMMA Restricted ==
    ASSUME NEW ts, NEW S
    PROVE  /\ DOMAIN Restrict(ts, S) = S
           /\ \A d \in S : Restrict(ts, S)[d] = ts[d]
  <1> QED
    BY DEF Restrict

(* Making room leaves one tracker fewer than the cap, or more. *)
LEMMA RoomMade ==
    ASSUME TypeOK, NEW ts, DOMAIN ts \subseteq 0 .. IdMod - 1,
           Cardinality(DOMAIN ts) <= MaxTrackers, NEW r \in Room(ts)
    PROVE  /\ DOMAIN r \subseteq DOMAIN ts /\ \A d \in DOMAIN r : r[d] = ts[d]
           /\ Cardinality(DOMAIN r) + 1 <= MaxTrackers
  <1>1. IsFiniteSet(DOMAIN ts) /\ Cardinality(DOMAIN ts) \in Nat
    BY TrackersFinite
  <1>2. CASE Cardinality(DOMAIN ts) < MaxTrackers
    <2>1. r = ts
      BY <1>2 DEF Room
    <2> QED
      BY <1>1, <1>2, <2>1, SplitAssumption
  <1>3. CASE ~(Cardinality(DOMAIN ts) < MaxTrackers)
    <2>1. PICK d \in DOMAIN ts : r = Restrict(ts, DOMAIN ts \ {d})
      BY <1>3 DEF Room
    <2>2. /\ DOMAIN r = DOMAIN ts \ {d}
          /\ \A e \in DOMAIN ts \ {d} : r[e] = ts[e]
      BY <2>1, Restricted
    <2>3. Cardinality(DOMAIN r) = Cardinality(DOMAIN ts) - 1
      BY <1>1, <2>2, FS_RemoveElement
    <2> QED
      BY <1>1, <2>2, <2>3, SplitAssumption
  <1> QED
    BY <1>2, <1>3

(* What a fragment that was filed belongs to is known from its tracker. *)
OldReceived(id) == IF id \in DOMAIN trackers THEN trackers[id].received ELSE << >>

(* The trackers that were dropped are in Lost. *)
DroppedFor(K, id) ==
    UNION {Range(trackers[d].received) : d \in (DOMAIN trackers \ {id}) \ K}

(* The trackers for a fragment: some of the old ones, and one of its id. *)
LEMMA TrackersOpened ==
    ASSUME IInv, NEW k \in DOMAIN totals, NEW i \in 0 .. MaxFragments - 1,
           <<k, i>> \in pending, NEW ts \in Opened(k)
    PROVE  \E K \in SUBSET (DOMAIN trackers \ {SplitId(k)}) :
              /\ DOMAIN ts = K \cup {SplitId(k)}
              /\ \A d \in K : ts[d] = trackers[d]
              /\ ts[SplitId(k)].total = totals[k]
              /\ ts[SplitId(k)].received = OldReceived(SplitId(k))
              /\ Lost(ts) = DroppedFor(K, SplitId(k))
              /\ Cardinality(DOMAIN ts) <= MaxTrackers
  <1> DEFINE id == SplitId(k)
  <1>1. id \in 0 .. IdMod - 1
    BY Numbers DEF IInv
  <1>2. DOMAIN trackers \subseteq 0 .. IdMod - 1
    BY DEF IInv, TypeOK
  <1>3. CASE id \in DOMAIN trackers
    <2>1. ts = trackers
      BY <1>3 DEF Opened
    <2>2. PICK j \in DOMAIN totals : Owns(j, id)
      BY <1>3 DEF IInv, TrackersOwned
    <2>3. j = k
      BY <2>2 DEF Owns, Incomplete
    <2>4. trackers[id].total = totals[k]
      BY <2>2, <2>3 DEF Owns
    <2>5. Cardinality(DOMAIN ts) <= MaxTrackers
      BY <2>1 DEF IInv, TypeOK
    <2> DEFINE K == DOMAIN trackers \ {id}
    <2>6. Lost(ts) = DroppedFor(K, id)
      BY <2>1 DEF Lost, DroppedFor
    <2> HIDE DEF id
    <2>7. DOMAIN ts = K \cup {id}
      BY <1>3, <2>1
    <2> QED
      BY <1>3, <2>1, <2>4, <2>5, <2>6, <2>7 DEF OldReceived, id
  <1>4. CASE id \notin DOMAIN trackers
    <2> DEFINE t == [total |-> totals[k], received |-> << >>, time |-> clock]
               live == Restrict(trackers, Live(trackers))
    <2>1. PICK r \in Room(live) : ts = With(r, id, t)
      BY <1>4 DEF Opened
    <2>2. Live(trackers) \subseteq DOMAIN trackers
      BY DEF Live
    <2>3. /\ DOMAIN live = Live(trackers)
          /\ \A d \in Live(trackers) : live[d] = trackers[d]
      BY Restricted
    <2>4. Cardinality(DOMAIN live) <= MaxTrackers
      <3>1. IsFiniteSet(DOMAIN trackers) /\ Cardinality(DOMAIN trackers) \in Nat
        BY <1>2, TrackersFinite DEF IInv
      <3>2. Cardinality(DOMAIN live) \in Nat
        BY <1>2, <2>2, <2>3, TrackersFinite DEF IInv
      <3>3. Cardinality(DOMAIN live) <= Cardinality(DOMAIN trackers)
        BY <2>2, <2>3, <3>1, FS_Subset
      <3> QED
        BY <3>1, <3>2, <3>3, SplitAssumption DEF IInv, TypeOK
    <2> HIDE DEF live, t, id
    <2>5. /\ DOMAIN r \subseteq Live(trackers)
          /\ \A d \in DOMAIN r : r[d] = trackers[d]
          /\ Cardinality(DOMAIN r) + 1 <= MaxTrackers
      <3>1. DOMAIN live \subseteq 0 .. IdMod - 1
        BY <1>2, <2>2, <2>3
      <3> QED
        BY <2>1, <2>3, <2>4, <3>1, RoomMade DEF IInv
    <2> DEFINE K == DOMAIN r
    <2>6. /\ DOMAIN ts = K \cup {id} /\ ts[id] = t
          /\ \A d \in K : d # id => ts[d] = r[d]
      BY <2>1 DEF With
    <2>7. K \in SUBSET (DOMAIN trackers \ {id})
      BY <1>4, <2>2, <2>5
    <2>8. Cardinality(DOMAIN ts) <= MaxTrackers
      <3>1. IsFiniteSet(K) /\ Cardinality(K) \in Nat
        BY <1>2, <2>7, TrackersFinite DEF IInv
      <3>2. Cardinality(DOMAIN ts) = Cardinality(K) + 1
        BY <2>6, <2>7, <3>1, FS_AddElement
      <3> QED
        BY <2>5, <3>2
    <2>9. Lost(ts) = DroppedFor(K, id)
      BY <1>4, <2>6 DEF Lost, DroppedFor
    <2>10. ts[id].total = totals[k] /\ ts[id].received = OldReceived(id)
      BY <1>4, <2>6 DEF t, OldReceived
    <2> QED
      BY <2>5, <2>6, <2>7, <2>8, <2>9, <2>10 DEF id
  <1> QED
    BY <1>3, <1>4

----------------------------------------------------------------------------
(* The arrival of a fragment.                                              *)

(* R is what the tracker holds of message k, fragment i included. *)
Gathered(k, i, R) ==
    /\ i \in DOMAIN R /\ DOMAIN OldReceived(SplitId(k)) \subseteq DOMAIN R
    /\ DOMAIN R \subseteq 0 .. totals[k] - 1
    /\ R = [x \in DOMAIN R |-> k]
    /\ \A x \in DOMAIN R : <<k, x>> \notin pending'

(* What becomes of it: K are the other trackers that are left. *)
Kept(k, K, R) ==
    /\ evicted' = evicted \cup DroppedFor(K, SplitId(k))
    /\ \A d \in K : trackers'[d] = trackers[d]
    /\ Cardinality(DOMAIN trackers') <= MaxTrackers
    /\ \/ /\ DOMAIN R # 0 .. totals[k] - 1
          /\ DOMAIN trackers' = K \cup {SplitId(k)}
          /\ trackers'[SplitId(k)] = [total |-> totals[k], received |-> R, time |-> clock]
          /\ out' = out
       \/ /\ DOMAIN R = 0 .. totals[k] - 1
          /\ DOMAIN trackers' = K
          /\ out' = Append(out, R)

LEMMA FragmentGathered ==
    ASSUME IInv, NEW k \in DOMAIN totals, NEW i \in 0 .. MaxFragments - 1,
           <<k, i>> \in pending, pending' = pending \ {<<k, i>>},
           NEW R, R = With(OldReceived(SplitId(k)), i, k)
    PROVE  Gathered(k, i, R)
  <1> DEFINE id == SplitId(k)
             old == OldReceived(id)
  <1>1. i \in 0 .. totals[k] - 1
    <2>1. i < totals[k]
      BY DEF IInv, FragmentsFit
    <2> QED
      BY <2>1, Numbers DEF IInv
  <1>2. /\ DOMAIN old \subseteq 0 .. totals[k] - 1
        /\ \A x \in DOMAIN old : old[x] = k /\ <<k, x>> \notin pending
    <2>1. CASE id \in DOMAIN trackers
      <3>1. PICK j \in DOMAIN totals : Owns(j, id)
        BY <2>1 DEF IInv, TrackersOwned
      <3>2. j = k
        BY <3>1 DEF Owns, Incomplete
      <3> QED
        BY <2>1, <3>1, <3>2 DEF Owns, Held, OldReceived
    <2>2. CASE id \notin DOMAIN trackers
      <3>1. old = << >>
        BY <2>2 DEF OldReceived
      <3>2. DOMAIN old = {}
        BY <3>1
      <3> QED
        BY <3>2
    <2> QED
      BY <2>1, <2>2
  <1> HIDE DEF old
  <1>3. R = With(old, i, k)
    BY DEF old
  <1>4. DOMAIN R = DOMAIN old \cup {i} /\ R = [x \in DOMAIN R |-> k]
    BY <1>2, <1>3 DEF With
  <1>5. \A x \in DOMAIN R : <<k, x>> \notin pending'
    BY <1>2, <1>4
  <1> QED
    BY <1>1, <1>2, <1>4, <1>5 DEF Gathered, old

LEMMA Arrived ==
    ASSUME IInv, NEW k \in 1 .. MaxSplits, NEW i \in 0 .. MaxFragments - 1,
           FragmentArrives(k, i), ~Oversized(k)
    PROVE  /\ k \in DOMAIN totals /\ <<k, i>> \in pending
           /\ pending' = pending \ {<<k, i>>}
           /\ UNCHANGED <<totals, clock>>
           /\ \E K \in SUBSET (DOMAIN trackers \ {SplitId(k)}) : \E R :
                 Gathered(k, i, R) /\ Kept(k, K, R)
  <1> DEFINE id == SplitId(k)
  <1>1. /\ k \in DOMAIN totals /\ <<k, i>> \in pending
        /\ pending' = pending \ {<<k, i>>} /\ UNCHANGED <<totals, clock>>
    <2>1. <<k, i>> \in pending
      BY DEF FragmentArrives
    <2>2. pending \subseteq (DOMAIN totals) \X (0 .. MaxFragments - 1)
      BY DEF IInv, TypeOK
    <2>3. k \in DOMAIN totals
      BY <2>1, <2>2
    <2> QED
      BY <2>1, <2>3 DEF FragmentArrives
  <1>2. PICK ts \in Opened(k) : File(k, i, ts) /\ evicted' = evicted \cup Lost(ts)
    BY DEF FragmentArrives
  <1>3. PICK K \in SUBSET (DOMAIN trackers \ {id}) :
              /\ DOMAIN ts = K \cup {id}
              /\ \A d \in K : ts[d] = trackers[d]
              /\ ts[id].total = totals[k]
              /\ ts[id].received = OldReceived(id)
              /\ Lost(ts) = DroppedFor(K, id)
              /\ Cardinality(DOMAIN ts) <= MaxTrackers
    BY <1>1, TrackersOpened
  <1> DEFINE R == With(OldReceived(id), i, k)
             t == [total |-> totals[k], received |-> R, time |-> clock]
  <1>4. Gathered(k, i, R)
    BY <1>1, FragmentGathered
  <1>5. Complete(t) <=> DOMAIN R = 0 .. totals[k] - 1
    <2> HIDE DEF R
    <2>1. totals[k] \in Nat
      BY <1>1, Numbers DEF IInv
    <2>2. DOMAIN R \subseteq 0 .. totals[k] - 1
      BY <1>4 DEF Gathered
    <2>3. Cardinality(DOMAIN R) = totals[k] <=> DOMAIN R = 0 .. totals[k] - 1
      BY <2>1, <2>2, CompleteMeansAll
    <2> QED
      BY <2>3 DEF Complete
  <1>6. \/ ~Complete(t) /\ trackers' = [ts EXCEPT ![id] = t] /\ out' = out
        \/ Complete(t) /\ trackers' = Restrict(ts, DOMAIN ts \ {id}) /\ out' = Append(out, R)
    BY <1>2, <1>3 DEF File
  <1>7. Kept(k, K, R)
    <2> HIDE DEF R
    <2>1. evicted' = evicted \cup DroppedFor(K, id)
      BY <1>2, <1>3
    <2>2. CASE ~Complete(t) /\ trackers' = [ts EXCEPT ![id] = t] /\ out' = out
      <3>1. /\ DOMAIN trackers' = K \cup {id} /\ trackers'[id] = t
            /\ \A d \in K : trackers'[d] = trackers[d]
        BY <1>3, <2>2
      <3> QED
        BY <1>3, <1>5, <2>1, <2>2, <3>1 DEF Kept
    <2>3. CASE Complete(t) /\ trackers' = Restrict(ts, DOMAIN ts \ {id}) /\ out' = Append(out, R)
      <3>1. /\ DOMAIN trackers' = K
            /\ \A d \in K : trackers'[d] = trackers[d]
        BY <1>3, <2>3 DEF Restrict
      <3>2. IsFiniteSet(K) /\ Cardinality(K) \in Nat
        <4>1. K \subseteq 0 .. IdMod - 1
          BY DEF IInv, TypeOK
        <4> QED
          BY <4>1, TrackersFinite DEF IInv
      <3>3. Cardinality(K \cup {id}) = Cardinality(K) + 1
        BY <3>2, FS_AddElement
      <3>4. Cardinality(DOMAIN trackers') <= MaxTrackers
        BY <1>3, <3>1, <3>2, <3>3, SplitAssumption
      <3> QED
        BY <1>5, <2>1, <2>3, <3>1, <3>4 DEF Kept
    <2> QED
      BY <1>6, <2>2, <2>3
  <1> QED
    BY <1>1, <1>4, <1>7

(* Nothing is under way that was not before. *)
LEMMA LessUnderWay ==
    ASSUME NEW k, NEW i, pending' = pending \ {<<k, i>>}, NEW j, Incomplete(j)'
    PROVE  Incomplete(j)
  <1> QED
    BY DEF Incomplete

(* The payloads, after one more or none. *)
LEMMA PayloadsStay ==
    ASSUME IInv, NEW k \in DOMAIN totals, NEW K, NEW R,
           NEW i, Gathered(k, i, R), Kept(k, K, R),
           totals' = totals
    PROVE  /\ OutTyped'
           /\ \A m \in DOMAIN totals :
                 Reassembled(m)' <=> Reassembled(m) \/ (m = k /\ DOMAIN R = 0 .. totals[k] - 1)
           /\ \A j \in DOMAIN out : out'[j] = out[j]
           /\ \A j, l \in DOMAIN out' \ DOMAIN out : out'[j] = Payload(k) /\ l = j
  <1> DEFINE S == {Payload(m) : m \in DOMAIN totals}
  <1>1. S' = S
    BY DEF Payload
  <1>2. out \in Seq(S)
    BY DEF IInv, OutTyped
  <1>3. CASE out' = out /\ DOMAIN R # 0 .. totals[k] - 1
    <2>1. \A m : Reassembled(m)' <=> Reassembled(m)
      BY <1>3 DEF Reassembled
    <2> QED
      BY <1>1, <1>2, <1>3, <2>1 DEF OutTyped
  <1>4. CASE out' = Append(out, R) /\ DOMAIN R = 0 .. totals[k] - 1
    <2>1. R = Payload(k) /\ R \in S
      BY <1>4 DEF Gathered, Payload
    <2>2. Range(R) = {k}
      <3>1. 0 \in 0 .. totals[k] - 1
        BY Numbers DEF IInv
      <3> QED
        BY <2>1, <3>1 DEF Range, Payload
    <2> HIDE DEF S
    <2>3. /\ out' \in Seq(S) /\ DOMAIN out' = DOMAIN out \cup {Len(out) + 1}
          /\ \A j \in DOMAIN out : out'[j] = out[j]
          /\ out'[Len(out) + 1] = R
      BY <1>2, <1>4, <2>1
    <2>4. OutTyped'
      BY <1>1, <2>3 DEF OutTyped, S
    <2>5. \A m : Reassembled(m)' <=> Reassembled(m) \/ m = k
      BY <2>2, <2>3 DEF Reassembled
    <2> QED
      BY <1>4, <2>1, <2>3, <2>4, <2>5
  <1> QED
    BY <1>3, <1>4 DEF Kept

(* A fragment of a message that is too large only leaves the network.      *)
LEMMA OversizedStep ==
    ASSUME IInv, NEW k \in 1 .. MaxSplits, NEW i \in 0 .. MaxFragments - 1,
           FragmentArrives(k, i), Oversized(k)
    PROVE  IInv'
  <1>1. /\ pending' = pending \ {<<k, i>>}
        /\ UNCHANGED <<totals, trackers, clock, out, evicted>>
    BY DEF FragmentArrives
  <1>2. \A j : Incomplete(j)' => Incomplete(j)
    BY <1>1, LessUnderWay
  <1>3. \A j : Reassembled(j)' <=> Reassembled(j)
    BY <1>1 DEF Reassembled
  <1>4. TypeOK'
    BY <1>1 DEF IInv, TypeOK
  <1>5. FragmentsFit' /\ OneUnderWay'
    BY <1>1, <1>2 DEF IInv, FragmentsFit, OneUnderWay
  <1>6. TrackersOwned'
    <2> SUFFICES ASSUME NEW d \in DOMAIN trackers
                 PROVE  \E m \in DOMAIN totals : Owns(m, d)'
      BY <1>1 DEF TrackersOwned
    <2>1. PICK m \in DOMAIN totals : Owns(m, d)
      BY DEF IInv, TrackersOwned
    <2>2. \A x : <<m, x>> \notin pending => <<m, x>> \notin pending'
      BY <1>1
    <2>3. Held(d)' = Held(d)
      BY <1>1 DEF Held
    <2> QED
      BY <1>1, <1>2, <2>1, <2>2, <2>3 DEF Owns
  <1>7. FragmentsFound'
    BY <1>1, <1>3 DEF IInv, FragmentsFound, Filed, Held, Oversized
  <1>8. OutTyped' /\ ReassembledIntact'
    BY <1>1 DEF IInv, OutTyped, Payload, ReassembledIntact
  <1>9. OutComplete'
    BY <1>1, <1>2, <1>3 DEF IInv, OutComplete
  <1> QED
    BY <1>4, <1>5, <1>6, <1>7, <1>8, <1>9 DEF IInv

LEMMA ArriveStep ==
    ASSUME IInv, NEW k \in 1 .. MaxSplits, NEW i \in 0 .. MaxFragments - 1,
           FragmentArrives(k, i), ~Oversized(k)
    PROVE  IInv'
  <1> DEFINE id == SplitId(k)
  <1>1. /\ k \in DOMAIN totals /\ <<k, i>> \in pending
        /\ pending' = pending \ {<<k, i>>}
        /\ totals' = totals /\ clock' = clock
    BY Arrived
  <1>2. PICK K, R :
            K \subseteq DOMAIN trackers \ {id} /\ Gathered(k, i, R) /\ Kept(k, K, R)
    BY Arrived
  <1>3. \A j : Incomplete(j)' => Incomplete(j)
    BY <1>1, LessUnderWay
  <1>4. Incomplete(k)
    BY <1>1 DEF Incomplete
  <1>5. /\ id \in 0 .. IdMod - 1 /\ totals[k] \in 2 .. MaxFragments
        /\ clock \in Nat
    BY <1>1, Numbers DEF IInv, TypeOK
  <1>6. /\ K \subseteq DOMAIN trackers
        /\ \A d \in K : d # id /\ trackers'[d] = trackers[d]
        /\ DOMAIN trackers' \subseteq K \cup {id}
        /\ id \in DOMAIN trackers' =>
              /\ trackers'[id] = [total |-> totals[k], received |-> R, time |-> clock]
              /\ DOMAIN R # 0 .. totals[k] - 1
        /\ K \subseteq DOMAIN trackers'
    BY <1>2 DEF Kept
  <1>7. /\ OutTyped'
        /\ \A m \in DOMAIN totals :
              Reassembled(m)' <=> Reassembled(m) \/ (m = k /\ DOMAIN R = 0 .. totals[k] - 1)
        /\ \A j \in DOMAIN out : out'[j] = out[j]
        /\ \A j, l \in DOMAIN out' \ DOMAIN out : out'[j] = Payload(k) /\ l = j
    BY <1>1, <1>2, PayloadsStay
  <1>8. evicted' \subseteq DOMAIN totals
    <2>1. DroppedFor(K, id) \subseteq DOMAIN totals
      BY DEF IInv, TypeOK, DroppedFor
    <2> QED
      BY <1>2, <2>1 DEF Kept, IInv, TypeOK
  <1>9. R = [x \in DOMAIN R |-> k] /\ DOMAIN R \subseteq 0 .. totals[k] - 1 /\ i \in DOMAIN R
    BY <1>2 DEF Gathered
  <1> HIDE DEF id
  <1>10. TypeOK'
    <2>1. Range(R) \subseteq DOMAIN totals
      BY <1>1, <1>9 DEF Range
    <2>2. \A d \in DOMAIN trackers' :
          /\ d \in 0 .. IdMod - 1
          /\ trackers'[d].total \in 2 .. MaxFragments
          /\ DOMAIN trackers'[d].received \subseteq 0 .. trackers'[d].total - 1
          /\ Range(trackers'[d].received) \subseteq DOMAIN totals
          /\ trackers'[d].time \in 0 .. clock
      <3> SUFFICES ASSUME NEW d \in DOMAIN trackers'
                   PROVE  /\ d \in 0 .. IdMod - 1
                          /\ trackers'[d].total \in 2 .. MaxFragments
                          /\ DOMAIN trackers'[d].received \subseteq 0 .. trackers'[d].total - 1
                          /\ Range(trackers'[d].received) \subseteq DOMAIN totals
                          /\ trackers'[d].time \in 0 .. clock
        OBVIOUS
      <3>1. CASE d = id
        BY <1>5, <1>6, <1>9, <2>1, <3>1
      <3>2. CASE d # id
        BY <1>6, <3>2 DEF IInv, TypeOK
      <3> QED
        BY <3>1, <3>2
    <2>3. Cardinality(DOMAIN trackers') <= MaxTrackers
      BY <1>2 DEF Kept
    <2> QED
      BY <1>1, <1>8, <2>2, <2>3 DEF IInv, TypeOK
  <1>11. FragmentsFit'
    BY <1>1 DEF IInv, FragmentsFit
  <1>12. OneUnderWay'
    BY <1>1, <1>3 DEF IInv, OneUnderWay
  <1>13. TrackersOwned'
    <2> SUFFICES ASSUME NEW d \in DOMAIN trackers'
                 PROVE  \E m \in DOMAIN totals : Owns(m, d)'
      BY <1>1 DEF TrackersOwned
    <2>1. CASE d = id
      <3>1. /\ trackers'[d].total = totals[k] /\ trackers'[d].received = R
            /\ DOMAIN R # 0 .. totals[k] - 1
        BY <1>6, <2>1
      <3>2. \A x \in DOMAIN R : R[x] = k /\ <<k, x>> \notin pending'
        BY <1>2, <1>9 DEF Gathered
      <3>3. \A j \in DOMAIN totals : SplitId(j) = d /\ Incomplete(j)' => j = k
        BY <1>1, <1>3, <1>4, <2>1 DEF IInv, OneUnderWay, id
      <3>4. SplitId(k) = d
        BY <2>1 DEF id
      <3> QED
        BY <1>1, <1>9, <3>1, <3>2, <3>3, <3>4 DEF Owns, Held
    <2>2. CASE d # id
      <3>1. d \in DOMAIN trackers /\ trackers'[d] = trackers[d]
        BY <1>6, <2>2
      <3>2. PICK m \in DOMAIN totals : Owns(m, d)
        BY <3>1 DEF IInv, TrackersOwned
      <3>3. Held(d)' = Held(d)
        BY <3>1 DEF Held
      <3>4. \A x : <<m, x>> \notin pending => <<m, x>> \notin pending'
        BY <1>1
      <3> QED
        BY <1>1, <1>3, <3>1, <3>2, <3>3, <3>4 DEF Owns
    <2> QED
      BY <2>1, <2>2
  <1>14. FragmentsFound'
    <2> SUFFICES ASSUME NEW m \in DOMAIN totals, NEW x \in 0 .. totals[m] - 1,
                        <<m, x>> \notin pending', m \notin evicted',
                        ~Oversized(m), ~Reassembled(m)'
                 PROVE  Filed(m, x)'
      BY <1>1 DEF FragmentsFound, Oversized
    <2>1. m \notin evicted /\ ~Reassembled(m)
      BY <1>2, <1>7 DEF Kept
    <2>2. CASE m = k /\ x \in DOMAIN R
      <3>1. DOMAIN R # 0 .. totals[k] - 1
        BY <1>7, <2>2
      <3>2. id \in DOMAIN trackers' /\ trackers'[id].received = R
        BY <1>2, <3>1 DEF Kept, id
      <3>3. R[x] = k
        BY <1>9, <2>2
      <3> QED
        BY <2>2, <3>2, <3>3 DEF Filed, Held, id
    <2>3. CASE ~(m = k /\ x \in DOMAIN R)
      <3>1. <<m, x>> \notin pending
        BY <1>1, <1>9, <2>3
      <3>2. Filed(m, x)
        BY <2>1, <3>1 DEF IInv, FragmentsFound
      <3> DEFINE d == SplitId(m)
      <3>3. d \in DOMAIN trackers /\ x \in DOMAIN trackers[d].received
            /\ trackers[d].received[x] = m
        BY <3>2 DEF Filed, Held
      <3>4. CASE d = id
        <4>1. DOMAIN trackers[d].received \subseteq DOMAIN R
          BY <1>2, <3>3, <3>4 DEF Gathered, OldReceived, id
        <4>2. PICK n \in DOMAIN totals : Owns(n, d)
          BY <3>3 DEF IInv, TrackersOwned
        <4>3. n = k
          BY <1>1, <1>4, <3>4, <4>2 DEF Owns, id
        <4>4. m = n
          BY <3>3, <4>2 DEF Owns, Held
        <4> QED
          BY <2>3, <3>3, <4>1, <4>3, <4>4
      <3>5. CASE d # id
        <4>1. d \in K
          <5>1. m \in Range(trackers[d].received)
            BY <3>3 DEF Range
          <5>2. d \notin K => m \in DroppedFor(K, id)
            BY <3>3, <3>5, <5>1 DEF DroppedFor
          <5> QED
            BY <1>2, <5>2 DEF Kept, id
        <4> QED
          BY <1>6, <3>3, <4>1 DEF Filed, Held
      <3> QED
        BY <3>4, <3>5
    <2> QED
      BY <2>2, <2>3
  <1>15. ReassembledIntact'
    <2>1. \A j \in DOMAIN out' : \E m \in DOMAIN totals : out'[j] = Payload(m)
      BY <1>1, <1>7 DEF IInv, ReassembledIntact, Payload
    <2>2. \A j \in DOMAIN out : out[j] # Payload(k)
      <3> SUFFICES ASSUME NEW j \in DOMAIN out, out[j] = Payload(k)
                   PROVE  FALSE
        OBVIOUS
      <3>1. k \in Range(out[j])
        <4>1. 0 \in DOMAIN out[j] /\ out[j][0] = k
          BY <1>5 DEF Payload
        <4> QED
          BY <4>1 DEF Range
      <3> QED
        BY <1>1, <1>4, <3>1 DEF IInv, OutComplete, Reassembled
    <2>3. \A j, l \in DOMAIN out' : j # l => out'[j] # out'[l]
      <3> SUFFICES ASSUME NEW j \in DOMAIN out', NEW l \in DOMAIN out', j # l
                   PROVE  out'[j] # out'[l]
        OBVIOUS
      <3>1. CASE j \in DOMAIN out /\ l \in DOMAIN out
        BY <1>7, <3>1 DEF IInv, ReassembledIntact
      <3>2. CASE j \notin DOMAIN out /\ l \in DOMAIN out
        BY <1>7, <2>2, <3>2
      <3>3. CASE j \in DOMAIN out /\ l \notin DOMAIN out
        BY <1>7, <2>2, <3>3
      <3> QED
        BY <1>7, <3>1, <3>2, <3>3
    <2> QED
      BY <1>1, <2>1, <2>3 DEF ReassembledIntact, Payload
  <1>16. OutComplete'
    <2> SUFFICES ASSUME NEW m \in DOMAIN totals, Reassembled(m)'
                 PROVE  ~Incomplete(m)'
      BY <1>1 DEF OutComplete
    <2>1. CASE Reassembled(m)
      BY <1>3, <2>1 DEF IInv, OutComplete
    <2>2. CASE m = k /\ DOMAIN R = 0 .. totals[k] - 1
      <3>1. \A x \in 0 .. totals[k] - 1 : <<k, x>> \notin pending'
        BY <1>2, <2>2 DEF Gathered
      <3>2. \A x \in 0 .. MaxFragments - 1 : <<k, x>> \in pending' => x < totals[k]
        BY <1>1, <1>11 DEF FragmentsFit
      <3>3. \A x \in 0 .. MaxFragments - 1 : <<k, x>> \notin pending'
        BY <1>5, <3>1, <3>2
      <3> QED
        BY <2>2, <3>3 DEF Incomplete
    <2> QED
      BY <1>7, <2>1, <2>2
  <1> QED
    BY <1>7, <1>10, <1>11, <1>12, <1>13, <1>14, <1>15, <1>16 DEF IInv

----------------------------------------------------------------------------
(* The other steps.                                                        *)

LEMMA SendStep ==
    ASSUME IInv, SendSplit
    PROVE  IInv'
  <1> DEFINE k == Len(totals) + 1
             Sizes == 2 .. MaxFragments
  <1>1. PICK n \in Sizes :
            /\ totals' = Append(totals, n)
            /\ pending' = pending \cup {<<k, i>> : i \in 0 .. n - 1}
    BY DEF SendSplit
  <1>2. IdIsFree(k) /\ UNCHANGED <<trackers, clock, out, evicted>>
    BY DEF SendSplit
  <1>3. totals \in Seq(Sizes)
    BY DEF IInv, TypeOK
  <1>4. n \in 2 .. MaxFragments /\ n \in Nat
    BY <1>1
  <1> HIDE DEF Sizes
  <1>5. /\ totals' \in Seq(Sizes) /\ DOMAIN totals' = DOMAIN totals \cup {k}
        /\ k \notin DOMAIN totals
        /\ \A j \in DOMAIN totals : totals'[j] = totals[j]
        /\ totals'[k] = n
    BY <1>1, <1>3
  <1> HIDE DEF k
  <1>6. \A j \in DOMAIN totals : \A i : <<j, i>> \in pending' <=> <<j, i>> \in pending
    BY <1>1, <1>5
  <1>7. \A j \in DOMAIN totals : Incomplete(j)' <=> Incomplete(j)
    BY <1>6 DEF Incomplete
  <1>8. \A m \in DOMAIN totals : Reassembled(m)' <=> Reassembled(m)
    BY <1>2 DEF Reassembled
  <1>9. \A i : <<k, i>> \in pending' <=> i \in 0 .. n - 1
    BY <1>1, <1>5 DEF IInv, TypeOK
  <1>10. TypeOK'
    <2>1. pending' \subseteq (DOMAIN totals') \X (0 .. MaxFragments - 1)
      <3>1. {<<k, i>> : i \in 0 .. n - 1} \subseteq (DOMAIN totals') \X (0 .. MaxFragments - 1)
        BY <1>4, <1>5, SplitAssumption
      <3> QED
        BY <1>1, <1>5, <3>1 DEF IInv, TypeOK
    <2> QED
      BY <1>2, <1>5, <2>1 DEF IInv, TypeOK, Sizes
  <1>11. FragmentsFit'
    BY <1>4, <1>5, <1>6, <1>9 DEF IInv, FragmentsFit
  <1>12. OneUnderWay'
    <2>1. \A j \in DOMAIN totals : SplitId(j) = SplitId(k) => ~Incomplete(j)
      BY <1>2 DEF IdIsFree
    <2> QED
      BY <1>5, <1>7, <2>1 DEF IInv, OneUnderWay
  <1>13. TrackersOwned'
    <2> SUFFICES ASSUME NEW d \in DOMAIN trackers
                 PROVE  \E m \in DOMAIN totals' : Owns(m, d)'
      BY <1>2 DEF TrackersOwned
    <2>1. PICK m \in DOMAIN totals : Owns(m, d)
      BY DEF IInv, TrackersOwned
    <2>2. SplitId(k) # d
      BY <1>2 DEF IdIsFree
    <2>3. Held(d)' = Held(d) /\ trackers'[d] = trackers[d]
      BY <1>2 DEF Held
    <2>4. totals'[m] = totals[m]
      BY <1>5
    <2>5. \A i : <<m, i>> \notin pending => <<m, i>> \notin pending'
      BY <1>6
    <2>6. \A j \in DOMAIN totals' : SplitId(j) = d /\ Incomplete(j)' => j = m
      BY <1>5, <1>7, <2>1, <2>2 DEF Owns
    <2>7. Owns(m, d)'
      BY <2>1, <2>3, <2>4, <2>5, <2>6 DEF Owns
    <2> QED
      BY <1>5, <2>7
  <1>14. FragmentsFound'
    <2> SUFFICES ASSUME NEW m \in DOMAIN totals', NEW x \in 0 .. totals'[m] - 1
                 PROVE  \/ <<m, x>> \in pending' \/ m \in evicted' \/ Oversized(m)'
                        \/ Reassembled(m)' \/ Filed(m, x)'
      BY DEF FragmentsFound
    <2>1. CASE m = k
      BY <1>5, <1>9, <2>1
    <2>2. CASE m \in DOMAIN totals
      <3>1. Filed(m, x)' <=> Filed(m, x)
        BY <1>2 DEF Filed, Held
      <3>2. x \in 0 .. totals[m] - 1
        BY <1>5, <2>2
      <3> QED
        BY <1>2, <1>5, <1>6, <1>8, <2>2, <3>1, <3>2 DEF IInv, FragmentsFound, Oversized
    <2> QED
      BY <1>5, <2>1, <2>2
  <1>15. OutTyped'
    <2> DEFINE S == {Payload(j) : j \in DOMAIN totals}
               T == {Payload(j)' : j \in DOMAIN totals'}
    <2>1. S \subseteq T
      BY <1>5 DEF Payload
    <2>2. out \in Seq(S)
      BY DEF IInv, OutTyped
    <2> HIDE DEF S, T
    <2>3. out \in Seq(T)
      BY <2>1, <2>2
    <2> QED
      BY <1>2, <2>3 DEF OutTyped, T
  <1>16. ReassembledIntact'
    <2>1. \A j \in DOMAIN totals : [i \in 0 .. totals'[j] - 1 |-> j] = [i \in 0 .. totals[j] - 1 |-> j]
      BY <1>5
    <2> QED
      BY <1>2, <1>5, <2>1 DEF IInv, ReassembledIntact
  <1>17. OutComplete'
    <2>1. \A j \in DOMAIN out : k \notin Range(out[j])
      <3> SUFFICES ASSUME NEW j \in DOMAIN out, k \in Range(out[j])
                   PROVE  FALSE
        OBVIOUS
      <3>1. PICK m \in DOMAIN totals : out[j] = [i \in 0 .. totals[m] - 1 |-> m]
        BY DEF IInv, ReassembledIntact
      <3>2. m = k
        BY <3>1 DEF Range
      <3> QED
        BY <1>5, <3>2
    <2> SUFFICES ASSUME NEW m \in DOMAIN totals', Reassembled(m)'
                 PROVE  ~Incomplete(m)'
      BY DEF OutComplete
    <2>2. m \in DOMAIN totals
      BY <1>2, <1>5, <2>1 DEF Reassembled
    <2>3. Reassembled(m) /\ ~Incomplete(m)
      BY <1>8, <2>2 DEF IInv, OutComplete
    <2> QED
      BY <1>7, <2>2, <2>3
  <1> QED
    BY <1>10, <1>11, <1>12, <1>13, <1>14, <1>15, <1>16, <1>17 DEF IInv

(* A step that sends nothing and puts nothing together. *)
LEMMA PayloadsUnchanged ==
    ASSUME OutTyped, ReassembledIntact, OutComplete, UNCHANGED <<totals, pending, out>>
    PROVE  OutTyped' /\ ReassembledIntact' /\ OutComplete'
  <1>1. OutTyped'
    BY DEF OutTyped, Payload
  <1>2. ReassembledIntact'
    BY DEF ReassembledIntact
  <1>3. OutComplete'
    BY DEF OutComplete, Reassembled, Incomplete
  <1> QED
    BY <1>1, <1>2, <1>3

(* A step that changes no tracker either. *)
LEMMA TrackersUnchanged ==
    ASSUME FragmentsFit, OneUnderWay, TrackersOwned, FragmentsFound,
           UNCHANGED <<totals, pending, trackers, out, evicted>>
    PROVE  FragmentsFit' /\ OneUnderWay' /\ TrackersOwned' /\ FragmentsFound'
  <1>1. FragmentsFit' /\ OneUnderWay'
    BY DEF FragmentsFit, OneUnderWay, Incomplete
  <1>2. TrackersOwned'
    BY DEF TrackersOwned, Owns, Held, Incomplete
  <1>3. FragmentsFound'
    BY DEF FragmentsFound, Filed, Held, Reassembled, Oversized
  <1> QED
    BY <1>1, <1>2, <1>3

LEMMA UpdateStep ==
    ASSUME IInv, Update
    PROVE  IInv'
  <1>1. UNCHANGED <<totals, pending, clock, out>>
    BY DEF Update
  <1>2. /\ DOMAIN trackers' = Live(trackers) /\ Live(trackers) \subseteq DOMAIN trackers
        /\ \A d \in DOMAIN trackers' : trackers'[d] = trackers[d]
    BY DEF Update, Live, Restrict
  <1>3. evicted' = evicted \cup Lost(trackers')
    BY DEF Update
  <1>4. TypeOK'
    <2>1. Cardinality(DOMAIN trackers') <= MaxTrackers
      <3>1. IsFiniteSet(DOMAIN trackers) /\ Cardinality(DOMAIN trackers) \in Nat
        BY TrackersFinite DEF IInv, TypeOK
      <3>2. /\ Cardinality(DOMAIN trackers') \in Nat
            /\ Cardinality(DOMAIN trackers') <= Cardinality(DOMAIN trackers)
        BY <1>2, <3>1, FS_Subset, FS_CardinalityType
      <3> QED
        BY <3>1, <3>2, SplitAssumption DEF IInv, TypeOK
    <2>2. Lost(trackers') \subseteq DOMAIN totals
      BY DEF IInv, TypeOK, Lost
    <2> QED
      BY <1>1, <1>2, <1>3, <2>1, <2>2 DEF IInv, TypeOK
  <1>5. FragmentsFit' /\ OneUnderWay'
    BY <1>1 DEF IInv, FragmentsFit, OneUnderWay, Incomplete
  <1>6. OutTyped' /\ ReassembledIntact' /\ OutComplete'
    BY <1>1, PayloadsUnchanged DEF IInv
  <1>7. TrackersOwned'
    BY <1>1, <1>2 DEF IInv, TrackersOwned, Owns, Held, Incomplete
  <1>8. FragmentsFound'
    <2> SUFFICES ASSUME NEW m \in DOMAIN totals, NEW x \in 0 .. totals[m] - 1,
                        Filed(m, x), m \notin evicted'
                 PROVE  Filed(m, x)'
      BY <1>1, <1>3 DEF IInv, FragmentsFound, Reassembled, Oversized
    <2>1. m \in Range(trackers[SplitId(m)].received)
      BY DEF Filed, Held, Range
    <2>2. SplitId(m) \in DOMAIN trackers'
      BY <1>3, <2>1 DEF Filed, Lost
    <2> QED
      BY <1>2, <2>2 DEF Filed, Held
  <1> QED
    BY <1>4, <1>5, <1>6, <1>7, <1>8 DEF IInv

LEMMA TimeStep ==
    ASSUME IInv, TimePasses
    PROVE  IInv'
  <1>1. UNCHANGED <<totals, pending, trackers, out, evicted>>
    BY DEF TimePasses
  <1>2. TypeOK'
    BY <1>1, SplitAssumption DEF IInv, TypeOK, TimePasses
  <1> QED
    BY <1>1, <1>2, PayloadsUnchanged, TrackersUnchanged DEF IInv

LEMMA Initially == Init => IInv
  <1> SUFFICES ASSUME Init
               PROVE  IInv
    OBVIOUS
  <1>1. totals = << >> /\ pending = {} /\ trackers = << >> /\ clock = 0 /\ out = << >> /\ evicted = {}
    BY DEF Init
  <1>2. DOMAIN totals = {} /\ DOMAIN trackers = {} /\ DOMAIN out = {}
    BY <1>1
  <1>3. TypeOK
    <2>1. Cardinality(DOMAIN trackers) = 0
      BY <1>2, FS_EmptySet
    <2>2. totals \in Seq(2 .. MaxFragments)
      BY <1>1
    <2> QED
      BY <1>1, <1>2, <2>1, <2>2, SplitAssumption DEF TypeOK
  <1>4. OutTyped
    BY <1>1 DEF OutTyped
  <1> QED
    BY <1>2, <1>3, <1>4 DEF IInv, FragmentsFit, OneUnderWay, TrackersOwned, FragmentsFound,
                            ReassembledIntact, OutComplete

LEMMA Inductive == Spec => []IInv
  <1>1. IInv /\ [Next]_vars => IInv'
    <2> SUFFICES ASSUME IInv, [Next]_vars
                 PROVE  IInv'
      OBVIOUS
    <2>1. CASE UNCHANGED vars
      <3>1. UNCHANGED <<totals, pending, trackers, clock, out, evicted>>
        BY <2>1 DEF vars
      <3>2. TypeOK'
        BY <3>1 DEF IInv, TypeOK
      <3> QED
        BY <3>1, <3>2, PayloadsUnchanged, TrackersUnchanged DEF IInv
    <2> QED
      BY <2>1, SendStep, ArriveStep, OversizedStep, UpdateStep, TimeStep DEF Next
  <1> QED
    BY <1>1, Initially, PTL DEF Spec

----------------------------------------------------------------------------
(* The theorems.                                                           *)

(* The trackers of _reassemble_split keep their types and their number     *)
(* stays within MAX_SPLIT_TRACKERS.                                        *)
THEOREM TypeCorrect == Spec => []TypeOK
  <1> QED
    BY Inductive, PTL DEF IInv

(* _reassemble_split hands out whole messages only, each once, although    *)
(* split ids are reused and trackers are dropped and opened again.         *)
THEOREM ReassembledAlwaysIntact == Spec => []ReassembledIntact
  <1> QED
    BY Inductive, PTL DEF IInv

(* A message all of whose fragments arrived is reassembled, unless a       *)
(* tracker that held some of them was dropped or the message has more      *)
(* fragments than MAX_SPLIT_PACKET_COUNT.                                  *)
THEOREM LossOnlyEverByEviction == Spec => []LossOnlyByEviction
  <1>1. IInv => LossOnlyByEviction
    <2> SUFFICES ASSUME IInv, NEW k \in DOMAIN totals,
                        ~Incomplete(k), ~Reassembled(k), k \notin evicted,
                        ~Oversized(k)
                 PROVE  FALSE
      BY DEF LossOnlyByEviction
    <2> DEFINE id == SplitId(k)
    <2>1. totals[k] \in 2 .. MaxFragments
      BY Numbers DEF IInv
    <2>2. \A i \in 0 .. totals[k] - 1 : Filed(k, i)
      <3> SUFFICES ASSUME NEW i \in 0 .. totals[k] - 1
                   PROVE  Filed(k, i)
        OBVIOUS
      <3>1. i \in 0 .. MaxFragments - 1
        BY <2>1, SplitAssumption
      <3>2. <<k, i>> \notin pending
        BY <3>1 DEF Incomplete
      <3> QED
        BY <3>2 DEF IInv, FragmentsFound
    <2>3. id \in DOMAIN trackers /\ 0 .. totals[k] - 1 \subseteq Held(id)
      BY <2>1, <2>2 DEF Filed
    <2>4. PICK j \in DOMAIN totals : Owns(j, id)
      BY <2>3 DEF IInv, TrackersOwned
    <2>5. trackers[id].received[0] = j
      <3>1. 0 \in 0 .. totals[k] - 1
        BY <2>1
      <3>2. 0 \in Held(id)
        BY <2>3, <3>1
      <3> QED
        BY <2>4, <3>2 DEF Owns
    <2>6. trackers[id].received[0] = k
      BY <2>1, <2>2 DEF Filed
    <2> QED
      BY <2>3, <2>4, <2>5, <2>6 DEF Owns
  <1> QED
    BY <1>1, Inductive, PTL
=============================================================================
