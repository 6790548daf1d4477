-------------------------- MODULE SendQueueProofs --------------------------
(***************************************************************************)
(* The send queue keeps the order of each priority, loses and repeats no   *)
(* frame, and passes over what an update left behind once at most, for any *)
(* number of messages, any of the priorities and any size of datagram.     *)
(***************************************************************************)
EXTENDS SendQueue, FiniteSetTheorems, SequenceTheorems, TLAPS

(* The heap holds one entry per message; of two messages of one priority   *)
(* the earlier comes first, and none weighs more than the next one will.   *)
HeapInOrder ==
    /\ IsFiniteSet(queue)
    /\ \A a, b \in queue : a # b => a.msg # b.msg
    /\ \A a, b \in queue :
          sent[a.msg] = sent[b.msg] /\ a.msg < b.msg => Precedes(a, b)
    /\ \A e \in queue : e.weight <= nextWeight[sent[e.msg]]

(* Every message is queued or logged, never both and never twice.          *)
Partition ==
    /\ \A k \in 1 .. Len(sent) : k \in Queued \/ \E i \in DOMAIN log : log[i] = k
    /\ \A i \in DOMAIN log : log[i] \notin Queued
    /\ \A i, j \in DOMAIN log : i # j => log[i] # log[j]

(* What is on the wire was sent before what waits with the same priority.  *)
LogBeforeQueue ==
    \A i \in DOMAIN log : \A e \in queue :
        sent[log[i]] = sent[e.msg] => log[i] < e.msg

(* What an update left behind is at the head of the heap.                  *)
LeftAhead ==
    /\ left \subseteq Queued
    /\ \A a \in queue : a.msg \in left => a.weight = 0
    /\ \A a, b \in queue : a.msg \in left /\ b.msg \notin left => Precedes(a, b)

IInv == TypeOK /\ HeapInOrder /\ Partition /\ LogBeforeQueue /\ LeftAhead /\ FifoPerPriority

(***************************************************************************)
(* The operators.                                                          *)

(* The weights are natural numbers.                                        *)
LEMMA WeightsAreNat ==
    ASSUME NEW p \in Priorities
    PROVE  InitWeight(p) \in Nat /\ WeightStep(p) \in Nat
  <1>1. p = 0 \/ p = 1 \/ p = 2 \/ p = 3
    BY SendQueueAssumption
  <1>2. 2^0 = 1 /\ 2^1 = 2 /\ 2^2 = 4 /\ 2^3 = 8
    BY Z3
  <1>3. 2^p = 2^0 \/ 2^p = 2^1 \/ 2^p = 2^2 \/ 2^p = 2^3
    BY <1>1, Zenon
  <1>4. 2^p \in Nat
    BY <1>2, <1>3
  <1> DEFINE w == 2^p
  <1>5. w \in Nat
    BY <1>4
  <1> HIDE DEF w
  <1>6. w * p + p \in Nat /\ w * (p + 1) + p \in Nat
    BY <1>1, <1>5
  <1> QED
    BY <1>6 DEF InitWeight, WeightStep, w

(* The parts of an entry.                                                  *)
LEMMA EntryType ==
    ASSUME TypeOK, NEW e \in queue
    PROVE  /\ e.weight \in Nat /\ e.count \in 1 .. counter /\ e.count \in Nat
           /\ e.msg \in 1 .. Len(sent) /\ e.msg \in Nat
           /\ sent[e.msg] \in Priorities
  <1>1. e \in [weight : Nat, count : 1 .. counter, msg : 1 .. Len(sent)]
    BY DEF TypeOK
  <1> QED
    BY <1>1 DEF TypeOK

(* The heap order is strict.                                               *)
LEMMA PrecedesStrict ==
    ASSUME TypeOK, NEW a \in queue, NEW b \in queue, Precedes(a, b)
    PROVE  ~Precedes(b, a)
  BY EntryType DEF Precedes

(* What popping a finite heap yields: all of it, once, in ascending order. *)
LEMMA SortedListing ==
    ASSUME IsFiniteSet(queue), NEW order \in Sorted(queue)
    PROVE  /\ Len(order) \in Nat /\ order \in Seq(queue) /\ DOMAIN order = 1 .. Len(order)
           /\ \A i, j \in 1 .. Len(order) : i # j => order[i] # order[j]
           /\ \A i \in 1 .. Len(order) : order[i] \in queue
           /\ \A e \in queue : \E i \in 1 .. Len(order) : order[i] = e
           /\ \A i, j \in 1 .. Len(order) : i < j => Precedes(order[i], order[j])
  <1>1. Cardinality(queue) \in Nat
    BY FS_CardinalityType
  <1>2. /\ order \in [1 .. Cardinality(queue) -> queue]
        /\ \A i, j \in DOMAIN order : i # j => order[i] # order[j]
        /\ \A e \in queue : \E i \in DOMAIN order : order[i] = e
    BY DEF Sorted, Bijection, Injection, Surjection, IsInjective
  <1>3. order \in Seq(queue) /\ Len(order) = Cardinality(queue)
    BY <1>1, <1>2
  <1>4. \A i, j \in DOMAIN order : i < j => Precedes(order[i], order[j])
    BY DEF Sorted
  <1> QED
    BY <1>1, <1>2, <1>3, <1>4

(* Of two entries the one that goes first was popped first.                *)
LEMMA PoppedInOrder ==
    ASSUME TypeOK, IsFiniteSet(queue), NEW order \in Sorted(queue),
           NEW i \in 1 .. Len(order), NEW j \in 1 .. Len(order),
           Precedes(order[i], order[j])
    PROVE  i < j
  <1>1. order[i] \in queue /\ order[j] \in queue /\ i \in Int /\ j \in Int
    BY SortedListing
  <1>2. ~Precedes(order[j], order[i])
    BY <1>1, PrecedesStrict
  <1>3. CASE i = j
    BY <1>2, <1>3
  <1>4. CASE j < i
    BY <1>2, <1>4, SortedListing
  <1> QED
    BY <1>1, <1>3, <1>4

(* An update logs the first n popped entries and requeues the others at    *)
(* weight 0, counted up in the order they were popped in.                  *)
Requeued(order, n, i) == [weight |-> 0, count |-> counter + i - n, msg |-> order[i].msg]

Popped(order, n) ==
    /\ order \in Sorted(queue) /\ n \in 1 .. Len(order)
    /\ \A i \in 1 .. Len(order) : order[i] \in queue
    /\ Len(order) \in Nat
    /\ log' \in Seq(1 .. Len(sent)) /\ Len(log') = Len(log) + n
    /\ \A i \in 1 .. Len(log) : log'[i] = log[i]
    /\ \A i \in Len(log) + 1 .. Len(log) + n : log'[i] = order[i - Len(log)].msg
    /\ queue' = {Requeued(order, n, i) : i \in n + 1 .. Len(order)}
    /\ counter' = counter + Len(order) - n
    /\ left' = Queued'
    /\ UNCHANGED <<sent, nextWeight>>

LEMMA UpdatePops ==
    ASSUME TypeOK, HeapInOrder, Update
    PROVE  \E order, n : Popped(order, n)
  <1>1. PICK order \in Sorted(queue) : \E n \in 1 .. Len(order) :
            /\ log' = log \o [i \in 1 .. n |-> order[i].msg]
            /\ queue' = {[weight |-> 0, count |-> counter + i - n, msg |-> order[i].msg] :
                            i \in n + 1 .. Len(order)}
            /\ counter' = counter + Len(order) - n
            /\ left' = {e.msg : e \in queue'}
            /\ UNCHANGED <<sent, nextWeight>>
    BY DEF Update
  <1>a. PICK n \in 1 .. Len(order) :
            /\ log' = log \o [i \in 1 .. n |-> order[i].msg]
            /\ queue' = {[weight |-> 0, count |-> counter + i - n, msg |-> order[i].msg] :
                            i \in n + 1 .. Len(order)}
            /\ counter' = counter + Len(order) - n
            /\ left' = {e.msg : e \in queue'}
            /\ UNCHANGED <<sent, nextWeight>>
    BY <1>1
  <1>2. Len(order) \in Nat /\ \A i \in 1 .. Len(order) : order[i] \in queue
    BY SortedListing DEF HeapInOrder
  <1>3. n \in Nat /\ n <= Len(order)
    BY <1>2
  <1> DEFINE S == 1 .. Len(sent)
             t == [i \in 1 .. n |-> order[i].msg]
  <1>4. \A i \in 1 .. n : order[i].msg \in S
    BY <1>2, <1>3, EntryType
  <1>5. log \in Seq(S)
    BY DEF TypeOK
  <1>6. t \in Seq(S) /\ Len(t) = n /\ \A i \in 1 .. n : t[i] = order[i].msg
    <2> HIDE DEF S
    <2> QED
      BY <1>3, <1>4
  <1>7. log' = log \o t
    BY <1>a
  <1> HIDE DEF S, t
  <1>8. /\ log' \in Seq(S) /\ Len(log') = Len(log) + n
        /\ \A i \in 1 .. Len(log) + n :
              log'[i] = IF i <= Len(log) THEN log[i] ELSE t[i - Len(log)]
    BY <1>5, <1>6, <1>7, ConcatProperties
  <1>9. Len(log) \in Nat
    BY <1>5
  <1>10. /\ \A i \in 1 .. Len(log) : log'[i] = log[i]
         /\ \A i \in Len(log) + 1 .. Len(log) + n : log'[i] = order[i - Len(log)].msg
    BY <1>3, <1>6, <1>8, <1>9
  <1>11. queue' = {Requeued(order, n, i) : i \in n + 1 .. Len(order)}
    BY <1>a DEF Requeued
  <1>12. left' = Queued'
    BY <1>1 DEF Queued
  <1> QED
    BY <1>a, <1>2, <1>8, <1>10, <1>11, <1>12 DEF Popped, S

(* Distinct positions of the listing hold distinct messages.               *)
LEMMA PoppedDistinct ==
    ASSUME HeapInOrder, NEW order \in Sorted(queue),
           NEW i \in 1 .. Len(order), NEW j \in 1 .. Len(order), i # j
    PROVE  order[i].msg # order[j].msg
  <1>1. order[i] \in queue /\ order[j] \in queue /\ order[i] # order[j]
    BY SortedListing DEF HeapInOrder
  <1> QED
    BY <1>1 DEF HeapInOrder

(* The listing respects the order of sending, priority by priority.        *)
LEMMA PoppedFifo ==
    ASSUME TypeOK, HeapInOrder, NEW order \in Sorted(queue),
           NEW i \in 1 .. Len(order), NEW j \in 1 .. Len(order), i < j,
           sent[order[i].msg] = sent[order[j].msg]
    PROVE  order[i].msg < order[j].msg
  <1>1. order[i] \in queue /\ order[j] \in queue /\ i \in Int /\ j \in Int
    BY SortedListing DEF HeapInOrder
  <1>2. order[i].msg \in Nat /\ order[j].msg \in Nat
    BY <1>1, EntryType
  <1>3. order[i].msg # order[j].msg
    BY <1>1, PoppedDistinct
  <1>4. ~(order[j].msg < order[i].msg)
    <2> SUFFICES ASSUME order[j].msg < order[i].msg PROVE FALSE
      OBVIOUS
    <2>1. Precedes(order[j], order[i])
      BY <1>1 DEF HeapInOrder
    <2>2. j < i
      BY <2>1, PoppedInOrder DEF HeapInOrder
    <2> QED
      BY <1>1, <2>2
  <1> QED
    BY <1>2, <1>3, <1>4

(* The messages that wait after an update are those of the rest of the     *)
(* listing.                                                                *)
LEMMA Requeue ==
    ASSUME NEW order, NEW n, Popped(order, n)
    PROVE  /\ \A i \in n + 1 .. Len(order) :
                 /\ Requeued(order, n, i).weight = 0
                 /\ Requeued(order, n, i).count = counter + i - n
                 /\ Requeued(order, n, i).msg = order[i].msg
           /\ \A e \in queue' : \E i \in n + 1 .. Len(order) : e = Requeued(order, n, i)
           /\ Queued' = {order[i].msg : i \in n + 1 .. Len(order)}
  <1>1. \A i \in n + 1 .. Len(order) :
            /\ Requeued(order, n, i).weight = 0
            /\ Requeued(order, n, i).count = counter + i - n
            /\ Requeued(order, n, i).msg = order[i].msg
    BY DEF Requeued
  <1>2. queue' = {Requeued(order, n, i) : i \in n + 1 .. Len(order)}
    BY DEF Popped
  <1>3. Queued' = {e.msg : e \in queue'}
    BY DEF Queued
  <1>4. Queued' = {order[i].msg : i \in n + 1 .. Len(order)}
    BY <1>1, <1>2, <1>3
  <1> QED
    BY <1>1, <1>2, <1>4

(***************************************************************************)
(* Sending.                                                                *)

(* The entry a message is queued with.                                     *)
Entry(p) == [weight |-> nextWeight[p], count |-> counter + 1, msg |-> Len(sent) + 1]

Pushed(p) ==
    /\ Len(sent) \in Nat /\ Len(sent) < MaxMessages
    /\ sent' \in Seq(Priorities) /\ Len(sent') = Len(sent) + 1
    /\ \A k \in 1 .. Len(sent) : sent'[k] = sent[k]
    /\ sent'[Len(sent) + 1] = p
    /\ nextWeight' \in [Priorities -> Nat]
    /\ \A q \in Priorities : nextWeight[q] <= nextWeight'[q]
    /\ counter \in Nat /\ counter' = counter + 1
    /\ queue' = queue \cup {Entry(p)}
    /\ Entry(p).weight = nextWeight[p] /\ Entry(p).weight \in Nat
    /\ Entry(p).count = counter + 1 /\ Entry(p).msg = Len(sent) + 1
    /\ Queued' = Queued \cup {Len(sent) + 1}
    /\ left' = left /\ log' = log

LEMMA SendPushes ==
    ASSUME TypeOK, NEW p \in Priorities, Send(p)
    PROVE  Pushed(p)
  <1>1. /\ sent \in Seq(Priorities) /\ nextWeight \in [Priorities -> Nat]
        /\ counter \in Nat /\ Len(sent) \in Nat
    BY DEF TypeOK
  <1>2. /\ sent' \in Seq(Priorities) /\ Len(sent') = Len(sent) + 1
        /\ \A k \in 1 .. Len(sent) : sent'[k] = sent[k]
        /\ sent'[Len(sent) + 1] = p
    BY <1>1 DEF Send
  <1>3. /\ nextWeight' \in [Priorities -> Nat]
        /\ \A q \in Priorities : nextWeight[q] <= nextWeight'[q]
    <2> DEFINE w == WeightStep(p)
    <2>1. w \in Nat /\ nextWeight' = [nextWeight EXCEPT ![p] = @ + w]
      BY WeightsAreNat DEF Send
    <2> HIDE DEF w
    <2> QED
      BY <1>1, <2>1
  <1>4. /\ Entry(p).weight = nextWeight[p] /\ Entry(p).weight \in Nat
        /\ Entry(p).count = counter + 1 /\ Entry(p).msg = Len(sent) + 1
    BY <1>1 DEF Entry
  <1>5. queue' = queue \cup {Entry(p)}
    BY DEF Send, Entry
  <1>6. Queued' = Queued \cup {Len(sent) + 1}
    BY <1>4, <1>5 DEF Queued
  <1> QED
    BY <1>1, <1>2, <1>3, <1>4, <1>5, <1>6 DEF Pushed, Send

LEMMA SendKeepsType ==
    ASSUME TypeOK, NEW p \in Priorities, Pushed(p)
    PROVE  TypeOK'
  <1>1. \A S : S \subseteq 1 .. Len(sent) => S \subseteq 1 .. Len(sent')
    BY DEF Pushed
  <1>2. queue' \subseteq [weight : Nat, count : 1 .. counter', msg : 1 .. Len(sent')]
    <2>1. Entry(p) \in [weight : Nat, count : 1 .. counter', msg : 1 .. Len(sent')]
      BY DEF Pushed, Entry
    <2>2. queue \subseteq [weight : Nat, count : 1 .. counter', msg : 1 .. Len(sent')]
      BY DEF TypeOK, Pushed
    <2> QED
      BY <2>1, <2>2 DEF Pushed
  <1>3. left' \subseteq 1 .. Len(sent')
    BY DEF TypeOK, Pushed
  <1>4. log' \in Seq(1 .. Len(sent'))
    <2>1. log \in Seq(1 .. Len(sent)) /\ 1 .. Len(sent) \subseteq 1 .. Len(sent')
      BY DEF TypeOK, Pushed
    <2>2. log \in Seq(1 .. Len(sent'))
      BY <2>1, SeqMonotonic
    <2> QED
      BY <2>2 DEF Pushed
  <1>5. Len(sent') <= MaxMessages /\ counter' \in Nat
    BY SendQueueAssumption DEF Pushed
  <1> QED
    BY <1>2, <1>3, <1>4, <1>5 DEF TypeOK, Pushed

(* The priority of an earlier message stands.                              *)
LEMMA SentStands ==
    ASSUME TypeOK, NEW p \in Priorities, Pushed(p)
    PROVE  /\ \A e \in queue : sent'[e.msg] = sent[e.msg] /\ e.msg < Len(sent) + 1
           /\ \A i \in DOMAIN log : /\ sent'[log[i]] = sent[log[i]]
                                    /\ log[i] \in Nat /\ log[i] < Len(sent) + 1
  <1>1. \A e \in queue : e.msg \in 1 .. Len(sent)
    BY EntryType
  <1>2. \A i \in DOMAIN log : log[i] \in 1 .. Len(sent)
    BY DEF TypeOK
  <1> QED
    BY <1>1, <1>2 DEF Pushed

LEMMA SendKeepsHeap ==
    ASSUME TypeOK, HeapInOrder, NEW p \in Priorities, Pushed(p)
    PROVE  HeapInOrder'
  <1>1. IsFiniteSet(queue')
    BY FS_AddElement DEF HeapInOrder, Pushed
  <1>2. \A a, b \in queue' : a # b => a.msg # b.msg
    <2>1. \A a \in queue : a.msg # Entry(p).msg
      BY EntryType DEF Pushed
    <2> QED
      BY <2>1 DEF HeapInOrder, Pushed
  <1>3. ASSUME NEW a \in queue', NEW b \in queue', sent'[a.msg] = sent'[b.msg], a.msg < b.msg
        PROVE  Precedes(a, b)
    <2>1. CASE a \in queue /\ b \in queue
      BY <1>3, <2>1, SentStands DEF HeapInOrder
    <2>2. CASE a \in queue /\ b = Entry(p)
      <3>1. sent[a.msg] = p
        BY <1>3, <2>2, SentStands DEF Pushed
      <3>2. a.weight <= nextWeight[p] /\ a.weight \in Nat /\ a.count \in 1 .. counter
        BY <2>2, <3>1, EntryType DEF HeapInOrder
      <3>3. b.weight = nextWeight[p] /\ b.count = counter + 1 /\ nextWeight[p] \in Nat
        BY <2>2 DEF Pushed
      <3> QED
        BY <3>2, <3>3 DEF Precedes, Pushed
    <2>3. CASE a = Entry(p)
      <3>1. a.msg = Len(sent) + 1 /\ b.msg \in Nat /\ b.msg <= Len(sent) + 1
        BY <2>3, EntryType DEF Pushed
      <3> QED
        BY <1>3, <3>1 DEF Pushed
    <2> QED
      BY <2>1, <2>2, <2>3 DEF Pushed
  <1>4. ASSUME NEW e \in queue' PROVE e.weight <= nextWeight'[sent'[e.msg]]
    <2>1. CASE e \in queue
      <3>1. sent'[e.msg] = sent[e.msg] /\ sent[e.msg] \in Priorities /\ e.weight \in Nat
        BY <2>1, EntryType, SentStands
      <3> DEFINE q == sent[e.msg]
      <3>2. e.weight <= nextWeight[q]
        BY <2>1 DEF HeapInOrder
      <3> HIDE DEF q
      <3>3. nextWeight[q] <= nextWeight'[q] /\ nextWeight[q] \in Nat /\ nextWeight'[q] \in Nat
        BY <3>1 DEF Pushed, TypeOK, q
      <3> QED
        BY <3>1, <3>2, <3>3 DEF q
    <2>2. CASE e = Entry(p)
      BY <2>2 DEF Pushed
    <2> QED
      BY <2>1, <2>2 DEF Pushed
  <1> QED
    BY <1>1, <1>2, <1>3, <1>4 DEF HeapInOrder, Precedes

LEMMA SendKeepsRest ==
    ASSUME IInv, NEW p \in Priorities, Pushed(p)
    PROVE  Partition' /\ LogBeforeQueue' /\ LeftAhead' /\ FifoPerPriority'
  <1> USE DEF IInv
  <1>1. Partition'
    <2>1. \A k \in 1 .. Len(sent') : k \in Queued' \/ \E i \in DOMAIN log' : log'[i] = k
      <3>1. \A k \in 1 .. Len(sent') : k \in 1 .. Len(sent) \/ k = Len(sent) + 1
        BY DEF Pushed
      <3> QED
        BY <3>1 DEF Partition, Pushed
    <2>2. \A i \in DOMAIN log' : log'[i] \notin Queued'
      BY SentStands DEF Partition, Pushed
    <2>3. \A i, j \in DOMAIN log' : i # j => log'[i] # log'[j]
      BY DEF Partition, Pushed
    <2> QED
      BY <2>1, <2>2, <2>3 DEF Partition
  <1>2. LogBeforeQueue'
    <2> SUFFICES ASSUME NEW i \in DOMAIN log, NEW e \in queue', sent'[log[i]] = sent'[e.msg]
                 PROVE  log[i] < e.msg
      BY DEF LogBeforeQueue, Pushed
    <2>1. CASE e \in queue
      BY <2>1, SentStands DEF LogBeforeQueue
    <2>2. CASE e = Entry(p)
      BY <2>2, SentStands DEF Pushed
    <2> QED
      BY <2>1, <2>2 DEF Pushed
  <1>3. LeftAhead'
    <2>1. left' \subseteq Queued'
      BY DEF LeftAhead, Pushed
    <2>2. Entry(p).msg \notin left'
      <3>1. left \subseteq 1 .. Len(sent)
        BY DEF TypeOK
      <3> QED
        BY <3>1 DEF Pushed
    <2>3. \A a \in queue' : a.msg \in left' => a.weight = 0
      BY <2>2 DEF LeftAhead, Pushed
    <2>4. ASSUME NEW a \in queue', NEW b \in queue', a.msg \in left', b.msg \notin left'
          PROVE  Precedes(a, b)
      <3>1. a \in queue /\ a.weight = 0 /\ a.count \in 1 .. counter
        BY <2>2, <2>3, <2>4, EntryType DEF Pushed
      <3>2. CASE b \in queue
        BY <2>4, <3>1, <3>2 DEF LeftAhead, Pushed
      <3>3. CASE b = Entry(p)
        <4>1. b.weight \in Nat /\ b.count = counter + 1 /\ counter \in Nat
          BY <3>3 DEF Pushed
        <4> QED
          BY <3>1, <4>1 DEF Precedes
      <3> QED
        BY <3>2, <3>3 DEF Pushed
    <2> QED
      BY <2>1, <2>3, <2>4 DEF LeftAhead, Precedes
  <1>4. FifoPerPriority'
    BY SentStands DEF FifoPerPriority, Pushed
  <1> QED
    BY <1>1, <1>2, <1>3, <1>4

(***************************************************************************)
(* Updating.                                                               *)

(* A position of the new log is an old one or that of a popped entry.      *)
LEMMA LogParts ==
    ASSUME TypeOK, NEW order, NEW n, Popped(order, n), NEW i \in DOMAIN log'
    PROVE  \/ i \in DOMAIN log /\ i <= Len(log) /\ log'[i] = log[i]
           \/ /\ i > Len(log) /\ i - Len(log) \in 1 .. n
              /\ log'[i] = order[i - Len(log)].msg
  <1>1. /\ Len(log) \in Nat /\ DOMAIN log = 1 .. Len(log)
        /\ n \in Nat /\ DOMAIN log' = 1 .. Len(log) + n /\ i \in Int
    BY DEF TypeOK, Popped
  <1>2. CASE i \in 1 .. Len(log)
    BY <1>1, <1>2 DEF Popped
  <1>3. CASE i \in Len(log) + 1 .. Len(log) + n
    <2>1. log'[i] = order[i - Len(log)].msg
      BY <1>3 DEF Popped
    <2>2. i > Len(log) /\ i - Len(log) \in 1 .. n
      BY <1>1, <1>3
    <2> QED
      BY <2>1, <2>2
  <1> QED
    BY <1>1, <1>2, <1>3

LEMMA UpdateKeepsType ==
    ASSUME TypeOK, HeapInOrder, NEW order, NEW n, Popped(order, n)
    PROVE  TypeOK'
  <1>1. n \in 1 .. Len(order) /\ Len(order) \in Nat /\ counter \in Nat
    BY DEF Popped, TypeOK
  <1>2. counter' \in Nat
    BY <1>1 DEF Popped
  <1>3. queue' \subseteq [weight : Nat, count : 1 .. counter', msg : 1 .. Len(sent')]
    <2> SUFFICES ASSUME NEW i \in n + 1 .. Len(order)
                 PROVE  Requeued(order, n, i)
                            \in [weight : Nat, count : 1 .. counter', msg : 1 .. Len(sent')]
      BY DEF Popped
    <2>1. order[i].msg \in 1 .. Len(sent)
      <3>1. order[i] \in queue
        BY <1>1 DEF Popped
      <3> QED
        BY <3>1, EntryType
    <2>2. counter + i - n \in 1 .. counter'
      BY <1>1 DEF Popped
    <2>3. sent' = sent
      BY DEF Popped
    <2> QED
      BY <2>1, <2>2, <2>3 DEF Requeued
  <1>4. left' \subseteq 1 .. Len(sent')
    <2>1. \A e \in queue' : e.msg \in 1 .. Len(sent')
      BY <1>3
    <2> QED
      BY <2>1 DEF Popped, Queued
  <1> QED
    BY <1>2, <1>3, <1>4 DEF TypeOK, Popped

LEMMA UpdateKeepsHeap ==
    ASSUME TypeOK, HeapInOrder, NEW order, NEW n, Popped(order, n)
    PROVE  HeapInOrder'
  <1>1. n \in 1 .. Len(order) /\ Len(order) \in Nat /\ counter \in Nat /\ order \in Sorted(queue)
    BY DEF Popped, TypeOK
  <1>2. IsFiniteSet(queue')
    <2> DEFINE I == n + 1 .. Len(order)
               f == [i \in I |-> Requeued(order, n, i)]
    <2>1. IsFiniteSet(I)
      BY <1>1, FS_Interval
    <2>2. queue' = {Requeued(order, n, i) : i \in I}
      BY DEF Popped
    <2> HIDE DEF I
    <2>3. f \in Surjection(I, queue')
      BY <2>2 DEF Surjection
    <2> QED
      BY <2>1, <2>3, FS_Surjection
  <1>3. ASSUME NEW a \in queue', NEW b \in queue'
        PROVE  /\ a # b => a.msg # b.msg
               /\ sent'[a.msg] = sent'[b.msg] /\ a.msg < b.msg => Precedes(a, b)
    <2>1. PICK i \in n + 1 .. Len(order) : a = Requeued(order, n, i)
      BY Requeue
    <2>2. PICK j \in n + 1 .. Len(order) : b = Requeued(order, n, j)
      BY Requeue
    <2>3. /\ a.weight = 0 /\ a.count = counter + i - n /\ a.msg = order[i].msg
          /\ b.weight = 0 /\ b.count = counter + j - n /\ b.msg = order[j].msg
      BY <2>1, <2>2, Requeue
    <2>4. i \in 1 .. Len(order) /\ j \in 1 .. Len(order) /\ i \in Int /\ j \in Int /\ n \in Int
      BY <1>1
    <2>5. a # b => a.msg # b.msg
      BY <1>1, <2>1, <2>2, <2>3, <2>4, PoppedDistinct
    <2>6. ASSUME sent'[a.msg] = sent'[b.msg], a.msg < b.msg PROVE Precedes(a, b)
      <3>1. a.msg \in Nat /\ b.msg \in Nat
        BY <1>1, <2>3, <2>4, EntryType DEF Popped
      <3>2. ~(j < i)
        <4> SUFFICES ASSUME j < i PROVE FALSE
          OBVIOUS
        <4>1. sent[order[j].msg] = sent[order[i].msg]
          BY <2>3, <2>6 DEF Popped
        <4>2. b.msg < a.msg
          BY <1>1, <2>3, <2>4, <4>1, PoppedFifo
        <4> QED
          BY <2>6, <3>1, <4>2
      <3>3. i # j
        BY <2>3, <2>6, <3>1
      <3> QED
        BY <1>1, <2>3, <2>4, <3>2, <3>3 DEF Precedes
    <2> QED
      BY <2>5, <2>6
  <1>4. ASSUME NEW e \in queue' PROVE e.weight <= nextWeight'[sent'[e.msg]]
    <2>1. PICK i \in n + 1 .. Len(order) : e = Requeued(order, n, i)
      BY Requeue
    <2>2. e.weight = 0 /\ e.msg = order[i].msg
      BY <2>1, Requeue
    <2>3. sent[e.msg] \in Priorities
      BY <1>1, <2>2, EntryType DEF Popped
    <2>4. nextWeight[sent[e.msg]] \in Nat
      BY <2>3 DEF TypeOK
    <2>5. nextWeight' = nextWeight /\ sent' = sent
      BY DEF Popped
    <2> QED
      BY <2>2, <2>4, <2>5
  <1> QED
    BY <1>2, <1>3, <1>4 DEF HeapInOrder, Precedes

LEMMA UpdateKeepsPartition ==
    ASSUME IInv, NEW order, NEW n, Popped(order, n)
    PROVE  Partition'
  <1> USE DEF IInv
  <1>1. /\ n \in 1 .. Len(order) /\ Len(order) \in Nat /\ order \in Sorted(queue)
        /\ Len(log) \in Nat /\ DOMAIN log = 1 .. Len(log) /\ n \in Nat
        /\ DOMAIN log' = 1 .. Len(log) + n
    BY DEF Popped, TypeOK
  <1>2. Queued' = {order[i].msg : i \in n + 1 .. Len(order)}
    BY Requeue
  <1>3. ASSUME NEW k \in 1 .. Len(sent')
        PROVE  k \in Queued' \/ \E i \in DOMAIN log' : log'[i] = k
    <2>1. k \in 1 .. Len(sent)
      BY DEF Popped
    <2>2. CASE k \in Queued
      <3>1. PICK e \in queue : e.msg = k
        BY <2>2 DEF Queued
      <3>2. PICK i \in 1 .. Len(order) : order[i] = e
        BY <1>1, SortedListing DEF HeapInOrder
      <3>3. CASE i \in n + 1 .. Len(order)
        BY <1>2, <3>1, <3>2, <3>3
      <3>4. CASE i \in 1 .. n
        <4>1. Len(log) + i \in DOMAIN log' /\ Len(log) + i \in Len(log) + 1 .. Len(log) + n
          BY <1>1, <3>4
        <4>2. (Len(log) + i) - Len(log) = i
          BY <1>1, <3>4
        <4>3. log'[Len(log) + i] = order[i].msg
          BY <4>1, <4>2 DEF Popped
        <4> QED
          BY <3>1, <3>2, <4>1, <4>3
      <3> QED
        BY <1>1, <3>3, <3>4
    <2>3. CASE \E i \in DOMAIN log : log[i] = k
      BY <1>1, <2>3 DEF Popped
    <2> QED
      BY <2>1, <2>2, <2>3 DEF Partition
  <1>4. \A j \in 1 .. Len(order) : order[j].msg \in Queued
    BY DEF Popped, Queued
  <1>5. ASSUME NEW i \in DOMAIN log' PROVE log'[i] \notin Queued'
    <2> SUFFICES ASSUME NEW j \in n + 1 .. Len(order), log'[i] = order[j].msg
                 PROVE  FALSE
      BY <1>2
    <2>1. j \in 1 .. Len(order) /\ j \in Int
      BY <1>1
    <2>2. CASE i \in DOMAIN log /\ log'[i] = log[i]
      BY <1>4, <2>1, <2>2 DEF Partition
    <2>3. CASE i - Len(log) \in 1 .. n /\ log'[i] = order[i - Len(log)].msg
      <3>1. i - Len(log) \in 1 .. Len(order) /\ i - Len(log) # j
        BY <1>1, <2>1, <2>3
      <3> QED
        BY <1>1, <2>1, <2>3, <3>1, PoppedDistinct
    <2> QED
      BY <2>2, <2>3, LogParts
  <1>6. ASSUME NEW i \in DOMAIN log', NEW j \in DOMAIN log', i # j
        PROVE  log'[i] # log'[j]
    <2> DEFINE Old(h) == h \in DOMAIN log /\ log'[h] = log[h]
               New(h) == h - Len(log) \in 1 .. n /\ log'[h] = order[h - Len(log)].msg
    <2>1. (Old(i) \/ New(i)) /\ (Old(j) \/ New(j))
      BY LogParts
    <2>2. CASE Old(i) /\ Old(j)
      BY <1>6, <2>2 DEF Partition
    <2>3. CASE Old(i) /\ New(j)
      <3>1. log'[j] \in Queued
        BY <1>1, <1>4, <2>3
      <3> QED
        BY <2>3, <3>1 DEF Partition
    <2>4. CASE New(i) /\ Old(j)
      <3>1. log'[i] \in Queued
        BY <1>1, <1>4, <2>4
      <3> QED
        BY <2>4, <3>1 DEF Partition
    <2>5. CASE New(i) /\ New(j)
      <3>1. /\ i - Len(log) \in 1 .. Len(order) /\ j - Len(log) \in 1 .. Len(order)
            /\ i - Len(log) # j - Len(log)
        BY <1>1, <1>6, <2>5
      <3> QED
        BY <1>1, <2>5, <3>1, PoppedDistinct
    <2> QED
      BY <2>1, <2>2, <2>3, <2>4, <2>5
  <1> QED
    BY <1>3, <1>5, <1>6 DEF Partition

LEMMA UpdateKeepsOrder ==
    ASSUME IInv, NEW order, NEW n, Popped(order, n)
    PROVE  LogBeforeQueue' /\ FifoPerPriority'
  <1> USE DEF IInv
  <1>1. /\ n \in 1 .. Len(order) /\ Len(order) \in Nat /\ order \in Sorted(queue)
        /\ Len(log) \in Nat /\ DOMAIN log = 1 .. Len(log) /\ n \in Nat
        /\ DOMAIN log' = 1 .. Len(log) + n /\ sent' = sent
    BY DEF Popped, TypeOK
  <1>2. \A h \in 1 .. Len(order) : order[h] \in queue
    BY DEF Popped
  <1>3. LogBeforeQueue'
    <2> SUFFICES ASSUME NEW i \in DOMAIN log', NEW e \in queue', sent[log'[i]] = sent[e.msg]
                 PROVE  log'[i] < e.msg
      BY <1>1 DEF LogBeforeQueue
    <2>1. PICK j \in n + 1 .. Len(order) : e.msg = order[j].msg
      <3>1. PICK j \in n + 1 .. Len(order) : e = Requeued(order, n, j)
        BY Requeue
      <3> QED
        BY <3>1, Requeue
    <2>2. j \in 1 .. Len(order) /\ j \in Int
      BY <1>1
    <2>3. CASE i \in DOMAIN log /\ log'[i] = log[i]
      BY <1>2, <2>1, <2>2, <2>3 DEF LogBeforeQueue
    <2>4. CASE i - Len(log) \in 1 .. n /\ log'[i] = order[i - Len(log)].msg
      <3>1. i - Len(log) \in 1 .. Len(order) /\ i - Len(log) < j
        BY <1>1, <2>2, <2>4
      <3> QED
        BY <1>1, <2>1, <2>2, <2>4, <3>1, PoppedFifo
    <2> QED
      BY <2>3, <2>4, LogParts
  <1>4. FifoPerPriority'
    <2> SUFFICES ASSUME NEW i \in DOMAIN log', NEW j \in DOMAIN log',
                        i < j, sent[log'[i]] = sent[log'[j]]
                 PROVE  log'[i] < log'[j]
      BY <1>1 DEF FifoPerPriority
    <2> DEFINE Old(h) == h \in DOMAIN log /\ h <= Len(log) /\ log'[h] = log[h]
               New(h) == /\ h > Len(log) /\ h - Len(log) \in 1 .. n
                         /\ log'[h] = order[h - Len(log)].msg
    <2>1. (Old(i) \/ New(i)) /\ (Old(j) \/ New(j))
      BY LogParts
    <2>2. CASE Old(i) /\ Old(j)
      BY <2>2 DEF FifoPerPriority
    <2>3. CASE Old(i) /\ New(j)
      <3>1. order[j - Len(log)] \in queue
        BY <1>1, <1>2, <2>3
      <3> QED
        BY <2>3, <3>1 DEF LogBeforeQueue
    <2>4. CASE New(i) /\ Old(j)
      BY <1>1, <2>4
    <2>5. CASE New(i) /\ New(j)
      <3>1. /\ i - Len(log) \in 1 .. Len(order) /\ j - Len(log) \in 1 .. Len(order)
            /\ i - Len(log) < j - Len(log)
        BY <1>1, <2>5
      <3> QED
        BY <1>1, <2>5, <3>1, PoppedFifo
    <2> QED
      BY <2>1, <2>2, <2>3, <2>4, <2>5
  <1> QED
    BY <1>3, <1>4

LEMMA UpdateKeepsLeft ==
    ASSUME TypeOK, HeapInOrder, NEW order, NEW n, Popped(order, n)
    PROVE  LeftAhead'
  <1>1. left' = Queued'
    BY DEF Popped
  <1>2. \A e \in queue' : e.weight = 0 /\ e.msg \in Queued'
    BY Requeue DEF Queued
  <1> QED
    BY <1>1, <1>2 DEF LeftAhead

(***************************************************************************)
(* The theorems.                                                           *)

LEMMA InvInit == Init => IInv
  <1> SUFFICES ASSUME Init PROVE IInv
    OBVIOUS
  <1>1. TypeOK
    BY WeightsAreNat, SendQueueAssumption DEF Init, TypeOK
  <1>2. HeapInOrder /\ LeftAhead
    BY FS_EmptySet DEF Init, HeapInOrder, LeftAhead
  <1>3. Partition /\ LogBeforeQueue /\ FifoPerPriority
    BY DEF Init, Partition, LogBeforeQueue, FifoPerPriority
  <1> QED
    BY <1>1, <1>2, <1>3 DEF IInv

LEMMA InvNext == IInv /\ [Next]_vars => IInv'
  <1> SUFFICES ASSUME IInv, [Next]_vars PROVE IInv'
    OBVIOUS
  <1>1. CASE Update
    <2>1. PICK order, n : Popped(order, n)
      BY <1>1, UpdatePops DEF IInv
    <2>2. TypeOK' /\ HeapInOrder' /\ LeftAhead'
      BY <2>1, UpdateKeepsType, UpdateKeepsHeap, UpdateKeepsLeft DEF IInv
    <2> QED
      BY <2>1, <2>2, UpdateKeepsPartition, UpdateKeepsOrder DEF IInv
  <1>2. CASE \E p \in Priorities : Send(p)
    <2>1. PICK p \in Priorities : Pushed(p)
      BY <1>2, SendPushes DEF IInv
    <2>2. TypeOK' /\ HeapInOrder'
      BY <2>1, SendKeepsType, SendKeepsHeap DEF IInv
    <2> QED
      BY <2>1, <2>2, SendKeepsRest DEF IInv
  <1>3. CASE UNCHANGED vars
    BY <1>3 DEF vars, IInv, TypeOK, HeapInOrder, Precedes, Partition, Queued,
                LogBeforeQueue, LeftAhead, FifoPerPriority
  <1> QED
    BY <1>1, <1>2, <1>3 DEF Next

LEMMA InvAlways == Spec => []IInv
  BY InvInit, InvNext, PTL DEF Spec

(* No two entries compare equal, and every counter in the heap was given   *)
(* out: the types, for every number of messages and set of priorities.     *)
THEOREM TypeCorrect == Spec => []TypeOK
  BY InvAlways, PTL DEF IInv

(* Frames of one priority reach the wire in the order ReliabilityLayer.send *)
(* took them, whatever is sent in between and whatever waited.             *)
THEOREM PrioritiesAreFifo == Spec => []FifoPerPriority
  BY InvAlways, PTL DEF IInv

LEMMA CountsFollow == IInv => QueuedOrSentOnce
  <1> SUFFICES ASSUME IInv PROVE QueuedOrSentOnce
    OBVIOUS
  <1>1. ASSUME NEW k \in 1 .. Len(sent)
        PROVE  Cardinality({i \in DOMAIN log : log[i] = k}) = (IF k \in Queued THEN 0 ELSE 1)
    <2> DEFINE S == {i \in DOMAIN log : log[i] = k}
    <2>1. CASE k \in Queued
      <3>1. S = {}
        BY <2>1 DEF IInv, Partition
      <3> QED
        BY <2>1, <3>1, FS_EmptySet
    <2>2. CASE k \notin Queued
      <3>1. PICK i \in DOMAIN log : log[i] = k
        BY <2>2 DEF IInv, Partition
      <3>2. S = {i}
        BY <3>1 DEF IInv, Partition
      <3>3. Cardinality({i}) = 1
        BY FS_Singleton
      <3> QED
        BY <2>2, <3>2, <3>3
    <2> QED
      BY <2>1, <2>2
  <1>2. Cardinality(queue) = Cardinality(Queued)
    <2> DEFINE f == [e \in queue |-> e.msg]
    <2>1. f \in Bijection(queue, Queued)
      <3>1. f \in Surjection(queue, Queued)
        BY DEF Surjection, Queued
      <3>2. f \in Injection(queue, Queued)
        BY <3>1 DEF Injection, IsInjective, Surjection, IInv, HeapInOrder
      <3> QED
        BY <3>1, <3>2 DEF Bijection
    <2>2. ExistsBijection(queue, Queued)
      BY <2>1 DEF ExistsBijection
    <2> QED
      BY <2>2, FS_Bijection DEF IInv, HeapInOrder
  <1> QED
    BY <1>1, <1>2 DEF QueuedOrSentOnce

(* Emptying and refilling the heap in ReliabilityLayer.update neither      *)
(* loses nor repeats a frame.                                              *)
THEOREM NoFrameLostOrRepeated == Spec => []QueuedOrSentOnce
  BY InvAlways, CountsFollow, PTL

(* In one update, what an earlier one left comes before what was sent      *)
(* after that.                                                             *)
LEMMA LeftComeFirst ==
    ASSUME IInv, NEW order, NEW n, Popped(order, n),
           NEW i \in Len(log) + 1 .. Len(log'), log'[i] \notin left,
           NEW m \in left \cap Queued
    PROVE  \E j \in DOMAIN log' : log'[j] = m
  <1>1. /\ n \in 1 .. Len(order) /\ Len(order) \in Nat /\ order \in Sorted(queue)
        /\ n \in Nat /\ Len(log') = Len(log) + n
        /\ \A h \in 1 .. Len(order) : order[h] \in queue
    BY DEF Popped
  <1>0. Len(log) \in Nat
    BY DEF IInv, TypeOK
  <1>a. DOMAIN log' = 1 .. Len(log')
    BY DEF Popped
  <1>2. i - Len(log) \in 1 .. n /\ log'[i] = order[i - Len(log)].msg
    BY <1>0, <1>1 DEF Popped
  <1>3. PICK a \in queue : a.msg = m
    BY DEF Queued
  <1>4. PICK h \in 1 .. Len(order) : order[h] = a
    BY <1>0, <1>1, SortedListing DEF IInv, HeapInOrder
  <1>5. i - Len(log) \in 1 .. Len(order)
    BY <1>0, <1>1, <1>2
  <1>6. Precedes(order[h], order[i - Len(log)])
    BY <1>0, <1>1, <1>2, <1>3, <1>4, <1>5 DEF IInv, LeftAhead
  <1>7. h < i - Len(log)
    BY <1>0, <1>1, <1>5, <1>6, PoppedInOrder DEF IInv, HeapInOrder
  <1> DEFINE j == Len(log) + h
  <1>8. j \in Len(log) + 1 .. Len(log) + n /\ j - Len(log) = h /\ j \in DOMAIN log'
    BY <1>0, <1>1, <1>a, <1>2, <1>7
  <1>9. log'[j] = order[j - Len(log)].msg
    BY <1>8 DEF Popped
  <1> QED
    BY <1>3, <1>4, <1>8, <1>9

(* A frame that _pack_datagrams queues again is passed over once at most,  *)
(* however urgent what is sent after it.                                   *)
THEOREM NoStarvation == Spec => PassedOverOnce
  <1> DEFINE Step == left \cap Queued' # {} =>
                        \A i \in Len(log) + 1 .. Len(log') : log'[i] \in left
  <1>1. ASSUME IInv, [Next]_vars PROVE [Step]_vars
    <2>1. CASE Update
      <3>1. PICK order, n : Popped(order, n)
        BY <1>1, <2>1, UpdatePops DEF IInv
      <3> SUFFICES ASSUME NEW m \in left \cap Queued',
                          NEW i \in Len(log) + 1 .. Len(log'), log'[i] \notin left
                   PROVE  FALSE
        OBVIOUS
      <3>2. m \in left \cap Queued
        BY <1>1 DEF IInv, LeftAhead
      <3>3. \E j \in DOMAIN log' : log'[j] = m
        BY <1>1, <3>1, <3>2, LeftComeFirst
      <3>4. Partition'
        BY <1>1, InvNext DEF IInv
      <3> QED
        BY <3>3, <3>4 DEF Partition
    <2>2. CASE \E p \in Priorities : Send(p)
      <3>1. log' = log /\ Len(log) \in Nat
        BY <1>1, <2>2 DEF Send, IInv, TypeOK
      <3> QED
        BY <3>1
    <2> QED
      BY <1>1, <2>1, <2>2 DEF Next
  <1>2. IInv /\ [Next]_vars => [Step]_vars
    BY <1>1
  <1> QED
    BY InvAlways, <1>2, PTL DEF Spec, PassedOverOnce
=============================================================================
