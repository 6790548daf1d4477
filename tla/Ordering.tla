------------------------------ MODULE Ordering ------------------------------
(***************************************************************************)
(* One ordering channel: the counters the sender stamps on ordered and     *)
(* sequenced frames, and the routing of frames by _handle_frame through    *)
(* the channel's heap.  Frames arrive here at most once each (Transport)   *)
(* and in any order; ordered ones do arrive.                               *)
(*                                                                         *)
(* The k-th message sent is msgs[k]; its whole ordering index is kept next *)
(* to the wrapped one only to bound how far frames overtake each other.    *)
(***************************************************************************)
EXTENDS SeqSpace, Sequences, FiniteSets, Functions

CONSTANTS
    FirstIndex,       \* the index both ends have reached; 0 on a new connection
    MaxMessages,      \* bound: messages sent on the channel
    MaxAhead,         \* bound: slots by which a frame is ahead of the awaited one
    HeapCap,          \* MAX_ORDERING_HEAP_SIZE
    OrderedSubKey     \* _ORDERED_SUBKEY

ASSUME OrderingAssumption ==
    /\ FirstIndex \in SeqNum /\ MaxMessages \in Nat
    /\ MaxAhead \in Nat /\ MaxAhead < HalfSeq
    /\ HeapCap \in Nat /\ HeapCap < HalfSeq
    /\ OrderedSubKey \in Nat /\ OrderedSubKey < HalfSeq

VARIABLES
    msgs,         \* the frames sent, in the order of the send() calls
    nextOrd,      \* _next_ordering_index
    nextSub,      \* _next_sequencing_index
    arrived,      \* the messages that reached _handle_frame
    expected,     \* _expected_ordering_index
    highest,      \* _highest_sequenced
    heap,         \* _ordering_heaps, as the set of its entries
    count,        \* _heap_counter
    log,          \* messages handed to the application, in order
    overflow      \* messages that found the heap full and were dropped

receiverVars == <<expected, highest, heap, count, log, overflow>>
vars == <<msgs, nextOrd, nextSub, arrived, receiverVars>>

None == -1

Init ==
    /\ msgs = << >> /\ nextOrd = FirstIndex /\ nextSub = 0
    /\ arrived = {} /\ expected = FirstIndex /\ highest = None
    /\ heap = {} /\ count = 0 /\ log = << >> /\ overflow = {}

----------------------------------------------------------------------------
(* The sender: _advance_ordering_counters.                                 *)

OrderedBefore(k) == {j \in 1 .. k - 1 : msgs[j].ordered}

\* The slot of message k, counted from FirstIndex and not cut to 24 bits.
Slot(k) == Cardinality(OrderedBefore(k))

SendOrdered ==
    /\ Len(msgs) < MaxMessages
    /\ msgs' = Append(msgs, [ordered |-> TRUE, ord |-> nextOrd, sub |-> 0])
    /\ nextOrd' = SeqNext(nextOrd)
    /\ nextSub' = 0
    /\ UNCHANGED <<arrived, receiverVars>>

SendSequenced ==
    /\ Len(msgs) < MaxMessages
    /\ msgs' = Append(msgs, [ordered |-> FALSE, ord |-> nextOrd, sub |-> nextSub])
    /\ nextSub' = SeqNext(nextSub)
    /\ UNCHANGED <<nextOrd, arrived, receiverVars>>

----------------------------------------------------------------------------
(* The receiver: _handle_frame and _flush_ordering_heap.                   *)

Drop == UNCHANGED receiverVars

\* The frame has been acknowledged all the same: it will not come again.
DropFull(k) ==
    /\ overflow' = overflow \cup {k}
    /\ UNCHANGED <<expected, highest, heap, count, log>>

\* Heap entries compare as Python tuples do.
Precedes(a, b) ==
    \/ a.ord < b.ord
    \/ a.ord = b.ord /\ a.sub < b.sub
    \/ a.ord = b.ord /\ a.sub = b.sub /\ a.count < b.count

\* A fault: the tie-breaking counter is not saved.
BufferStaleCounter(k) ==
    IF Cardinality(heap) < HeapCap
    THEN /\ heap' = heap \cup {[ord |-> msgs[k].ord,
                                sub |-> IF msgs[k].ordered THEN OrderedSubKey
                                        ELSE msgs[k].sub,
                                count |-> count + 1,
                                ordered |-> msgs[k].ordered,
                                msg |-> k]}
         /\ UNCHANGED <<expected, highest, count, log, overflow>>
    ELSE DropFull(k)

Buffer(k) ==
    IF Cardinality(heap) < HeapCap
    THEN /\ count' = count + 1
         /\ heap' = heap \cup {[ord |-> msgs[k].ord,
                                sub |-> IF msgs[k].ordered THEN OrderedSubKey
                                        ELSE msgs[k].sub,
                                count |-> count + 1,
                                ordered |-> msgs[k].ordered,
                                msg |-> k]}
         /\ UNCHANGED <<expected, highest, log, overflow>>
    ELSE DropFull(k)

\* A fault: the heap is emptied over its gaps.
FlushesAll(entries, e, n) == n = Len(entries)

\* A fault: the heap is looked at once, not until it has a gap.
FlushesOnce(entries, e, n) ==
    n = IF entries # << >> /\ entries[1].ord = Wire(e) THEN 1 ELSE 0

\* The n smallest entries of the heap go out after slot e - 1 is delivered.
Flushes(entries, e, n) ==
    LET awaited(i) == Wire(e + Cardinality({j \in 1 .. i - 1 : entries[j].ordered}))
    IN  /\ \A i \in 1 .. n : entries[i].ord = awaited(i)
        /\ n < Len(entries) => entries[n + 1].ord # awaited(n + 1)

\* The heap in ascending order.
Sorted(entries) ==
    {f \in Bijection(1 .. Cardinality(entries), entries) :
        \A i, j \in DOMAIN f : i < j => Precedes(f[i], f[j])}

DeliverAndFlush(k) ==
    \E entries \in Sorted(heap) : \E n \in 0 .. Len(entries) :
        /\ Flushes(entries, expected + 1, n)
        /\ heap' = {entries[i] : i \in n + 1 .. Len(entries)}
        /\ log' = Append(log, k) \o [i \in 1 .. n |-> entries[i].msg]
        /\ expected' = Wire(expected + 1 + Cardinality({i \in 1 .. n : entries[i].ordered}))
        /\ highest' = IF n = 0 \/ entries[n].ordered THEN None ELSE entries[n].sub
        /\ UNCHANGED <<count, overflow>>

\* A fault: the channel takes what is newer as it would the awaited frame.
CurrentOrNewer(k) == ~SeqGreaterThan(expected, msgs[k].ord)

Current(k) == msgs[k].ord = expected

\* A fault: indices are compared as plain integers.
FutureRaw(k) == msgs[k].ord > expected

Future(k) == SeqGreaterThan(msgs[k].ord, expected)

\* A fault: an older sequenced frame is not told from a newer one.
SequencedFrameAny(k) ==
    /\ ~msgs[k].ordered
    /\ \/ /\ Current(k)
          /\ highest' = msgs[k].sub
          /\ log' = Append(log, k)
          /\ UNCHANGED <<expected, heap, count, overflow>>
       \/ Future(k) /\ Buffer(k)
       \/ ~Current(k) /\ ~Future(k) /\ Drop

SequencedFrame(k) ==
    /\ ~msgs[k].ordered
    /\ \/ /\ Current(k)
          /\ highest = None \/ SeqGreaterThan(msgs[k].sub, highest)
          /\ highest' = msgs[k].sub
          /\ log' = Append(log, k)
          /\ UNCHANGED <<expected, heap, count, overflow>>
       \/ /\ Current(k)
          /\ highest # None /\ ~SeqGreaterThan(msgs[k].sub, highest)
          /\ Drop
       \/ Future(k) /\ Buffer(k)
       \/ ~Current(k) /\ ~Future(k) /\ Drop

OrderedFrame(k) ==
    /\ msgs[k].ordered
    /\ \/ Current(k) /\ DeliverAndFlush(k)
       \/ Future(k) /\ Buffer(k)
       \/ ~Current(k) /\ ~Future(k) /\ Drop

OrderedDelivered == {i \in DOMAIN log : msgs[log[i]].ordered}

\* Frames are taken that are in reach of the awaited slot; one that is half
\* the index space late would be taken for a future one.
InReach(k) ==
    LET slot == Slot(k)
        awaited == Cardinality(OrderedDelivered)
    IN  slot - awaited <= MaxAhead /\ awaited - slot < HalfSeq

Arrive(k) ==
    /\ k \in DOMAIN msgs \ arrived
    /\ InReach(k)
    /\ arrived' = arrived \cup {k}
    /\ SequencedFrame(k) \/ OrderedFrame(k)
    /\ UNCHANGED <<msgs, nextOrd, nextSub>>

Next == SendOrdered \/ SendSequenced \/ \E k \in 1 .. MaxMessages : Arrive(k)

Spec == Init /\ [][Next]_vars

\* Retransmission makes every ordered frame arrive; sequenced ones may not.
Fairness ==
    \A k \in 1 .. MaxMessages :
        WF_vars(k \in DOMAIN msgs /\ msgs[k].ordered /\ Arrive(k))

FairSpec == Spec /\ Fairness

----------------------------------------------------------------------------
(***************************************************************************)
(* The types of a channel: indices have 24 bits, and the heap holds        *)
(* messages that arrived, each with a counter no later entry will get.     *)
(***************************************************************************)
TypeOK ==
    /\ msgs \in Seq([ordered : BOOLEAN, ord : SeqNum, sub : SeqNum])
    /\ Len(msgs) <= MaxMessages
    /\ nextOrd \in SeqNum /\ nextSub \in SeqNum /\ expected \in SeqNum
    /\ arrived \subseteq DOMAIN msgs
    /\ highest \in SeqNum \cup {None}
    /\ heap \subseteq [ord : SeqNum, sub : SeqNum \cup {OrderedSubKey},
                       count : 1 .. count, ordered : BOOLEAN, msg : arrived]
    /\ count \in Nat
    /\ log \in Seq(arrived) /\ overflow \subseteq arrived

(***************************************************************************)
(* The application sees messages in the order they were sent: ordered and  *)
(* sequenced ones of a channel interleave as the sender interleaved them,  *)
(* and no message is seen twice, whichever way each one got out, directly  *)
(* or through the heap.                                                    *)
(***************************************************************************)
DeliveredInSendOrder ==
    \A i, j \in DOMAIN log : i < j => log[i] < log[j]

(***************************************************************************)
(* No ordered message is passed over: whatever was delivered, ordered or   *)
(* sequenced, every ordered message sent before it was delivered before.   *)
(***************************************************************************)
NoOrderedMessageSkipped ==
    \A i \in DOMAIN log : \A k \in OrderedBefore(log[i]) :
        \E j \in 1 .. i - 1 : log[j] = k

(***************************************************************************)
(* What the heap holds back waits for something: an ordered message sent   *)
(* earlier has not arrived yet, or found the heap full.  Otherwise the     *)
(* entry would stay for ever, for no later frame would flush it.           *)
(***************************************************************************)
NothingStranded ==
    \A e \in heap : \E k \in OrderedBefore(e.msg) : k \notin arrived \ overflow

(***************************************************************************)
(* Only a full heap loses an ordered message that arrived, and nothing     *)
(* sent after it on the channel is delivered any more: the channel stops   *)
(* there, it neither skips the message nor takes it later.                 *)
(***************************************************************************)
LostOnlyToFullHeap ==
    /\ \A k \in arrived : msgs[k].ordered =>
          \/ \E i \in DOMAIN log : log[i] = k
          \/ \E e \in heap : e.msg = k
          \/ k \in overflow
    /\ \A k \in overflow : \A i \in DOMAIN log :
          msgs[k].ordered => log[i] < k

(***************************************************************************)
(* RELIABLE_ORDERED is delivered in order per channel (_types.py): every   *)
(* ordered message that was sent is delivered.                             *)
(***************************************************************************)
OrderedDelivery ==
    \A k \in 1 .. MaxMessages :
        (k \in DOMAIN msgs /\ msgs[k].ordered) ~> (\E i \in DOMAIN log : log[i] = k)
=============================================================================
