----------------------------- MODULE SendQueue -----------------------------
(***************************************************************************)
(* The priority queue of frames in front of _pack_datagrams: a heap of     *)
(* (weight, counter, frame) with one running weight per priority.          *)
(***************************************************************************)
EXTENDS Integers, Sequences, FiniteSets, Functions

CONSTANTS
    Priorities,           \* 0 = IMMEDIATE .. 3 = LOW, or some of them
    MaxMessages,          \* bound: messages sent
    FramesPerDatagram     \* how many frames the MTU leaves room for

ASSUME SendQueueAssumption ==
    /\ Priorities \subseteq 0 .. 3
    /\ MaxMessages \in Nat
    /\ FramesPerDatagram \in Nat \ {0}

VARIABLES
    sent,         \* the priorities of the messages sent so far
    queue,        \* _send_queue
    nextWeight,   \* _priority_next_weights
    counter,      \* _send_queue_counter
    left,         \* the messages some earlier update left in the queue
    log           \* the messages in the order they were put in datagrams

vars == <<sent, queue, nextWeight, counter, left, log>>

\* _init_priority_weights and the step of _get_next_weight
InitWeight(p) == 2^p * p + p
WeightStep(p) == 2^p * (p + 1) + p

Init ==
    /\ sent = << >> /\ queue = {} /\ counter = 0 /\ left = {} /\ log = << >>
    /\ nextWeight = [p \in Priorities |-> InitWeight(p)]

\* A fault: the tie-breaking counter is not saved.
SendStaleCounter(p) ==
    /\ Len(sent) < MaxMessages
    /\ sent' = Append(sent, p)
    /\ nextWeight' = [nextWeight EXCEPT ![p] = @ + WeightStep(p)]
    /\ queue' = queue \cup {[weight |-> nextWeight[p], count |-> counter + 1,
                             msg |-> Len(sent) + 1]}
    /\ UNCHANGED <<counter, left, log>>

Send(p) ==
    /\ Len(sent) < MaxMessages
    /\ sent' = Append(sent, p)
    /\ nextWeight' = [nextWeight EXCEPT ![p] = @ + WeightStep(p)]
    /\ counter' = counter + 1
    /\ queue' = queue \cup {[weight |-> nextWeight[p], count |-> counter + 1,
                             msg |-> Len(sent) + 1]}
    /\ UNCHANGED <<left, log>>

\* A fault: of equal weights the later one comes first.
PrecedesLatest(a, b) ==
    a.weight < b.weight \/ (a.weight = b.weight /\ a.count > b.count)

Precedes(a, b) ==
    a.weight < b.weight \/ (a.weight = b.weight /\ a.count < b.count)

\* What the heap yields when it is emptied: its entries in ascending order.
Sorted(entries) ==
    {f \in Bijection(1 .. Cardinality(entries), entries) :
        \A i, j \in DOMAIN f : i < j => Precedes(f[i], f[j])}

\* A fault: what does not fit the window is not queued again.
UpdateForgets ==
    \E order \in Sorted(queue) : \E n \in 1 .. Len(order) :
        /\ n % FramesPerDatagram = 0 \/ n = Len(order)
        /\ log' = log \o [i \in 1 .. n |-> order[i].msg]
        /\ queue' = {} /\ left' = {}
        /\ UNCHANGED <<sent, nextWeight, counter>>

\* A fault: what does not fit the window is queued again with its old weight.
UpdateOldWeights ==
    \E order \in Sorted(queue) : \E n \in 1 .. Len(order) :
        /\ n % FramesPerDatagram = 0 \/ n = Len(order)
        /\ log' = log \o [i \in 1 .. n |-> order[i].msg]
        /\ queue' = {[weight |-> order[i].weight, count |-> counter + i - n,
                      msg |-> order[i].msg] : i \in n + 1 .. Len(order)}
        /\ counter' = counter + Len(order) - n
        /\ left' = {e.msg : e \in queue'}
        /\ UNCHANGED <<sent, nextWeight>>

\* The whole heap is emptied; when the congestion window closes after n
\* frames, full datagrams all, the others go back with weight 0.
Update ==
    \E order \in Sorted(queue) : \E n \in 1 .. Len(order) :
        /\ n % FramesPerDatagram = 0 \/ n = Len(order)
        /\ log' = log \o [i \in 1 .. n |-> order[i].msg]
        /\ queue' = {[weight |-> 0, count |-> counter + i - n, msg |-> order[i].msg] :
                        i \in n + 1 .. Len(order)}
        /\ counter' = counter + Len(order) - n
        /\ left' = {e.msg : e \in queue'}
        /\ UNCHANGED <<sent, nextWeight>>

Next == Update \/ \E p \in Priorities : Send(p)

Spec == Init /\ [][Next]_vars

----------------------------------------------------------------------------
Queued == {e.msg : e \in queue}

(***************************************************************************)
(* The types of the send queue: counters in the heap are ones that were    *)
(* given out, so that no two entries can compare equal.                    *)
(***************************************************************************)
TypeOK ==
    /\ sent \in Seq(Priorities) /\ Len(sent) <= MaxMessages
    /\ queue \subseteq [weight : Nat, count : 1 .. counter, msg : 1 .. Len(sent)]
    /\ nextWeight \in [Priorities -> Nat]
    /\ counter \in Nat
    /\ left \subseteq 1 .. Len(sent)
    /\ log \in Seq(1 .. Len(sent))

(***************************************************************************)
(* Messages of one priority are put on the wire in the order they were     *)
(* sent, also when some of them had to wait for the congestion window and  *)
(* were queued again.  Fragments of a split message rely on it, and so     *)
(* does a handshake message followed by data.                              *)
(***************************************************************************)
FifoPerPriority ==
    \A i, j \in DOMAIN log :
        i < j /\ sent[log[i]] = sent[log[j]] => log[i] < log[j]

(***************************************************************************)
(* A message is in the queue or was put on the wire exactly once: emptying *)
(* and refilling the heap neither loses nor repeats a frame.               *)
(***************************************************************************)
QueuedOrSentOnce ==
    /\ \A k \in 1 .. Len(sent) :
          Cardinality({i \in DOMAIN log : log[i] = k})
              = (IF k \in Queued THEN 0 ELSE 1)
    /\ Cardinality(queue) = Cardinality(Queued)

(***************************************************************************)
(* A message is passed over in at most one update: an update that leaves   *)
(* behind, once more, what an earlier one had left puts nothing on the     *)
(* wire that was sent after that, so a flow of more urgent messages cannot *)
(* starve it.  The order within one update is another matter.              *)
(***************************************************************************)
PassedOverOnce ==
    [][left \cap Queued' # {} =>
          \A i \in Len(log) + 1 .. Len(log') : log'[i] \in left]_vars
=============================================================================
