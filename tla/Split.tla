------------------------------- MODULE Split -------------------------------
(***************************************************************************)
(* Messages larger than a frame: _split_and_queue on the sender and        *)
(* _reassemble_split on the receiver.  Every fragment arrives at most once *)
(* (Transport) and in any order; an arrived fragment has been acknowledged *)
(* and will not come again.                                                *)
(***************************************************************************)
EXTENDS Integers, Sequences, FiniteSetsExt, Functions

CONSTANTS
    MaxSplits,       \* bound: split messages sent
    MaxFragments,    \* bound: fragments of a message
    IdMod,           \* 2^16 split ids
    MaxCount,        \* MAX_SPLIT_PACKET_COUNT
    MaxTrackers,     \* MAX_SPLIT_TRACKERS
    Timeout,         \* the connection's timeout, in clock ticks
    MaxClock         \* bound: clock ticks

ASSUME SplitAssumption ==
    /\ MaxSplits \in Nat /\ MaxFragments \in Nat \ {0, 1}
    /\ IdMod \in Nat \ {0} /\ MaxCount \in Nat /\ MaxTrackers \in Nat \ {0}
    /\ Timeout \in Nat /\ MaxClock \in Nat

VARIABLES
    totals,      \* totals[k]: into how many fragments message k was split
    pending,     \* the fragments <<k, i>> under way or waiting to be resent
    trackers,    \* _split_trackers: id -> total, fragments, last_update_time
    clock,
    out,         \* the reassembled payloads, each as the fragments it joins
    evicted      \* history: the messages of which an eviction took fragments

vars == <<totals, pending, trackers, clock, out, evicted>>

Init ==
    /\ totals = << >> /\ pending = {} /\ trackers = << >>
    /\ clock = 0 /\ out = << >> /\ evicted = {}

\* A fault: the id is not cut to 16 bits.
SplitIdUnwrapped(k) == k - 1

SplitId(k) == (k - 1) % IdMod

Incomplete(k) == \E i \in 0 .. MaxFragments - 1 : <<k, i>> \in pending

\* Assumed, not enforced by the code: an id comes round again only after the
\* message that had it before has completed or its tracker has timed out.
IdIsFree(k) ==
    /\ \A j \in DOMAIN totals : SplitId(j) = SplitId(k) => ~Incomplete(j)
    /\ SplitId(k) \notin DOMAIN trackers

SendSplit ==
    /\ Len(totals) < MaxSplits
    /\ LET k == Len(totals) + 1
       IN  /\ IdIsFree(k)
           /\ \E n \in 2 .. MaxFragments :
                 /\ totals' = Append(totals, n)
                 /\ pending' = pending \cup {<<k, i>> : i \in 0 .. n - 1}
    /\ UNCHANGED <<trackers, clock, out, evicted>>

Live(ts) == {id \in DOMAIN ts : clock - ts[id].time <= Timeout}

\* Room for one more tracker: one with the oldest update makes way.
Room(ts) ==
    IF Cardinality(DOMAIN ts) < MaxTrackers THEN {ts}
    ELSE {Restrict(ts, DOMAIN ts \ {id}) :
             id \in {d \in DOMAIN ts : \A e \in DOMAIN ts : ts[d].time <= ts[e].time}}

\* The messages with fragments in the trackers that are not among ts.
Lost(ts) ==
    UNION {Range(trackers[id].received) : id \in DOMAIN trackers \ DOMAIN ts}

With(ts, id, t) == [d \in DOMAIN ts \cup {id} |-> IF d = id THEN t ELSE ts[d]]

\* A fault: every fragment starts a tracker of its own.
OpenedAfresh(k) ==
    {With(ts, SplitId(k), [total |-> totals[k], received |-> << >>, time |-> clock]) :
        ts \in Room(Restrict(trackers, Live(trackers)))}

\* The trackers among which fragment <<k, i>> is filed.
Opened(k) ==
    IF SplitId(k) \in DOMAIN trackers THEN {trackers}
    ELSE {With(ts, SplitId(k), [total |-> totals[k], received |-> << >>, time |-> clock]) :
             ts \in Room(Restrict(trackers, Live(trackers)))}

\* A fault: a message is put together when one fragment is still missing.
CompleteEarly(t) == Cardinality(DOMAIN t.received) >= t.total - 1

Complete(t) == Cardinality(DOMAIN t.received) = t.total

\* _reassemble_split, once there is a tracker for the fragment.  Its index is
\* below the total, as TypeOK says, so the code's last check never applies.
File(k, i, ts) ==
    LET id == SplitId(k)
        t == [total |-> ts[id].total, received |-> With(ts[id].received, i, k), time |-> clock]
    IN  \/ /\ ~Complete(t)
           /\ trackers' = [ts EXCEPT ![id] = t]
           /\ UNCHANGED out
        \/ /\ Complete(t)
           /\ trackers' = Restrict(ts, DOMAIN ts \ {id})
           /\ out' = Append(out, t.received)

\* _split_and_queue sends messages of any size; the receiver limits it.
Oversized(k) == totals[k] > MaxCount

FragmentArrives(k, i) ==
    /\ <<k, i>> \in pending
    /\ pending' = pending \ {<<k, i>>}
    /\ \/ Oversized(k) /\ UNCHANGED <<trackers, out, evicted>>
       \/ /\ ~Oversized(k)
          /\ \E ts \in Opened(k) : File(k, i, ts) /\ evicted' = evicted \cup Lost(ts)
    /\ UNCHANGED <<totals, clock>>

\* update() drops the trackers that were not touched for too long.
Update ==
    /\ trackers' = Restrict(trackers, Live(trackers))
    /\ evicted' = evicted \cup Lost(trackers')
    /\ UNCHANGED <<totals, pending, clock, out>>

TimePasses ==
    /\ clock < MaxClock
    /\ clock' = clock + 1
    /\ UNCHANGED <<totals, pending, trackers, out, evicted>>

Next ==
    \/ SendSplit
    \/ \E k \in 1 .. MaxSplits, i \in 0 .. MaxFragments - 1 : FragmentArrives(k, i)
    \/ Update
    \/ TimePasses

Spec == Init /\ [][Next]_vars

----------------------------------------------------------------------------
(***************************************************************************)
(* The types of the trackers: ids have 16 bits, fragment indices are below *)
(* the total, and there are never more trackers than MAX_SPLIT_TRACKERS.   *)
(***************************************************************************)
TypeOK ==
    /\ totals \in Seq(2 .. MaxFragments)
    /\ pending \subseteq (DOMAIN totals) \X (0 .. MaxFragments - 1)
    /\ \A id \in DOMAIN trackers :
          /\ id \in 0 .. IdMod - 1
          /\ trackers[id].total \in 2 .. MaxFragments
          /\ DOMAIN trackers[id].received \subseteq 0 .. trackers[id].total - 1
          /\ Range(trackers[id].received) \subseteq DOMAIN totals
          /\ trackers[id].time \in 0 .. clock
    /\ clock \in 0 .. MaxClock
    /\ Cardinality(DOMAIN trackers) <= MaxTrackers
    /\ evicted \subseteq DOMAIN totals

(***************************************************************************)
(* A reassembled payload joins all the fragments of one message and of no  *)
(* other, although ids are reused and trackers come and go, and no message *)
(* is reassembled twice.                                                   *)
(***************************************************************************)
ReassembledIntact ==
    /\ \A j \in DOMAIN out : \E k \in DOMAIN totals :
          out[j] = [i \in 0 .. totals[k] - 1 |-> k]
    /\ \A j, l \in DOMAIN out : j # l => out[j] # out[l]

Reassembled(k) == \E j \in DOMAIN out : k \in Range(out[j])

(***************************************************************************)
(* A message whose fragments have all arrived, and so have been            *)
(* acknowledged, has been reassembled, unless a tracker that held some of  *)
(* them was evicted or it has more fragments than the receiver takes:      *)
(* nothing else throws a fragment away.                                    *)
(***************************************************************************)
LossOnlyByEviction ==
    \A k \in DOMAIN totals :
        Incomplete(k) \/ Reassembled(k) \/ k \in evicted \/ Oversized(k)
=============================================================================
