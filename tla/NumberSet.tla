----------------------------- MODULE NumberSet -----------------------------
(***************************************************************************)
(* What duplicate detection promises: the receiver of a reliable message   *)
(* remembers exactly the set of message numbers it has let through.  A     *)
(* number is answered TRUE the first time it is offered and FALSE ever     *)
(* after; it is refused unseen only when it lies more than MaxGap beyond   *)
(* a number that is still missing.                                         *)
(***************************************************************************)
EXTENDS Integers

CONSTANTS Numbers,    \* message numbers before they are cut to 24 bits
          MaxGap      \* the largest accepted distance from a missing number

VARIABLES times,      \* how often each number was answered TRUE
          answer      \* the last question and its answer

vars == <<times, answer>>

Init ==
    /\ times = [n \in Numbers |-> 0]
    /\ answer = [num |-> -1, new |-> FALSE]

InReach(n) == \A m \in Numbers : m < n - MaxGap => times[m] > 0

Offer(n) ==
    LET new == times[n] = 0 /\ InReach(n)
    IN  /\ answer' = [num |-> n, new |-> new]
        /\ times' = [times EXCEPT ![n] = IF new THEN @ + 1 ELSE @]

Next == \E n \in Numbers : Offer(n)

Spec == Init /\ [][Next]_vars
=============================================================================
