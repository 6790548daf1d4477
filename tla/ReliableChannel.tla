--------------------------- MODULE ReliableChannel ---------------------------
(***************************************************************************)
(* What the reliability layer promises for one direction of a connection,  *)
(* before any ordering: a message is delivered only if it was sent, and at *)
(* most once whatever its reliability.  OrderedChannel adds the rest.      *)
(***************************************************************************)
EXTENDS Naturals

CONSTANT MaxMessages      \* messages are numbered 1, 2, ... as they are sent

VARIABLES sent,           \* how many messages were handed to send()
          delivered       \* how often each message was handed to the application

vars == <<sent, delivered>>

Init ==
    /\ sent = 0
    /\ delivered = [m \in 1 .. MaxMessages |-> 0]

Send ==
    /\ sent < MaxMessages
    /\ sent' = sent + 1
    /\ UNCHANGED delivered

\* One datagram may deliver several messages.
Deliver(M) ==
    /\ \A m \in M : m <= sent /\ delivered[m] = 0
    /\ delivered' = [m \in 1 .. MaxMessages |->
                        IF m \in M THEN 1 ELSE delivered[m]]
    /\ UNCHANGED sent

Next == Send \/ \E M \in SUBSET (1 .. MaxMessages) : Deliver(M)

Spec == Init /\ [][Next]_vars
=============================================================================
