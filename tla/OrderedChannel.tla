--------------------------- MODULE OrderedChannel ---------------------------
(***************************************************************************)
(* What an application sees of one ordering channel: messages come out in  *)
(* the order they were sent, none twice and no ordered one passed over;    *)
(* sequenced ones may be missing, ordered ones come out at last.           *)
(***************************************************************************)
EXTENDS Naturals, Sequences, FiniteSets, Functions

CONSTANTS MaxMessages,    \* messages are numbered 1, 2, ... as they are sent
          Sequenced       \* those sent SEQUENCED, the others ORDERED

VARIABLES sent,           \* how many messages were handed to send()
          log             \* those handed to the application, in order

vars == <<sent, log>>

Init == sent = 0 /\ log = << >>

Send ==
    /\ sent < MaxMessages
    /\ sent' = sent + 1
    /\ UNCHANGED log

\* The members of M from the earliest to the latest.
InSendOrder(M) ==
    {s \in Bijection(1 .. Cardinality(M), M) : \A i, j \in DOMAIN s : i < j => s[i] < s[j]}

\* One message may release others that were waiting for it.
Deliver(M) ==
    /\ \A m \in M : \A k \in Range(log) : k < m
    /\ \A m \in M : \A k \in 1 .. m \ Sequenced : k \in Range(log) \cup M
    /\ \E new \in InSendOrder(M) : log' = log \o new
    /\ UNCHANGED sent

Next == Send \/ \E M \in SUBSET (1 .. sent) : Deliver(M)

Spec == Init /\ [][Next]_vars

\* What ORDERED adds to RELIABLE: nothing sent later stops a message.
EventuallyDelivered ==
    []<>(\A m \in 1 .. sent \ Sequenced : m \in Range(log))
=============================================================================
