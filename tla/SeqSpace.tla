------------------------------ MODULE SeqSpace ------------------------------
(***************************************************************************)
(* The circular space of 24-bit sequence numbers that datagram numbers,    *)
(* reliable message numbers and ordering indices are drawn from.  The code *)
(* has SEQ_NUM_MAX + 1 = 2 * HALF_SEQ = 2^24 numbers; the size is a        *)
(* parameter so that TLC can wrap it around quickly.                       *)
(***************************************************************************)
EXTENDS Integers

CONSTANT HalfSeq      \* HALF_SEQ, half the number of sequence numbers

ASSUME HalfSeqAssumption == HalfSeq \in Nat /\ HalfSeq >= 2

SeqCount == 2 * HalfSeq

SeqNum == 0 .. SeqCount - 1

(* The number that goes on the wire for the i-th object (i = 0, 1, ...).   *)
Wire(i) == i % SeqCount

(* (a - b) & SEQ_NUM_MAX *)
SeqSub(a, b) == (a - b) % SeqCount

(* (a + 1) & SEQ_NUM_MAX *)
SeqNext(a) == (a + 1) % SeqCount

SeqGreaterThan(a, b) == a # b /\ SeqSub(a, b) < HalfSeq
=============================================================================
