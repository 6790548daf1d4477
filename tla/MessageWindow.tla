--------------------------- MODULE MessageWindow ---------------------------
(***************************************************************************)
(* _ReliableMessageWindow: the duplicate filter every reliable frame goes  *)
(* through before anything else looks at it.  The code keeps the next      *)
(* expected 24-bit number and a deque of flags for the numbers after it.   *)
(*                                                                         *)
(* The sender numbers its messages 0, 1, 2, ...; only Wire(i) travels.     *)
(* "low" and "times" are history variables that keep the numbers whole.    *)
(* The network is assumed to forget: InLifetime bounds how old, or how far *)
(* ahead, a number can be when it arrives.  Nothing else is assumed: the   *)
(* numbers come in any order and any number of times.                      *)
(***************************************************************************)
EXTENDS SeqSpace, Sequences

CONSTANTS Numbers,    \* message numbers before they are cut to 24 bits
          MaxGap      \* 1000000 in check_and_mark

ASSUME NumbersAssumption ==
    /\ Numbers \subseteq Nat
    /\ \A n \in Numbers : 0 .. n \subseteq Numbers

ASSUME MaxGapAssumption == MaxGap \in Nat /\ MaxGap < HalfSeq

VARIABLES base,       \* _base
          window,     \* _window: window[k] tells of the number base + k - 1
          low,        \* the whole number that base stands for
          times,      \* how often each number was answered TRUE
          answer      \* the last number offered and the answer it got

vars == <<base, window, low, times, answer>>

Init ==
    /\ base = 0
    /\ window = << >>
    /\ low = 0
    /\ times = [n \in Numbers |-> 0]
    /\ answer = [num |-> -1, new |-> FALSE]

InLifetime(i) == low - HalfSeq <= i /\ i < low + HalfSeq

Hole(i) == SeqSub(Wire(i), base)

Refuse(i) ==
    /\ answer' = [num |-> i, new |-> FALSE]
    /\ UNCHANGED <<base, window, low, times>>

Accept(i) ==
    /\ answer' = [num |-> i, new |-> TRUE]
    /\ times' = [times EXCEPT ![i] = @ + 1]

\* A fault: the flags behind the front are not passed over.
PassesFrontOnly(w, n) == n = 1

\* The front of w and the TRUE flags right behind it, n numbers in all.
Passes(w, n) ==
    /\ n >= 1 /\ (n = 1 \/ n <= Len(w))
    /\ \A k \in 2 .. n : w[k]
    /\ n < Len(w) => ~w[n + 1]

\* w stretched with FALSE flags so that its last flag, number h, is TRUE.
Stretched(w, h) ==
    [k \in 1 .. h + 1 |-> IF k <= Len(w) THEN w[k] ELSE k = h + 1]

Behind(i) == Hole(i) >= HalfSeq /\ Refuse(i)

\* A fault: the limit itself is refused.
TooFarByOne(i) == Hole(i) < HalfSeq /\ Hole(i) >= MaxGap /\ Refuse(i)

TooFar(i) == Hole(i) < HalfSeq /\ Hole(i) > MaxGap /\ Refuse(i)

\* A fault: the base is not cut to 24 bits.
ExpectedUnwrapped(i) ==
    /\ Hole(i) = 0
    /\ \E n \in 1 .. Len(window) + 1 :
          /\ Passes(window, n)
          /\ window' = SubSeq(window, n + 1, Len(window))
          /\ base' = base + n
          /\ low' = low + n
    /\ Accept(i)

Expected(i) ==
    /\ Hole(i) = 0
    /\ \E n \in 1 .. Len(window) + 1 :
          /\ Passes(window, n)
          /\ window' = SubSeq(window, n + 1, Len(window))
          /\ base' = Wire(base + n)
          /\ low' = low + n
    /\ Accept(i)

Known(i) ==
    /\ Hole(i) > 0 /\ Hole(i) < Len(window)
    /\ window[Hole(i) + 1]
    /\ Refuse(i)

FillHole(i) ==
    /\ Hole(i) > 0 /\ Hole(i) < Len(window)
    /\ ~window[Hole(i) + 1]
    /\ window' = [window EXCEPT ![Hole(i) + 1] = TRUE]
    /\ Accept(i)
    /\ UNCHANGED <<base, low>>

Extend(i) ==
    /\ Hole(i) > 0 /\ Hole(i) <= MaxGap /\ Hole(i) >= Len(window)
    /\ window' = Stretched(window, Hole(i))
    /\ Accept(i)
    /\ UNCHANGED <<base, low>>

CheckAndMark(i) ==
    \/ Behind(i)
    \/ TooFar(i)
    \/ Expected(i)
    \/ Known(i)
    \/ FillHole(i)
    \/ Extend(i)

Next == \E i \in Numbers : InLifetime(i) /\ CheckAndMark(i)

Spec == Init /\ [][Next]_vars

----------------------------------------------------------------------------
(***************************************************************************)
(* The types of the fields: the base is a 24-bit number, each flag of the  *)
(* deque a boolean, and the ghosts are whole numbers.                      *)
(***************************************************************************)
TypeOK ==
    /\ base \in SeqNum
    /\ window \in Seq(BOOLEAN)
    /\ low \in Nat
    /\ times \in [Numbers -> Nat]
    /\ answer \in [num : Numbers \cup {-1}, new : BOOLEAN]

(***************************************************************************)
(* The two fields of the code determine which numbers were let through:    *)
(* all below base, none beyond the deque, and inside it those whose flag   *)
(* is set; each of them exactly once.  The flag at the front is never set, *)
(* or the code would refuse the very number it waits for.                  *)
(***************************************************************************)
WindowMatchesHistory ==
    /\ base = Wire(low)
    /\ Len(window) > 0 => ~window[1]
    /\ Len(window) <= MaxGap + 1
    /\ \A n \in Numbers :
          times[n] = IF n < low \/ (n < low + Len(window) /\ window[n - low + 1])
                     THEN 1 ELSE 0

Set == INSTANCE NumberSet

(***************************************************************************)
(* The filter implements the set of numbers it stands for, across any      *)
(* number of wrap-arounds of the 24-bit space: every answer the code gives *)
(* is the answer the set gives, so no reliable message is delivered twice  *)
(* and none is refused unseen inside the gap limit.                        *)
(***************************************************************************)
ImplementsNumberSet == Set!Spec
=============================================================================
