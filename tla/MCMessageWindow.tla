-------------------------- MODULE MCMessageWindow --------------------------
(***************************************************************************)
(* A sequence space of 2 * HalfSeq numbers and 27 messages, so that the    *)
(* 16-number space of the configuration wraps around more than once.       *)
(***************************************************************************)
EXTENDS MessageWindow

MCNumbers == 0 .. 26
=============================================================================
