------------------------- MODULE MCOrderedTransport -------------------------
(***************************************************************************)
(* OrderedTransport for TLC, which hands one message to the channel at a   *)
(* time: so a datagram has to carry one frame.                             *)
(***************************************************************************)
EXTENDS OrderedTransport

ASSUME OneFramePerDatagram == FramesPerDatagram = 1
=============================================================================
