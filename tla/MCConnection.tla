---------------------------- MODULE MCConnection ----------------------------
(***************************************************************************)
(* Connection for TLC: two sizes are tried and only the second one fits.   *)
(***************************************************************************)
EXTENDS Connection

MCMtus == <<3, 2>>

MCDataChannels == [e \in Ends |-> IF e = "client" THEN {0, 1} ELSE {0}]
=============================================================================
