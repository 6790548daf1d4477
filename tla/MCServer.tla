------------------------------ MODULE MCServer ------------------------------
(***************************************************************************)
(* Server for TLC: three addresses, two of which are ports of one client.  *)
(***************************************************************************)
EXTENDS Server

CONSTANTS a1, a2, a3, g0, g1, g2

\* The client with GUID g1 has two ports, and the first of them is later, or
\* meanwhile, that of a client with GUID g2; one client has GUID 0.
MCOffers == {<<a1, g1>>, <<a1, g2>>, <<a2, g1>>, <<a3, g0>>}
=============================================================================
