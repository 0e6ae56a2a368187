------------------------------ MODULE MCUdpBd ------------------------------
(***************************************************************************)
(* UdpBd for TLC; the bounds of each run are in its configuration.         *)
(***************************************************************************)
EXTENDS UdpBdInv
=============================================================================
