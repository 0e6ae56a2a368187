----------------------------- MODULE MCUdpRdma -----------------------------
(***************************************************************************)
(* UdpRdma for TLC, with its inductive invariant.                          *)
(***************************************************************************)
EXTENDS UdpRdmaInv, TLC
=============================================================================
