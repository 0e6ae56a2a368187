------------------------------ MODULE MCUdpfs ------------------------------
(***************************************************************************)
(* Udpfs for TLC.                                                          *)
(***************************************************************************)
EXTENDS Udpfs

\* one file of two sectors
MCFileSize == <<2>>

\* sizes below the sign bit of a 4 bit int, with it, and beyond the word
MCDevSizes == {2, 9, 17}
=============================================================================
