------------------------------- MODULE MCAtad ------------------------------
(***************************************************************************)
(* Atad for TLC: registers of one bit, so that the addresses below 16 use  *)
(* every register and a command moves at most two sectors.                 *)
(***************************************************************************)
EXTENDS Atad

\* a full command, of count 0, and an odd rest behind the last register's carry
MCRequests == {<<6, 3>>}
=============================================================================
