------------------------------ MODULE TxQueue ------------------------------
(***************************************************************************)
(* What smap_transmit promises the network stack: a frame it has accepted  *)
(* leaves the console whole, once, and after the frames accepted before.   *)
(***************************************************************************)
EXTENDS Naturals, Sequences

VARIABLES
  accepted,  \* frames handed over so far
  queue      \* those the hardware has yet to send, oldest first

qvars == <<accepted, queue>>

Init == accepted = 0 /\ queue = <<>>

\* frames are numbered in the order in which they are accepted
Accept == accepted' = accepted + 1 /\ queue' = Append(queue, accepted + 1)

Send == queue # <<>> /\ queue' = Tail(queue) /\ UNCHANGED accepted

Next == Accept \/ Send

Spec == Init /\ [][Next]_qvars

=============================================================================
