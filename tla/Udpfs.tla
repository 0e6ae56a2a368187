------------------------------- MODULE Udpfs -------------------------------
(***************************************************************************)
(* The UDPFS client.  The build links exactly one front end to the core    *)
(* (the Makefile's variants of the module), so a console runs one of three *)
(* drivers over the same connection.                                       *)
(***************************************************************************)
EXTENDS UdpfsIoman, UdpfsBlock

VARIABLE build

vars == <<build, conn, iomanVars, blockVars>>

Init == build \in {"ioman", "fhi", "bd"} /\ conn = "new" /\ IomanInit /\ BlockInit

Ioman == build = "ioman" /\ IomanNext /\ UNCHANGED blockVars
Fhi   == build = "fhi" /\ FhiNext /\ UNCHANGED iomanVars
Bd    == build = "bd" /\ BdNext /\ UNCHANGED iomanVars

Next == (Ioman \/ Fhi \/ Bd) /\ UNCHANGED build

Spec == Init /\ [][Next]_vars

\* A thread that can run does: the requests end, with a reply or by the
\* retries of udprdma_send and the time limit of udprdma_recv.
FairSpec ==
  /\ Spec
  /\ \A t \in Threads :
       /\ WF_vars(build = "fhi" /\ Take(t) /\ UNCHANGED <<build, iomanVars>>)
       /\ WF_vars(build # "ioman" /\ Core(t) /\ UNCHANGED <<build, iomanVars>>)
       /\ WF_vars(build = "fhi" /\ Leave(t) /\ UNCHANGED <<build, iomanVars>>)

TypeOK == conn \in {"new", "up", "down", "none"} /\ IomanTypeOK /\ BlockTypeOK

=============================================================================
