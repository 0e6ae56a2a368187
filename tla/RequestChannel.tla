--------------------------- MODULE RequestChannel ---------------------------
(***************************************************************************)
(* What udpfs_core relies on when it talks to its server: one request at a *)
(* time, made of packets the server applies in order and at most once.  A  *)
(* request succeeds only when every one of its packets has been applied;   *)
(* one that fails closes the channel for good, and the server may or may   *)
(* not have applied, or may still apply, the packets it had been given.    *)
(***************************************************************************)
EXTENDS Naturals

VARIABLES
  phase,    \* "new", "open", "closed"
  busy,     \* a request is running
  issued,   \* packets handed over so far
  applied   \* packets the server has applied

cvars == <<phase, busy, issued, applied>>

Init == phase = "new" /\ busy = FALSE /\ issued = 0 /\ applied = 0

Connect  == phase = "new" /\ phase' = "open" /\ UNCHANGED <<busy, issued, applied>>
NoServer == phase = "new" /\ phase' = "closed" /\ UNCHANGED <<busy, issued, applied>>

Begin ==
  /\ phase = "open" /\ ~busy
  /\ busy' = TRUE /\ issued' = issued + 1 /\ UNCHANGED <<phase, applied>>

Continue ==
  /\ phase = "open" /\ busy
  /\ issued' = issued + 1 /\ UNCHANGED <<phase, busy, applied>>

Apply ==
  /\ applied < issued
  /\ applied' = applied + 1 /\ UNCHANGED <<phase, busy, issued>>

Succeed ==
  /\ busy /\ applied = issued
  /\ busy' = FALSE /\ UNCHANGED <<phase, issued, applied>>

Fail ==
  /\ busy
  /\ busy' = FALSE /\ phase' = "closed" /\ UNCHANGED <<issued, applied>>

Next == Connect \/ NoServer \/ Begin \/ Continue \/ Apply \/ Succeed \/ Fail

Spec == Init /\ [][Next]_cvars

=============================================================================
