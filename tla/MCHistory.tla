----------------------------- MODULE MCHistory -----------------------------
(***************************************************************************)
(* History for TLC.  Titles are interchangeable.  A behaviour starts with  *)
(* new cards or with cards on which one title has been launched so often   *)
(* that a mask bit is due, that the last one is, or that the count is near *)
(* its end: states that dozens of launches reach, here counted as one.     *)
(***************************************************************************)
EXTENDS History, TLC

TitleSymmetry == Permutations(Titles)

Veteran(t, n, bits) == [Blank EXCEPT !.title = t, !.count = n, !.bits = bits, !.time = 1]

Veterans(t) == {Veteran(t, 13, {0}), Veteran(t, 53, 0 .. 4), Veteran(t, 62, FullMask)}

MCInit ==
  \/ Init
  \/ \E t \in Titles : \E e \in Veterans(t) :
       /\ file = [c \in 1 .. Cards |-> "full"]
       /\ content = [c \in 1 .. Cards |-> [Empty EXCEPT ![1] = e]]
       /\ written = [c \in 1 .. Cards |-> {t}] /\ old = [c \in 1 .. Cards |-> {}]
       /\ pc = "idle" /\ title = NoTitle /\ card = 1 /\ list = Empty
       /\ runs = 1 /\ failed = {}

MCSpec == MCInit /\ [][Next]_vars
=============================================================================
