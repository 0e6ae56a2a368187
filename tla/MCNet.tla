------------------------------- MODULE MCNet -------------------------------
(***************************************************************************)
(* Net for TLC: frames of one and of two words in a memory of five, rings  *)
(* of two BDs whose indices wrap at four, and loads that stress one side   *)
(* each and then both.                                                     *)
(***************************************************************************)
EXTENDS Net

MCArpSize    == <<6, 0>>
MCFrameSizes == {<<6, 0>>, <<4, 0>>, <<4, 5>>}

CONSTANTS h1, h2, h3

Load(t, r, c, o, p, f) ==
  [tx |-> t, rx |-> r, ticks |-> c, other |-> o, cable |-> p, frames |-> f]

frame(k, h) == [kind |-> k, from |-> h]

MCLoads ==
  {Load(4, 0, 0, 0, 0, {}),
   Load(0, 3, 0, 0, 0, {frame("request", h1), frame("request", h2), frame("bad", NoHost)}),
   Load(0, 3, 0, 0, 0, {frame("announce", h1), frame("announce", h2), frame("inform", h2)}),
   Load(0, 3, 0, 0, 0, {frame("announce", h1), frame("announce", h2), frame("inform", h3)}),
   Load(0, 3, 0, 0, 0, {frame("announce", h1), frame("inform", h2), frame("discovery", h1)}),
   Load(0, 2, 0, 0, 0, {frame("inform", h1), frame("inform", h2)}),
   Load(2, 1, 0, 0, 0, {frame("probe", NoHost)}),
   Load(0, 1, 1, 1, 0, {frame("other", NoHost)}),
   Load(0, 0, 3, 0, 2, {})}
=============================================================================
