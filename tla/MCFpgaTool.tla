------------------------------- MODULE MCFpgaTool -------------------------------
(* Two cards, a slot without one; one process loads and clears, the other  *)
(* describes and rescans, on a card with a slow driver.  A load over the   *)
(* image that is there leaves the ids as they are.                         *)
EXTENDS FpgaTool, TLC

CONSTANTS p1, p2, a1, i0, i1

MCIds == (Cleared :> i0) @@ (a1 :> i1)
MCSlotsOf == (p1 :> {0}) @@ (p2 :> {1, 2})
MCCmdsOf == (p1 :> {"load", "clear"})
         @@ (p2 :> {"describe", "slots", "vjtag", "setdip"})
=================================================================================
