------------------------------ MODULE MCFpgaPci ------------------------------
(* Two BARs of different sizes, of which one can be write-combining. *)
EXTENDS FpgaPci, TLC

CONSTANTS r1, r2

MCRes == {r1, r2}
MCSize == (r1 :> 4) @@ (r2 :> 8)
MCBurstable == {r2}
MCAccesses == {<<0, 4>>, <<4, 4>>}
MCLed == <<4, 4>>
===============================================================================
