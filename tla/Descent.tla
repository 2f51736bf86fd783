-------------------------------- MODULE Descent --------------------------------
(***************************************************************************)
(* How bounded loops are measured: a rank is a tuple of natural numbers,   *)
(* the outer loops first, and what runs down is its lexicographic order,   *)
(* which has no infinite descent.                                          *)
(***************************************************************************)
EXTENDS Integers, Sequences

\* r is below s: smaller, and no less than 0, at the first place they differ.
Below(r, s) == \E i \in DOMAIN s : /\ r[i] \in 0..(s[i] - 1)
                                   /\ \A j \in 1..(i - 1) : r[j] = s[j]
================================================================================
