----------------------------- MODULE MCFpgaMgmt -----------------------------
(* One slot with its shell, and a process that manages it. *)
EXTENDS FpgaMgmt
=============================================================================
