------------------------------ MODULE MCSdeSlot ------------------------------
(***************************************************************************)
(* SdeSlot as it is; SdeSlot.cfg gives the bounds.                         *)
(***************************************************************************)
EXTENDS SdeSlot

=============================================================================
