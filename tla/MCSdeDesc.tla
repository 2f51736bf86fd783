----------------------------- MODULE MCSdeDesc -----------------------------
(* The descriptor block alone, on a small ring. *)
EXTENDS SdeDesc
=============================================================================
