---------------------------- MODULE MCSdeCredit ----------------------------
(* One SDE channel with its driver, on a small ring. *)
EXTENDS SdeCredit
=============================================================================
