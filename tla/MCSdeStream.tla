----------------------------- MODULE MCSdeStream -----------------------------
(***************************************************************************)
(* SdeStream on rings of three and buffers in every layout.                *)
(***************************************************************************)
EXTENDS SdeStream

MCLayouts == {<<"single", 1>>, <<"multi", NumDesc>>, <<"user", 2>>}

=============================================================================
