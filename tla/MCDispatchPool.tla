--------------------------- MODULE MCDispatchPool ---------------------------
(***************************************************************************)
(* Small instances of DispatchPool for TLC.                                *)
(***************************************************************************)
EXTENDS DispatchPool
=============================================================================
