--------------------------- MODULE MCSynchronizer ---------------------------
(***************************************************************************)
(* A small instance of Synchronizer for TLC.                               *)
(***************************************************************************)
EXTENDS Synchronizer
=============================================================================
