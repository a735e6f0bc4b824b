-------------------------- MODULE MCBackgroundTask --------------------------
(***************************************************************************)
(* A small instance of BackgroundTask for TLC.                             *)
(***************************************************************************)
EXTENDS BackgroundTask
=============================================================================
