--------------------------- MODULE MCObserverList ---------------------------
(***************************************************************************)
(* Small instances of ObserverList for TLC.                                *)
(***************************************************************************)
EXTENDS ObserverList, TLC

Interchangeable == Permutations(Observers)
=============================================================================
