--------------------------- MODULE MCCanvasRedraw ---------------------------
(***************************************************************************)
(* Small instances of CanvasRedraw for TLC.                                *)
(***************************************************************************)
EXTENDS CanvasRedraw, TLC

ThreadSymmetry == Permutations(Threads)
=============================================================================
