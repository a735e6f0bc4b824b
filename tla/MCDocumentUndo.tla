--------------------------- MODULE MCDocumentUndo ---------------------------
(***************************************************************************)
(* Small instances of DocumentUndo for TLC.                                *)
(***************************************************************************)
EXTENDS DocumentUndo
=============================================================================
