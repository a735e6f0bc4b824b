------------------------------ MODULE MCXmlTree ------------------------------
(***************************************************************************)
(* Small instances of XmlTree for TLC.                                     *)
(***************************************************************************)
EXTENDS XmlTree, TLC

\* The nodes whose values do not change are interchangeable.
Interchangeable == Permutations(Nodes \ Writable)

\* A cached position that is not valid is written before it is read.
Live ==
  <<[tree EXCEPT !.position = [n \in Nodes |->
       IF tree.parent[n] # None /\ tree.valid[tree.parent[n]] THEN @[n] ELSE 0]],
    log, partial, undo, redo, edits, versions>>
=============================================================================
