--------------------------- MODULE MCObjectUpdate ---------------------------
(***************************************************************************)
(* Small instances of ObjectUpdate for TLC.                                *)
(***************************************************************************)
EXTENDS ObjectUpdate

\* Two containers, one with two objects in it.
TwoLevels ==
  [x \in Objects |-> CASE x = "root" -> <<"g", "h">> [] x = "g" -> <<"a", "b">>
                       [] OTHER -> <<>>]
HatchInside == [x \in Objects |-> IF x = "g" THEN "hatch" ELSE "group"]

\* A group with an object, and a text span with a string.
GroupAndSpan ==
  [x \in Objects |-> CASE x = "root" -> <<"g", "h">> [] x = "g" -> <<"a">>
                       [] x = "h" -> <<"b">> [] OTHER -> <<>>]
SpanBeside == [x \in Objects |-> IF x = "h" THEN "tspan" ELSE "group"]
=============================================================================
