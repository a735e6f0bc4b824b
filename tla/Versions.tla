------------------------------ MODULE Versions ------------------------------
(***************************************************************************)
(* What the logs of the XML tree promise: a document with a line of        *)
(* versions.  Changes since the latest version may become a version of     *)
(* their own, be joined to the latest one or be rolled back; undo returns  *)
(* to exactly the content before the latest version, and redo to exactly   *)
(* the content that was undone.                                            *)
(***************************************************************************)
EXTENDS Sequences, SequencesExt

CONSTANT Contents          \* what a document can hold

VARIABLES
  content,                 \* what it holds now
  base,                    \* what it held at the latest version
  past,                    \* contents to undo to, the next last
  future                   \* contents to redo to, the next last

versionVars == <<content, base, past, future>>

VersionInit == content \in Contents /\ base = content /\ past = <<>> /\ future = <<>>

Change == content' \in Contents /\ UNCHANGED <<base, past, future>>

RollBack == content' = base /\ UNCHANGED <<base, past, future>>

\* Changes that amount to nothing need not become a version.
NewVersion ==
  /\ base' = content /\ future' = <<>> /\ UNCHANGED content
  /\ \/ past' = Append(past, base)
     \/ past' = past /\ content = base

MergeVersion ==
  /\ past # <<>>
  /\ base' = content /\ future' = <<>> /\ UNCHANGED <<content, past>>

\* Undo takes changes back that no version holds together with the latest.
UndoVersion ==
  /\ past # <<>> /\ (content = base \/ future = <<>>)
  /\ content' = Last(past) /\ base' = content'
  /\ past' = Front(past) /\ future' = Append(future, content)

RedoVersion ==
  /\ future # <<>> /\ content = base
  /\ content' = Last(future) /\ base' = content'
  /\ future' = Front(future) /\ past' = Append(past, content)

VersionNext ==
  Change \/ RollBack \/ NewVersion \/ MergeVersion \/ UndoVersion \/ RedoVersion

VersionSpec == VersionInit /\ [][VersionNext]_versionVars
=============================================================================
