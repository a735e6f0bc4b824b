SPECIFICATION Spec
CONSTANTS
  Null = Null
  End = End
  MaxEdits = 4
  MaxCommits = 4
  MaxSaves = 1
  Keys = {"k"}
  Icons = {"a", "b"}
  UndoSize = 2
  SaveKinds = {"official", "copy"}
INVARIANTS
  TypeOK
  LogsFitContent
  LogMirrorsStacks
  UnmodifiedMeansSaved
\* Undo is refused with nothing to undo: the bounds may leave no step.
CHECK_DEADLOCK FALSE
