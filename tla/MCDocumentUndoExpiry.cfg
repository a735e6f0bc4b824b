SPECIFICATION Spec
CONSTANTS
  Null = Null
  End = End
  MaxEdits = 3
  MaxCommits = 3
  MaxSaves = 0
  Keys = {}
  Icons = {"a"}
  UndoSize = 2
  SaveKinds = {"official"}
INVARIANTS
  UntouchedMeansSaved
\* Undo is refused with nothing to undo: the bounds may leave no step.
CHECK_DEADLOCK FALSE
