SPECIFICATION Spec
CONSTANTS
  Objects = {"root", "g", "h", "a", "b"}
  Root = "root"
  None = "none"
  Children <- TwoLevels
  Kind <- HatchInside
  MaxIterations = 2
  MaxRequests = 3
  MaxCalls = 1
INVARIANTS
  FlagsAreAccounted
CHECK_DEADLOCK FALSE
