SPECIFICATION FairSpec
CONSTANTS
  NumWorkers = 2
  Callers = {c1, c2}
  NoCaller = NoCaller
  MaxCount = 5
  MaxDispatches = 2
INVARIANTS
  TypeOK
  WorkIsNotForgotten
PROPERTIES
  ImplementsParallelFor
  CallsReturn
\* A pool that is not used, and one that is destroyed, stop.
CHECK_DEADLOCK FALSE
