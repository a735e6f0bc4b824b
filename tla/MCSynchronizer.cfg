CONSTANTS
  Threads = {r1, r2}
  MaxCalls = 2
  MaxStale = 2
SPECIFICATION FairSpec
INVARIANTS
  TypeOK
  AssertionsHold
  SlotsAreAlive
  NobodyOversleeps
  RedrawActiveIsExact
PROPERTIES
  ImplementsRedrawProcess
  BlockedAreReleased
