SPECIFICATION FairSpec
CONSTANTS
  NoThread = NoThread
  Threads = {t1}
  Units = {0}
  Positions = {0, 2}
  Affines = {2, 3}
  Widths = {2}
  Prerender = 1
  Padding = 1
  Preempt = 2
  UsedStrategies = {"Responsive", "FullRedraw", "Multiscale"}
  MaxRequests = 3
INVARIANTS
  AssertionsHold
  OneLinkAtATime
  IdleMeansCurrent
PROPERTIES
  VisibleFirst
  Settles
\* An idle canvas, and one that is unrealized for good, stop.
CHECK_DEADLOCK FALSE
