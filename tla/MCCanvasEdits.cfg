SPECIFICATION Spec
CONSTANTS
  NoThread = NoThread
  Threads = {t1, t2}
  Units = {0, 1}
  Positions = {0}
  Affines = {1}
  Widths = {1, 2}
  Prerender = 1
  Padding = 0
  Preempt = 1
  UsedStrategies = {"Responsive"}
  MaxRequests = 3
SYMMETRY ThreadSymmetry
INVARIANTS
  TypeOK
  DamageIsNotForgotten
PROPERTIES
  RenderInputsAreFrozen
  ImplementsRedrawProcess
\* An idle canvas, and one that is unrealized for good, stop.
CHECK_DEADLOCK FALSE
