SPECIFICATION FairSpec
CONSTANTS
  MaxTasks = 3
  MaxReports = 1
INVARIANTS
  TasksAreConsistent
PROPERTIES
  OnlyCurrentSpeaks
  TasksComeToAnEnd
\* The last task may have been let go of and its worker have returned.
CHECK_DEADLOCK FALSE
