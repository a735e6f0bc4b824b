SPECIFICATION Spec
CONSTANTS
  Objects = {"root", "g", "h", "a", "b"}
  Root = "root"
  None = "none"
  Children <- GroupAndSpan
  Kind <- SpanBeside
  MaxIterations = 2
  MaxRequests = 3
  MaxCalls = 1
INVARIANTS
  TypeOK
  RequestsAreKnown
PROPERTIES
  EnsuredMeansUpToDate
  RequestsAreServed
\* With the bounds reached and everything up to date nothing happens.
CHECK_DEADLOCK FALSE
