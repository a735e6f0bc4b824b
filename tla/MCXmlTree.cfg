SPECIFICATION Spec
CONSTANTS
  Root = Root
  Nodes = {Root, a, b, c}
  None = None
  Content = "content"
  Fields = {"content", "style"}
  Values = {"v"}
  Writable = {Root}
  MaxEdits = 3
SYMMETRY Interchangeable
VIEW Live
INVARIANTS
  TypeOK
  TreeIsSound
  PositionsAreExact
PROPERTIES
  ImplementsVersions
\* With the logs full there may be nothing left to do.
CHECK_DEADLOCK FALSE
