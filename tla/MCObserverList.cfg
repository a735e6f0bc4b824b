SPECIFICATION Spec
CONSTANTS
  Observers = {o1, o2, o3}
  Nobody = Nobody
  Kinds = {"node", "undo"}
  MaxAdds = 5
  MaxDepth = 3
SYMMETRY Interchangeable
INVARIANTS
  TypeOK
PROPERTIES
  ImplementsRegistry
