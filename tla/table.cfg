SPECIFICATION Spec
CONSTANTS
  Key = {k1, k2, k3, p1}
  Pointer = {p1}
  Val = {None, v1}
  None = None
  MaxHash = 3
  MaxNodes = 4
SYMMETRY Symmetry
VIEW View
INVARIANTS
  OwnMainPosition
  TraversalComplete
PROPERTIES
  RemoveInPlace
  ImplementsMap
