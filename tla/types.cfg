SPECIFICATION Spec
CONSTANTS
  Object = Object
  All = All
  Table = {Object, All, t1, t2}
  Array = {a1, a2}
  None = None
  Irregular = {}
  Root = {All}
  MaxTypes = 3
SYMMETRY Symmetry
INVARIANTS
  AnswersRight
PROPERTIES
  ImplementsTraits
CHECK_DEADLOCK FALSE
