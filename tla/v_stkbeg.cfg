SPECIFICATION Spec
CONSTANTS
  Yielder = {y1, y2}
  Main = main
  None = None
  Irregular = {}
  MaxChain = 4
  MaxMoves = 1
SYMMETRY Symmetry
INVARIANT
  StkbegCurrent
