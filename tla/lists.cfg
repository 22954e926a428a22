SPECIFICATION Spec
CONSTANTS
  low = low
  high = high
  Names = {l1, l2}
  Values = {low, high}
  Null = Null
  Junk = Junk
  Rank <- MCRank
  Width = 32
  MaxRoom = 5
  MaxPos = 2
  Irregular = {}
SYMMETRY Alike
VIEW State
INVARIANTS
  BlocksHold
PROPERTIES
  ImplementsLists
