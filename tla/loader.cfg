SPECIFICATION FairSpec
CONSTANTS
  Res = {r1, r2, r3}
  Remote = {r3}
  None = None
  MaxExterns = 2
  ScanLoads = FALSE
INVARIANTS
  OnlyOnce
  RunsComplete
  NoneForgotten
PROPERTIES
  LoadingEnds
