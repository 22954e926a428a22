SPECIFICATION FairSpec
CONSTANTS
  Node = {g}
  Sym = {s1, s2, s3}
  Thr = {}
  Main = main
  Vm = vm
  Global = g
  Hash <- MCHash
  SymTblSize = 1
  SweepMax = 1
  OldTrigger = 4
  FullRequests = {}
  StaleRegisters = FALSE
  StepInThrInit = FALSE
  LoadContext = {}
  MaxRefs = 1
  MaxStack = 1
INVARIANTS
  NoDangling
  OldSuffix
  ChainsHoldHeap
PROPERTIES
  CycleCompletes
