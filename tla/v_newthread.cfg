SPECIFICATION Spec
CONSTANTS
  Node = {g}
  Sym = {}
  Thr = {t1}
  Main = main
  Vm = vm
  Global = g
  Hash <- MCHash
  SymTblSize = 1
  SweepMax = 1
  OldTrigger = 2
  FullRequests = {}
  StaleRegisters = FALSE
  StepInThrInit = TRUE
  LoadContext = {}
  MaxRefs = 1
  MaxStack = 1
INVARIANTS
  NewThreadKept
