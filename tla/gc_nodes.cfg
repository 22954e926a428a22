SPECIFICATION Spec
CONSTANTS
  Node = {g, n1}
  Sym = {}
  Thr = {t1}
  Main = main
  Vm = vm
  Global = g
  Hash <- MCHash
  SymTblSize = 1
  SweepMax = 1
  OldTrigger = 2
  FullRequests = {0}
  StaleRegisters = FALSE
  StepInThrInit = FALSE
  LoadContext = {}
  MaxRefs = 1
  MaxStack = 1
INVARIANTS
  TypeOK
  TriColour
  GrayListSound
  OldSuffix
  FullCycleCollects
  IInv
PROPERTIES
  MemorySafety
