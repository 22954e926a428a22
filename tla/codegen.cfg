SPECIFICATION FairSpec
CONSTANTS
  Parsed <- Read
  Compile <- BMethod
  Means <- Meaning
  Programs <- MCPrograms
  Answers <- MCAnswers
  GlobalNames = {"G", "Closure", "Range", "Resource"}
  Irregular = {}
  NRegs = 20
  MaxCalls = 9
CHECK_DEADLOCK FALSE
INVARIANTS
  MeansSource
  RegistersFit
  ParsedAsWritten
PROPERTIES
  KeepsGoing
