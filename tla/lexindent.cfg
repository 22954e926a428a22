SPECIFICATION FairSpec
CONSTANTS
  Texts <- MCTexts
  ContTexts <- MCContTexts
  LastTexts <- MCLastTexts
  MaxTabs = 2
  MaxLines = 4
  Irregular = {}
CHECK_DEADLOCK FALSE
INVARIANTS
  OffsideRule
PROPERTIES
  Ends
