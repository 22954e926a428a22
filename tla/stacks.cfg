SPECIFICATION Spec
CONSTANTS
  STACK_MINSIZE = 2
  STACK_EXTRA = 1
  STACK_NEWSIZE = 5
  STACK_MAXSIZE = 7
  STACK_ERRORSIZE = 8
  BCVARRET = 255
  MaxStack = 2
  NParms = 1
  Value = {"x"}
  Properties = {"c", "b", "v", "y", "yv", "closure", "x"}
  Junk = "junk"
  Irregular = {}
  MaxFrames = 3
  MaxLive = 6
  MaxWant = 2
VIEW View
INVARIANTS
  WithinStack
PROPERTIES
  ImplementsFrames
