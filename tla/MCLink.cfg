SPECIFICATION LinkSpec
CONSTANTS
  EventCount = 1
  FunctionNames = {"h", "hs"}
  Inits = {"i", "j", "is"}
  Finits = {"f", "fs"}
  Static = {"hs", "is", "fs"}
CONSTRAINT TwoHooks
INVARIANTS
  InitsInOrder
  FinitsInOrder
  HooksBoundUnlessMixed
PROPERTIES
  FirstKeepsTheSlot
  LoadEnds
CHECK_DEADLOCK FALSE
