SPECIFICATION Spec
CONSTANTS
  PipeCap = 2
  Limit = 2
  MaxOutput = 4
INVARIANTS CommandInv OkIsComplete
PROPERTIES Returns
CHECK_DEADLOCK FALSE
