SPECIFICATION Spec
CONSTANTS
  Undefined = Undefined
  Repeat = TRUE
  Inputs <- Truncated
INVARIANT ReportsUnfinished
