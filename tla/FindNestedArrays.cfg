SPECIFICATION Spec
CONSTANTS
  Undefined = Undefined
  Repeat = TRUE
  Inputs <- NestedArrays
INVARIANT ReportsDocuments
