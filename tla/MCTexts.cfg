SPECIFICATION Spec
CONSTANTS
  Undefined = Undefined
  Repeat = TRUE
  Inputs <- MCInputs
INVARIANTS TypeOK SoleHolder UnreadIsLatest NeverUnfinished
PROPERTIES NeverRereads KeepsProtocol
