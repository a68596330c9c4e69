SPECIFICATION FairSpec
CONSTANTS
  Undefined = Undefined
  Repeat = TRUE
  Inputs <- MCInputs
INVARIANTS ReportsDocuments PassesOnTheRest
PROPERTY Terminates
