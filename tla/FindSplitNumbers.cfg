SPECIFICATION FairSpec
CONSTANTS
  Undefined = Undefined
  Repeat = TRUE
  Inputs <- SplitNumbers
PROPERTY Terminates
