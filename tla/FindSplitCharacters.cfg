SPECIFICATION Spec
CONSTANTS
  Addresses = {a1, a2}
  Texts <- SplitTexts
  Inputs <- SplitInputs
  HashOf <- SplitHash
  ProbeSteps <- MCProbeSteps
  Sizes = {3, 5}
  InitialSize = 3
  CacheSize = 1
  NoCacheLimit = 1
  Null = Null
  Deleted = Deleted
INVARIANT CutsCharacters
