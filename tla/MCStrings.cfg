SPECIFICATION Spec
CONSTANTS
  Addresses = {a1, a2, a3}
  Texts <- MCTexts
  Inputs <- MCInputs
  HashOf <- MCHash
  ProbeSteps <- MCProbeSteps
  Sizes = {3, 5, 7}
  InitialSize = 3
  CacheSize = 2
  NoCacheLimit = 1
  Null = Null
  Deleted = Deleted
SYMMETRY Symmetry
INVARIANTS OneCopy Placed ProbesEnd CachedOnce CutsCharacters Trims
PROPERTY KeepsPool
