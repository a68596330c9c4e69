SPECIFICATION Spec
CONSTANTS
  Undefined = Undefined
  Malformed <- MCMalformed
  Sessions <- MCSessions
INVARIANTS AnswersRequest KeyStackIsPath Settled
PROPERTY ResultsKeep
