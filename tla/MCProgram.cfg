SPECIFICATION Spec
CONSTANTS
  Undefined = Undefined
  Symbols <- MCSymbols
  BadCode <- MCBadCode
  Executions <- MCExecutions
  Values <- MCValues
  MaxShort = 1
INVARIANTS MeansWhatItSpells OutputAnswers
PROPERTY AnswersPrecedeReads
