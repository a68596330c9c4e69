SPECIFICATION Spec
CONSTANTS
  Undefined = Undefined
  Malformed <- MCMalformed
  Sessions <- SelectedObjects
INVARIANT AnswersRequest
