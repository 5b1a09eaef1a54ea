SPECIFICATION Spec
CONSTANTS
  Names = {p}
  Numbers = {1}
  Productions <- MCProductions
  Siblings = FALSE
  MaxPending = 24
  MaxCode = 14
  MaxLexErrors = 1
INVARIANT BlocksFilled
