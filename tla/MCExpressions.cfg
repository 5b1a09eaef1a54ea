SPECIFICATION ESpec
CONSTANTS
  Names = {x}
  Numbers = {7}
  Productions <- MCProductions
  Siblings = FALSE
  MaxPending = 24
  MaxCode = 8
  MaxLexErrors = 0
INVARIANT OperandsReady
PROPERTY ExpressionsMean
