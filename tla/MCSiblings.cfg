SPECIFICATION Spec
CONSTANTS
  Names = {x, y}
  Numbers = {1}
  Productions <- MCProductions
  Siblings = TRUE
  MaxPending = 34
  MaxCode = 12
  MaxLexErrors = 0
SYMMETRY Naming
INVARIANT BodiesReached
