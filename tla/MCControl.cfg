SPECIFICATION Spec
CONSTANTS
  Names = {p}
  Numbers = {1}
  Productions <- MCProductions
  Siblings = TRUE
  MaxPending = 33
  MaxCode = 11
  MaxLexErrors = 1
INVARIANTS PlaceholdersQueued BackfillReady ConditionsGuard LoopsLeave
