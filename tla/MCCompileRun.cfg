SPECIFICATION CRSpec
CONSTANTS
  Names = {x, y}
  Numbers = {1}
  Productions <- MCProductions
  Siblings = FALSE
  MaxPending = 30
  MaxCode = 12
  MaxLexErrors = 0
  StackSize = 16
  IntMax = 63
  Inputs = {0, 1}
  EvalOrders = {"lhs_first", "rhs_first"}
INVARIANTS BodiesReached StaticLinks ScopesMatch   StaticChainLexical RunsInOwnFrame  
