SPECIFICATION Spec
CONSTANTS
  Programs <- MCPrograms
  StackSize = 32
  IntMax = 127
  Inputs <- MCInputs
  EvalOrders = {"lhs_first", "rhs_first"}
PROPERTY ReturnsRestore
