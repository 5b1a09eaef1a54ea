SPECIFICATION Spec
CONSTANTS
  Programs <- SampleOnly
  StackSize = 32
  IntMax = 127
  Inputs = {0, 5}
  EvalOrders = {"rhs_first"}
INVARIANT LoopLeftOnZero
