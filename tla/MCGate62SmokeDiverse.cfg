CONSTANTS
  None = None
  N = 2
  R = 3
  L = 3
  Total = 2
  MinDiverse = 1
  MinNonzero = 1
  Outputs <- MCOutputs
  Golds <- MCGolds
  Orders <- MCOrders
SPECIFICATION Spec
INVARIANT DiverseTasksDifferInScores
CHECK_DEADLOCK FALSE
