CONSTANTS
  up = up
  mid = mid
  down = down
  sink = sink
  Roles = {up, mid, down, sink}
  Order <- MCOrder
  InputNames = {"in", "extra"}
  Unknown = "unknown"
  Malformed = "empty_id"
  Anyone = "anyone"
  Fields = {"f", "g"}
  Contents = {0, 1}
  Outputs = {"answer", "other", "set", "surrogate"}
  NotJson = {"set"}
  NotText = {"surrogate"}
  Answers <- MCAnswers
  Requests <- MCRequests
SPECIFICATION Spec
INVARIANT NoRetainedRoleNeedsTheTarget
CHECK_DEADLOCK FALSE
