CONSTANTS
  a = a
  b = b
  c = c
  v1 = v1
  v2 = v2
  sig1 = sig1
  sig2 = sig2
  Roles = {a, b, c}
  Unknown = "unknown"
  Malformed = "empty_id"
  Values = {v1, v2}
  Outputs = {"answer", "other", "set", "surrogate"}
  NotJson = {"set"}
  NotText = {"surrogate"}
  Signatures = {sig1, sig2}
  Requests <- MCRequests
SPECIFICATION Spec
INVARIANTS
  RemoveRestsOnFrozenEvidence
  OnlyUnfitArgumentsRaise
PROPERTIES
  EveryCallDecides
  KeepsThePromise
CHECK_DEADLOCK FALSE
