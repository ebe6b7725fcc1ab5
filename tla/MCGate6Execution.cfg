CONSTANTS
  None = None
  c1 = c1
  c2 = c2
  N = 3
  R = 2
  Configs <- MCConfigs
  Durations = {1, 2}
  Timeout = 2
  Budget = 8
SPECIFICATION Spec
INVARIANTS
  ProgressIsBacked
  SealedRunIsComplete
  OnlyTheAbortedTaskIsRetried
  BudgetOverrunBounded
PROPERTIES
  EvidencePreserved
  EveryAttemptEnds
CHECK_DEADLOCK FALSE
