CONSTANTS
  a = a
  b = b
  v1 = v1
  v2 = v2
  t1 = t1
  t2 = t2
  Nothing = Nothing
  Unreadable = Unreadable
  Ids = {t1, t2}
  RoleIds = {a, b}
  Values = {v1, v2}
  MaxCalls = 2
  Requests <- MCRequests
  Answers <- MCAnswers
SPECIFICATION AdapterSpec
INVARIANTS
  TypeOK
  SuccessIsWhole
  EvidenceIsFreshlyBound
PROPERTIES
  BackendFailureIsEvidence
CHECK_DEADLOCK FALSE
