CONSTANTS
  None = None
  N = 2
  A = A
  B = B
  Answers <- MCAnswers
SPECIFICATION Spec
INVARIANTS
  ScoredAnswersAreSealed
  RootSealIsWhole
PROPERTIES
  KeepsTheStages
CHECK_DEADLOCK FALSE
