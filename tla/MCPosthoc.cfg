CONSTANTS
  None = None
  NoVote = NoVote
  p1 = p1
  p2 = p2
  N = 2
  R = 3
  L = 3
  Sources <- MCSources
  Golds <- MCGolds
  Procs <- MCProcs
  Written <- MCWritten
SYMMETRY Symmetry
SPECIFICATION Spec
INVARIANTS
  RecordsFollowTheVotes
  OnlySupportersHaveValue
  VerifiedLabelsAreTraced
PROPERTY NothingChangesAfterGold
CHECK_DEADLOCK FALSE
