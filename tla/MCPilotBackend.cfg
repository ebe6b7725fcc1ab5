CONSTANTS
  domain = domain
  elimination = elimination
  verification = verification
  None = None
  NoVote = NoVote
  L = 2
  Roles = {domain, elimination, verification}
  Order <- MCOrder
  Alphabet = {1, 2, 3}
  TextsOf <- MCTextsOf
  MaxVersion = 1
SPECIFICATION Spec
INVARIANTS
  FrozenEngineMadeEveryOutput
  FinalIsTheVote
  VoteIsTheLastLine
  AdapterAcceptsTheRecord
CHECK_DEADLOCK FALSE
