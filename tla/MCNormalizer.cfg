CONSTANTS
  None = None
  a = a
  b = b
  Texts <- MCTexts
  ListFields <- MCListFields
  ScalarFields <- MCScalarFields
  Lines <- MCLines
  Explicit <- MCExplicit
  MaxLines = 4
SPECIFICATION Spec
INVARIANTS
  ExtractsTheLayout
  EveryLineIsAccountedFor
  ScalarIsOneSection
  ContradictionsStayOpen
CHECK_DEADLOCK FALSE
