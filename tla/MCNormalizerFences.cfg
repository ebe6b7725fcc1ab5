CONSTANTS
  None = None
  a = a
  b = b
  Texts <- MCTexts
  ListFields <- MCListFields
  ScalarFields <- MCScalarFields
  Lines <- MCLines
  Explicit <- MCExplicit
  MaxLines = 5
SPECIFICATION Spec
INVARIANT FencedTextIsNotParsed
CHECK_DEADLOCK FALSE
