CONSTANTS
  two32 = 4
  Operands <- MCOperands
  Texts <- MCTexts
  Patterns <- MCPatterns
  Radices = {0, 2, 10, 16, 36}
  MaxText = 3
  MaxNumber = 2
SPECIFICATION PrimitiveSpec
INVARIANTS SearchesAgree PatternsAgree SlicesAgree OperatorsAgree ParseIntReads
PROPERTIES LengthsFollowText
CHECK_DEADLOCK FALSE
