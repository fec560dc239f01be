SPECIFICATION Spec
CONSTANTS
  NumValues = 2
  MaxLen = 3
  MaxArgs = 2
INVARIANTS
  ElementsBelowLength
  MethodsAgree
PROPERTIES
  LengthShown
  EveryIndexOnce
  ImplementsLists
