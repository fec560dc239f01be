SPECIFICATION Spec
CONSTANTS
  NumObjects = 7
  MaxNew = 2
  Returns = FALSE
INVARIANTS
  ProtoChainsEnd
  SealedKeepsProperty
CHECK_DEADLOCK FALSE
