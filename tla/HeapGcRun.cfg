SPECIFICATION Spec
CONSTANTS
  NumSlots = 3
  ExplicitRun = TRUE
  NULL = NULL
  MaxFrames = 0
  MaxOut = 1
  MaxHeld = 1
INVARIANTS
  UsedSlotsCounted
PROPERTIES
  CleanCollectionIsSafe
  CollectionEnds
