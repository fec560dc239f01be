SPECIFICATION Spec
CONSTANTS
  NumSlots = 3
  ExplicitRun = FALSE
  NULL = NULL
  MaxFrames = 1
  MaxOut = 1
  MaxHeld = 1
INVARIANTS
  RetryFindsExactlyLive
PROPERTIES
  CollectionIsSafe
  AllocationAnswered
  ImplementsCollector
