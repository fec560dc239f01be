SPECIFICATION Spec
CONSTANTS
  Repl = TRUE
  MaxDepth = 3
  MaxFrames = 4
PROPERTIES
  FinallyAlwaysRuns
