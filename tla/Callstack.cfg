SPECIFICATION Spec
CONSTANTS
  Repl = TRUE
  MaxDepth = 3
  MaxFrames = 4
INVARIANTS
  ActiveFramesSurvive
  CatchRunsOnce
  ReportedOnlyUnhandled
  SettingFollowsEval
PROPERTIES
  ImplementsUnwinding
