SPECIFICATION Spec
CONSTANTS
  MainKinds = {"call", "bind", "read"}
  FKinds = {"plain", "return", "tail", "if", "while", "try", "switch"}
  BlockKinds = {"tail", "plain", "assign", "read", "returnX", "ifReturn", "ifBreak", "break", "continue"}
  MaxCalls = 3
  NULL = NULL
INVARIANTS
  InOrder
PROPERTIES
  DirectReturnIsFinal
  BindingGoesOn
  LoopFreeEnds
