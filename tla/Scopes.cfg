SPECIFICATION Spec
CONSTANTS
  Nodes = {"outer", "inner"}
  Main = {"outer"}
  Inner <- MCInner
  NoNode = NoNode
  Param <- MCParam
  NoParam = NoParam
  Initialised = {"inner"}
  Variable <- MCVariable
  ScopeIds = {global, s1, s2, s3}
  Global = global
  None = None
  MaxClosures = 2
  MaxDepth = 3
INVARIANTS LookupsEnd ParamsAreArguments VariablesKeepValues InnerDeclared
CHECK_DEADLOCK FALSE
SYMMETRY Symmetry
