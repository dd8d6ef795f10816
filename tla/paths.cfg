SPECIFICATION Spec
CONSTANTS
  Char = {"/", "x"}
  Slash = "/"
  Nul = "0"
  MaxLen = 4
INVARIANT NoOverrun
INVARIANT JoinsPaths
CHECK_DEADLOCK FALSE
