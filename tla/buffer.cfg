SPECIFICATION Spec
CONSTANTS
  Char = {"x", "y", "%"}
  Nul = "0"
  Percent = "%"
  Sizes = {0, 1, 2, 3}
  MaxText = 4
INVARIANT PrintfIsSafe
INVARIANT ShortTextsStay
PROPERTY FlushHandsOver
CHECK_DEADLOCK FALSE
