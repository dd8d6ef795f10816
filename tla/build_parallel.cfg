SPECIFICATION Spec
CONSTANTS
  Jobs = 2
  None = None
  MaxEvents = 4
INVARIANT SuccessIsCurrent
INVARIANT TreeNotShared
CHECK_DEADLOCK FALSE
