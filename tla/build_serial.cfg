SPECIFICATION Spec
CONSTANTS
  Jobs = 1
  None = None
  MaxEvents = 5
INVARIANT SerialAlwaysBuilds
INVARIANT ObjectsImplyDirty
INVARIANT NestsOnlyOnFailure
PROPERTY MakeEnds
CHECK_DEADLOCK FALSE
