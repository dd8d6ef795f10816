SPECIFICATION Spec
CONSTANTS
  BufSize = 3
  MaxSize = 7
INVARIANT InOrder
PROPERTY ImplementsCopy
PROPERTY CatEnds
CHECK_DEADLOCK FALSE
