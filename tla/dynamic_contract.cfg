SPECIFICATION ContractSpec
CONSTANTS
  a1 = a1
  a2 = a2
  v1 = v1
  v2 = v2
  NULL = NULL
  Junk = Junk
  Addr <- MCAddr
  Value <- MCValues
  HeaderSize = 4
  SizeMod = 40
  HeapLimit = 17
  DefaultCapacity = 2
  ElementSizes <- MCElementSizes
  Capacities <- MCCapacities
INVARIANT NoStray
INVARIANT SlackBounded
PROPERTY ImplementsVector
CHECK_DEADLOCK FALSE
