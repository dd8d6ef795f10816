SPECIFICATION Spec
CONSTANTS
  a1 = a1
  a2 = a2
  v1 = v1
  v2 = v2
  NULL = NULL
  Junk = Junk
  Addr <- MCAddr
  Value = {v1}
  HeaderSize = 4
  SizeMod = 40
  HeapLimit = 17
  DefaultCapacity = 2
  ElementSizes <- MCElementSizes
  Capacities <- MCCapacities
PROPERTY StrayOnlyIfIncoherent
PROPERTY LeakOnlyOnRefusal
CHECK_DEADLOCK FALSE
