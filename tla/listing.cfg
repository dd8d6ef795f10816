SPECIFICATION Spec
CONSTANTS
  short = short
  dir = dir
  long = long
  dot = dot
  Empty = Empty
  Name <- MCName
  Hidden = {dot}
  Subdir = {dir, dot}
  NameLen <- MCLen
  Rank <- MCRank
  Widths = {0, 4, 7, 10, 13, 17}
  DefaultCapacity = 3
  MaxEntries = 4
INVARIANT IndexSafe
INVARIANT NoWrap
INVARIANT CellsFit
INVARIANT PrintedOnce
INVARIANT ColumnsSorted
INVARIANT NarrowOnly
INVARIANT PointersLive
INVARIANT ReleasedAtReturn
CHECK_DEADLOCK FALSE
