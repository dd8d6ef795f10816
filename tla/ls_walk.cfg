SPECIFICATION Spec
CONSTANTS
  root = root
  dirA = dirA
  dirB = dirB
  dirC = dirC
  dot = dot
  dotD = dotD
  Missing = Missing
  Dir <- MCDir
  Cwd = root
  Parent <- MCParent
  Hidden = {dot}
  Files = {dirB, dirC, dotD}
  Large = {dirA}
  Late = {dirB}
  CommandLines <- WalkLines
  MaxChanges = 3
  MaxTimes = 2
INVARIANT VisitedOnce
INVARIANT NothingMissed
INVARIANT HeapIsStack
INVARIANT DanglingOnlyIfLarge
PROPERTY CursorReturns
PROPERTY Terminates
CHECK_DEADLOCK FALSE
