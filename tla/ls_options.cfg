SPECIFICATION Spec
CONSTANTS
  root = root
  dirA = dirA
  dirB = dirB
  dirC = dirC
  dot = dot
  dotD = dotD
  Missing = Missing
  Dir <- MCDir
  Cwd = root
  Parent <- MCParent
  Hidden = {dot}
  Files = {dirB, dirC, dotD}
  Large = {dirA}
  Late = {dirB}
  CommandLines <- OptionLines
  MaxChanges = 0
  MaxTimes = 2
INVARIANT OptionsMean
INVARIANT ExitStatus
CHECK_DEADLOCK FALSE
