SPECIFICATION FairSpec
CONSTANTS
  Genesis = 0
  Blocks = {0, 1, 2, 12, 13, 14}
  parent <- MCParent
  height <- MCHeight
  Confs = 2
  Unset = Unset
  PageSize = 1
  LocatorSize = 2
  LinearSteps = 6
  QueueSize = 1
  Strays = {4}
  MaxCrashes = 1
  MaxEnds = 3
  MaxReconnects = 1
INVARIANTS
  StreamFaithful
  WindowKept
PROPERTY
  Synced
CHECK_DEADLOCK FALSE
