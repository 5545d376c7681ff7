SPECIFICATION FairSpec
CONSTANTS
  g0 = g0
  p1 = p1
  a2 = a2
  b2 = b2
  c3 = c3
  Initial <- MCInitial
  MaxReorg = 1
  Blocks <- MCBlocks
  Genesis = g0
  height <- MCHeight
  parent <- MCParent
  None = None
  Mempool = Mempool
  BufferSize = 3
  PageSize = 1
  UseMempool = TRUE
  MaxLog = 6
  MaxViews = 2
  MaxQueue = 3
  MaxRestarts = 1
INVARIANTS
  CompactionFaithful
  InPlace
PROPERTY
  CatchesUp
CHECK_DEADLOCK FALSE
