SPECIFICATION Spec
CONSTANTS
  g0 = g0
  a1 = a1
  b1 = b1
  b2 = b2
  x = x
  y = y
  Blocks <- MCBlocks
  height <- MCHeight
  parent <- MCParent
  Genesis = g0
  NoBlock = NoBlock
  NoView = 0
  Ticks = 1
  Instances <- MCInstances
  Late = {1}
  dataplane <- SameDataplane
  Reducers <- MCReducers
  serves <- OneEach
  Nothing = Nothing
  Zone = 1
  Kinds = {"mempool"}
  MaxEvents = 1
  MaxTime = 5
  MaxViews = 1
INVARIANTS
  FreshRequest
  UnifiedView
CHECK_DEADLOCK FALSE
