SPECIFICATION FairSpec
CONSTANTS
  Values <- MCValues
  Absent = Absent
  NoAction = NoAction
  Panic = Panic
  g = g
  a = a
  b = b
  b2 = b2
  c = c
  Keys <- MCKeys
  CursorKey = 2
  DummyKey = 0
  Points <- MCPoints
  Origin = Origin
  height <- MCHeight
  parent <- MCParent
  acts <- MCActs
  ideal <- MCIdeal
  BatchSize = 1
  BufferSize = 2
  StartPoint = g
  MaxFaults = 2
  NoLock = NoLock
  None = None
  DeepReorg = FALSE
  FlakyPublish = FALSE
  LateSwitch = FALSE
INVARIANTS
  AtomicBlocks
  PublishedConsistent
  NeverStuck
  CursorCached
  RollbackReady
PROPERTIES
  ImplementsAtomicIndex
  Drains
CHECK_DEADLOCK FALSE
