SPECIFICATION Spec
CONSTANTS
  x = x
  y = y
  Keys <- MCKeys
  Classes = {"balance", "ledger", "txo", "cursor", "constant", "firstseen"}
  Values <- MCValues
  Absent = Absent
  NoAction = NoAction
  Panic = Panic
  Nothing = Nothing
  Deltas = {0, 1, 2}
  ZeroSpends = FALSE
  MaxValue = 2
  MaxTip = 1
  Depth = 1
  MaxFaults = 1
INVARIANTS
  RefreshExact
  UndoComplete
CHECK_DEADLOCK FALSE
