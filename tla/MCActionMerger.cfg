CONSTANTS
  Absent = Absent
  NoAction = NoAction
  Panic = Panic
  MaxValue = 5
  Values = {0, 1, 2, 3, 4, 5}
  Deltas = {0, 1, 2, 3}
  Underflow = FALSE
SPECIFICATION Spec
INVARIANTS MergeFaithful RollBackRestores
