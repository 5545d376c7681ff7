SPECIFICATION MCSpec
CONSTANTS
  KvScanBatchSize = 3
  MaxMessage = 2
  MaxContentBodySize = 3
  MaxPageCount = 3
  Top = 200
  None = None
  HistoryTip = 4
  Shapes <- MCShapes
INVARIANTS
  PagesComplete
  PagesSound
  HistoryExact
