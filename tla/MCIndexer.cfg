SPECIFICATION IndexerSpec
CONSTANTS
  None = None
  OpReturn = OpReturn
  Taproot = Taproot
  Absent = Absent
  NoAction = NoAction
  Panic = Panic
  Values = {}
  A = A
  R = R
  Tick = Tick
  GenesisName = GenesisName
  VSize = 2
  MaxActivity = 100
  Bucket <- MCBucket
  Time <- MCTime
  Scripts <- MCScripts
  MaxInt = 9
  MaxOffset = 8
  Subsidy = 2
  FirstInscriptionHeight = 2
  Ticks = {Tick}
  SelfTicks = {}
  JubileeHeight = 2
  CommitConfirmations = 2
  MaxInputs = 1
  FirstRuneHeight = 2
  RuneIds <- MCRuneIds
  Etchable <- MCEtchable
  Traffic <- MCTraffic
INVARIANTS
  Promised
  SatIndexExact
  PointsExact
  LookupsExact
  RuneIndexExact
  InscriptionIndexExact
  ActivityExact
  Brc20Agrees
PROPERTY
  PermanentKept
CHECK_DEADLOCK FALSE
