SPECIFICATION Spec
CONSTANTS
  None = None
  OpReturn = OpReturn
  Taproot = Taproot
  A = A
  Q = Q
  R = R
  Tick = Tick
  Scripts <- MCScripts
  RuneIds <- MCRuneIds
  Etchable <- MCEtchable
  MaxInt = 9
  MaxOffset = 8
  Subsidy = 2
  FirstRuneHeight = 2
  FirstInscriptionHeight = 2
  Ticks = {Tick}
  SelfTicks = {}
  CommitConfirmations = 2
  MaxInputs = 1
  JubileeHeight = 3
  Traffic <- MCTraffic
INVARIANTS
  RunesBacked
  OnePlace
  MemoryFaithful
  Brc20Backed
PROPERTY
  UndoExact
CHECK_DEADLOCK FALSE
