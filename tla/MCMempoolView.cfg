SPECIFICATION ViewSpec
CONSTANTS
  None = None
  OpReturn = OpReturn
  Taproot = Taproot
  A = A
  R = R
  Tick = Tick
  Scripts <- MCScripts
  RuneIds <- MCRuneIds
  Etchable <- MCEtchable
  MaxInt = 9
  MaxOffset = 8
  Subsidy = 2
  FirstRuneHeight = 2
  FirstInscriptionHeight = 2
  Ticks = {Tick}
  SelfTicks = {}
  CommitConfirmations = 2
  MaxInputs = 1
  JubileeHeight = 2
  Traffic <- MCTraffic
PROPERTIES
  ViewExact
  MinedAsEstimated
CHECK_DEADLOCK FALSE
