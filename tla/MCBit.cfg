SPECIFICATION FairSpec
CONSTANTS
  Gate <- MCGate
  Root <- MCRoot
  NoGate <- MCNoGate
  Pin <- MCPin
  Kind <- MCKind
  InPins <- MCInPins
  OutPins <- MCOutPins
  Parent <- MCParent
  Connections <- MCConnections
  Table <- MCTable
  Eval <- MCEval
INVARIANTS
  RaceNeverReturns
PROPERTIES
  ImplementsChip
  ReturnsUnlessRacing
