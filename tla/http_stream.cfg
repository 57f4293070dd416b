CONSTANTS
  Wires <- MCWires
  MaxHeaders = 2
  MaxChunks = 2
  MaxHex = 2
  OverheadLimit = 11
SPECIFICATION Spec
INVARIANTS TypeOK OnlyWhatWasSent NeverRefused CompleteIsSeen DataAsSent EndsWhereTheBodyEnds
CHECK_DEADLOCK FALSE
