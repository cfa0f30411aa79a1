CONSTANTS
  Wires <- MCWires
  NextWires <- MCFewWires
  XorByte <- MCXor
  TempBuf = 4
  LenCap = 1000000
  CanFail = {"begin", "payload", "complete"}
  MaxFrames = 3
SPECIFICATION FairSpec
INVARIANTS TypeOK FramesExact UnmaskedInPhase ReportsTheStream
PROPERTY KeepsPromise
