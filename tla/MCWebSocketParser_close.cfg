CONSTANTS
  Wires <- MCFewWires
  NextWires = {}
  XorByte <- MCXor
  TempBuf = 4
  LenCap = 1000000
  CanFail = {}
  MaxFrames = 4
SPECIFICATION Spec
PROPERTY SilentAfterClose
CHECK_DEADLOCK FALSE
