SPECIFICATION SpecTexts
CONSTANTS
    FLAG = 90
    MaxPacketLen = 3
    Byte <- MCByte
    Chunks <- MCChunks
    MaxHeard = 6
INVARIANT ContinuationsAreTold
CHECK_DEADLOCK FALSE
