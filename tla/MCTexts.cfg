SPECIFICATION SpecTexts
CONSTANTS
    FLAG = 90
    MaxPacketLen = 3
    Byte <- MCByte
    Chunks <- MCChunks
    MaxHeard = 6
INVARIANTS ToldRuns NoPacketLost AcceptsJson TokensAreTheTexts ToldTheFile UrlIsItsFields StringsAreRight TextsStandForTheirData
PROPERTY OfferedInTime
CHECK_DEADLOCK FALSE
