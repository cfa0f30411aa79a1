SPECIFICATION Spec
CONSTANTS
    def_MAX_DATA_IDX = 3
    Ids = {1, 2, 3, 4}
    Readings = {5, 6}
    FLAG = 4
    RX_LEN = 5
    Chunks <- MCChunks
    MaxHeard = 7
INVARIANTS TypeOK OnlyPackets NoPacketMissed TimesAreNumbers HoldsTheLatest AnswersAreTrue DigestOfTheMessage GoesBack TextComesBack
PROPERTY HoldsBackOnlyHead
CHECK_DEADLOCK FALSE
