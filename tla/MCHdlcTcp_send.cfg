CONSTANTS
    Packets <- MCPackets
    MAX_CLIENTS = 2
    MAX_EVENTS = 2
    Descriptors = 3
    MaxFaults = 1
    Config <- MCConfig
SPECIFICATION Spec
INVARIANT SendsWhatWasAsked
CHECK_DEADLOCK FALSE
