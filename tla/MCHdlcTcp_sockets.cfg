CONSTANTS
    Packets <- MCPackets
    MAX_CLIENTS = 2
    MAX_EVENTS = 2
    Descriptors = 3
    MaxFaults = 1
    Config <- MCConfig
SPECIFICATION Spec
INVARIANTS EventsReachTheirClient NoDescriptorLeaks EchoesOwnPackets
PROPERTIES EverybodyIsServed ReconnectsAsTold
CHECK_DEADLOCK FALSE
