CONSTANTS
    Lines <- MCLines
    MaxHeaderSize = 80
    ULLONG_MAX = 255
    Pieces = {1}
    MaxPauses = 1
SPECIFICATION Spec
INVARIANTS ToldTheMessages BoundsHold
CHECK_DEADLOCK FALSE
