SPECIFICATION Spec
CONSTANTS
    Viewers = {phone, desk}
    High = 2
    Low = 1
    MaxPerSession = 2
    MaxScroll = 4
    MaxRead = 5
INVARIANTS TypeOK PausesAreOwned InOrder EndMarkKept
PROPERTY ReplayEnds
CHECK_DEADLOCK FALSE
