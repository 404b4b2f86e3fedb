SPECIFICATION Spec
CONSTANTS
    Sessions <- MCSessions
    Dangerous <- MCDangerous
    NoTarget = NoTarget
    Scheduled = auto
    Manual = {run}
    Cli = {}
    MaxItems = 1
    MaxAdds = 3
    MaxSent = 2
    MaxLost = 1
INVARIANTS ServerInOrder Capacity
PROPERTY DrainsEnd
CHECK_DEADLOCK FALSE
