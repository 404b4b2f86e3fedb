SPECIFICATION Spec
CONSTANTS
    Sessions <- MCSessions
    Dangerous <- MCDangerous
    NoTarget = NoTarget
    Scheduled = auto
    Manual = {run}
    Cli = {}
    MaxItems = 2
    MaxAdds = 3
    MaxSent = 2
    MaxLost = 1
INVARIANT BlockedInOrder
CHECK_DEADLOCK FALSE
