SPECIFICATION Spec
CONSTANTS
    Sessions = {}
    Dangerous = {}
    NoTarget = NoTarget
    Scheduled = auto
    Manual = {run}
    Cli = {cli}
    MaxItems = 2
    MaxAdds = 3
    MaxSent = 2
    MaxLost = 1
INVARIANT AllInOrder
CHECK_DEADLOCK FALSE
