SPECIFICATION Spec
CONSTANTS
    Sessions = {}
    Dangerous <- MCDangerous
    NoTarget = NoTarget
    Scheduled = auto
    Manual = {run}
    Cli = {cli}
    MaxItems = 1
    MaxAdds = 3
    MaxSent = 2
    MaxLost = 1
INVARIANTS TypeOK Accounted
PROPERTIES BlockedStays LivesAsPromised
CHECK_DEADLOCK FALSE
