SPECIFICATION Spec
CONSTANTS
    Clients = {web, cli}
    Sessions <- MCSessions
    NoTarget = NoTarget
    Nobody = Nobody
    NoResult = NoResult
    MaxItems = 1
    MaxAdds = 2
INVARIANTS TypeOK LockExcludes ReadIsCurrent
PROPERTIES Linearizable LockReleased
CHECK_DEADLOCK FALSE
