SPECIFICATION SpecMisread
CONSTANTS
    Clients = {web, cli}
    Sessions <- MCSessions
    NoTarget = NoTarget
    Nobody = Nobody
    NoResult = NoResult
    MaxItems = 1
    MaxAdds = 2
PROPERTY NoSilentLoss
CHECK_DEADLOCK FALSE
