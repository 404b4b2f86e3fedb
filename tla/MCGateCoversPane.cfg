SPECIFICATION Spec
CONSTANTS
    HookIds = {claude}
    Sessions <- MCSessions
    NoTarget = NoTarget
    Ptys <- MCPtys
    TmuxOf <- MCTmuxOf
    MaxReports = 1
INVARIANT GateCoversPane
CHECK_DEADLOCK FALSE
