SPECIFICATION Spec
CONSTANTS
    HookIds = {claude}
    Sessions <- MCSession
    NoTarget = NoTarget
    Ptys <- MCPtys
    TmuxOf <- MCTmuxOf
    MaxReports = 2
INVARIANTS TypeOK GateCoversTarget
PROPERTIES OnlyWorkWaits DetectionReachesGate WaitingEnds
CHECK_DEADLOCK FALSE
