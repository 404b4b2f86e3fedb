SPECIFICATION AgentSpec
CONSTANTS
    AgentNames = {n1}
    Statuses = {"idle", "working", "done"}
    NoName = NoName
    Dirs = {d}
    AgentTabs = {t1, t2}
    Shut = Shut
    AgentPanes = {p1, p2}
    NoTab = NoTab
INVARIANT NewPanePainted
