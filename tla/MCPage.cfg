SPECIFICATION PageSpec
CONSTANTS
    Unneeded = Unneeded
    Sessions = {s1, s2}
    None = None
    MaxSockets = 2
    RetryCap = 1
    Boxes = {0, 2}
    Cells = {1, 2}
    Users = {a, b}
    NoSession = NoSession
    Panes = {1, 2, 3}
    Caps = {2, 3}
    Coarse = TRUE
    Ids = {1, 2}
    Tmux = {t1, t2}
    Plain = Plain
    Nothing = Nothing
    MaxTabs = 2
    Items = {i1, i2}
    TmuxItems = {i1}
    NoItem = NoItem
    Draws = {1, 2}
    TmuxSessions = {t}
    PlainSessions = {p}
    Empty = Empty
    MaxLeaves = 2
    MaxSaves = 1
    SettingTabs = {st1, st2}
    NumActions = 3
    Combos = {"k1", "k2", "k3", "k4"}
    Escape = "esc"
    Given <- MCGiven
    Reserved = {"k4"}
    Nodes <- MCNodes
    Folders <- MCFolders
    Start <- MCStart
    MaxRows = 7
    MaxAsks = 3
    Page = 1
    MaxCommits = 3
    MaxAwaited = 2
    AgentNames = {n1}
    Statuses = {"idle", "working", "done"}
    NoName = NoName
    Dirs = {}
    AgentTabs = {at1, at2}
    Shut = Shut
    AgentPanes = {ap1, ap2}
    NoTab = NoTab
    MaxLost = 2
    Inputs <- MCInputs
    NoInput = ""
    ModeOf <- MCModeOf
    WebTabs = {w1}
    MaxAsked = 2
SYMMETRY Interchangeable
INVARIANTS
    PageTypesOK LostReconnects ReplayFlagHonest SizeToldSameFont ShownOnce
    ScreenFollowsTree TabKnowsTmux BootShowsAllTmux OnePoller RailListCurrent
    SettingsHonest TreeNested LogNoGap DotsCurrent ResultsMatchInput
PROPERTIES BackoffKept PanesKeepPlace LayoutRestored
CHECK_DEADLOCK FALSE
