------------------------------- MODULE MCPage -------------------------------
(***************************************************************************)
(* The parts of the web page, each with a small instance of its constants, *)
(* checked one beside the other: a behaviour is a behaviour of one part,   *)
(* chosen at the start.  The parts share nothing here but the variables,   *)
(* which stand for those of the part; the ones it does not need stay       *)
(* Unneeded.                                                               *)
(***************************************************************************)
EXTENDS Naturals, Sequences, FiniteSets, TLC

CONSTANTS Sessions, None, MaxSockets, RetryCap,    \* TerminalSockets
          Boxes, Cells,                                    \* TerminalScreen
          Users, NoSession, Panes, Caps, Coarse,           \* PageLayout
          Ids, Tmux, Plain, Nothing, MaxTabs,              \* PageSessions
          Items, TmuxItems, NoItem, Draws,                 \* RailPanel
          TmuxSessions, PlainSessions, Empty, MaxLeaves, MaxSaves, \* LayoutPersist
          SettingTabs,                                     \* PageSettings
          NumActions, Combos, Escape, Given, Reserved,     \* PageKeymap
          Nodes, Folders, Start, MaxRows, MaxAsks,         \* ViewerTree
          Page, MaxCommits, MaxAwaited,                    \* ViewerPane
          AgentNames, Statuses, NoName, Dirs, AgentTabs, Shut, AgentPanes, NoTab,
                                                           \* AgentPage
          MaxLost,                                         \* AgentLink
          Inputs, NoInput, ModeOf, WebTabs, MaxAsked,      \* QuickOpen
          Unneeded \* what a variable of a part that is not the chosen one has

(* No session and no tmux session stands for none or for a plain one, and  *)
(* there are finitely many names tmux sessions can have.  A box that is    *)
(* not empty has room for a column: the fit addon never gives a terminal   *)
(* fewer than two.  A page of the log has commits.  There is a pane to     *)
(* begin with, and 0 stands for no pane.  Empty is no session, neither as  *)
(* one nor as it is saved; a session is a tmux session or a plain one, and *)
(* finitely many run.  Paths are not empty but for the highest folder's,   *)
(* and the folder of a folder is one; finitely many files are there.  The  *)
(* ids of web sessions are finitely many.  An agent's status is one of     *)
(* five, of which the page needs three; a tab that is not open is in no    *)
(* pane.  The field of the palette can be empty.                           *)
ASSUME PageAssumption ==
    /\ None \notin Sessions /\ MaxSockets \in Nat
    /\ Panes \subseteq Nat \ {0} /\ Panes # {}
    /\ Boxes \subseteq Nat /\ \A b \in Boxes \ {0}, c \in Cells : b \div c # 0
    /\ IsFiniteSet(Tmux) /\ Plain \notin Tmux /\ Nothing \notin Tmux \cup {Plain}
    /\ Page \in Nat \ {0}
    /\ Empty \notin TmuxSessions \cup PlainSessions
                      \cup [session : TmuxSessions \cup PlainSessions, tmux : BOOLEAN]
    /\ TmuxSessions \cap PlainSessions = {} /\ IsFiniteSet(TmuxSessions \cup PlainSessions)
    /\ MaxLeaves \in Nat \ {0} /\ MaxSaves \in Nat
    /\ IsFiniteSet(Nodes) /\ \A n \in Nodes : n # <<>> /\ n \in Seq({n[k] : k \in DOMAIN n})
    /\ Folders \subseteq Nodes \cup {<<>>} /\ {<<>>, Start} \subseteq Folders
    /\ \A f \in Folders \ {<<>>} : SubSeq(f, 1, Len(f) - 1) \in Folders
    /\ IsFiniteSet(Ids) /\ {RetryCap, MaxTabs, MaxLost, MaxAsked} \subseteq Nat
    /\ MaxCommits \in Nat \ {0} /\ NoInput \in Inputs
    /\ {"idle", "working", "done"} \subseteq Statuses
    /\ Statuses \subseteq {"idle", "working", "done", "waiting", "error"}
    /\ Shut \notin AgentTabs \cup {NoTab}

VARIABLES part, \* the part this behaviour is about
          v1, v2, v3, v4, v5, v6, v7, v8, v9, v10, v11

pageVars == <<part, v1, v2, v3, v4, v5, v6, v7, v8, v9, v10, v11>>

Sockets == INSTANCE TerminalSockets WITH
    rec <- v1, chain <- v2, sock <- v3, overlay <- v4, grace <- v5,
    active <- v6
Screen == INSTANCE TerminalScreen WITH
    conn <- v1, ws <- v2, e2e <- v3, replaying <- v4, xterm <- v5,
    fitted <- v6, told <- v7, due <- v8, view <- v9, pty <- v10,
    fitCell <- v11
Layout == INSTANCE PageLayout WITH
    tree <- v1, activePane <- v2, life <- v3, activeId <- v4, leaving <- v5,
    shown <- v6, picker <- v7, cap <- v8, stale <- v9
Boot == INSTANCE PageSessions WITH
    alive <- v1, web <- v2, tabs <- v3, named <- v4, snap <- v5, boot <- v6,
    arriving <- v7, closing <- v8, owed <- v9
Rail == INSTANCE RailPanel WITH
    present <- v1, current <- v2, openItem <- v3, overPage <- v4,
    wide <- v5, lists <- v6, drawn <- v7, pollers <- v8, block <- v9
Persist == INSTANCE LayoutPersist WITH
    running <- v1, opened <- v2, leaves <- v3, phase <- v4, enabled <- v5,
    timer <- v6, compared <- v7, local <- v8, remote <- v9
Settings == INSTANCE PageSettings WITH
    vals <- v1, server <- v2, loading <- v3, answer <- v4, migrated <- v5,
    screens <- v6
Keys == INSTANCE PageKeymap WITH
    overrides <- v1, standalone <- v2, settingsOpen <- v3, recording <- v4
Tree == INSTANCE ViewerTree WITH
    shownTree <- v1, root <- v2, expanded <- v3, rows <- v4, lost <- v5,
    navs <- v6, starts <- v7
Pane == INSTANCE ViewerPane WITH
    inPane <- v1, awaited <- v2, index <- v3, total <- v4, listed <- v5,
    busy <- v6, sent <- v7, log <- v8, logAsks <- v9
Agents == INSTANCE AgentPage WITH
    status <- v1, tabOf <- v2, panes <- v3, front <- v4, compact <- v5,
    dots <- v6, marks <- v7, pendingPaint <- v8, icon <- v9, places <- v10
Link == INSTANCE AgentLink WITH
    authed <- v1, caps <- v2, safe <- v3, link <- v4, tries <- v5
Palette == INSTANCE QuickOpen WITH
    palette <- v1, field <- v2, body <- v3, asked <- v4, cards <- v5,
    tabsNow <- v6, gate <- v7

-----------------------------------------------------------------------------
PageInit ==
    \/ /\ part = "sockets" /\ Sockets!Init
       /\ v7 = Unneeded /\ v8 = Unneeded /\ v9 = Unneeded /\ v10 = Unneeded
       /\ v11 = Unneeded
    \/ part = "screen" /\ Screen!Init
    \/ /\ part = "layout" /\ Layout!LayoutInit
       /\ v10 = Unneeded /\ v11 = Unneeded
    \/ /\ part = "sessions" /\ Boot!SessionsInit
       /\ v10 = Unneeded /\ v11 = Unneeded
    \/ /\ part = "rail" /\ Rail!RailInit
       /\ v10 = Unneeded /\ v11 = Unneeded
    \/ /\ part = "persist" /\ Persist!PersistInit
       /\ v10 = Unneeded /\ v11 = Unneeded
    \/ /\ part = "settings" /\ Settings!SettingsInit
       /\ v7 = Unneeded /\ v8 = Unneeded /\ v9 = Unneeded /\ v10 = Unneeded
       /\ v11 = Unneeded
    \/ /\ part = "keys" /\ Keys!KeymapInit
       /\ v5 = Unneeded /\ v6 = Unneeded /\ v7 = Unneeded /\ v8 = Unneeded
       /\ v9 = Unneeded /\ v10 = Unneeded /\ v11 = Unneeded
    \/ /\ part = "tree" /\ Tree!TreeInit
       /\ v8 = Unneeded /\ v9 = Unneeded /\ v10 = Unneeded /\ v11 = Unneeded
    \/ /\ part = "pane" /\ Pane!PaneInit
       /\ v10 = Unneeded /\ v11 = Unneeded
    \/ /\ part = "agents" /\ Agents!AgentInit
       /\ v11 = Unneeded
    \/ /\ part = "link" /\ Link!LinkInit
       /\ v6 = Unneeded /\ v7 = Unneeded /\ v8 = Unneeded /\ v9 = Unneeded
       /\ v10 = Unneeded /\ v11 = Unneeded
    \/ /\ part = "palette" /\ Palette!QuickInit
       /\ v8 = Unneeded /\ v9 = Unneeded /\ v10 = Unneeded /\ v11 = Unneeded

PageNext ==
    \/ /\ part = "sockets" /\ Sockets!Next
       /\ UNCHANGED <<part, v7, v8, v9, v10, v11>>
    \/ /\ part = "screen" /\ Screen!Next
       /\ UNCHANGED part
    \/ /\ part = "layout" /\ Layout!LayoutNext
       /\ UNCHANGED <<part, v10, v11>>
    \/ /\ part = "sessions" /\ Boot!SessionsNext
       /\ UNCHANGED <<part, v10, v11>>
    \/ /\ part = "rail" /\ Rail!RailNext
       /\ UNCHANGED <<part, v10, v11>>
    \/ /\ part = "persist" /\ Persist!PersistNext
       /\ UNCHANGED <<part, v10, v11>>
    \/ /\ part = "settings" /\ Settings!SettingsNext
       /\ UNCHANGED <<part, v7, v8, v9, v10, v11>>
    \/ /\ part = "keys" /\ Keys!KeymapNext
       /\ UNCHANGED <<part, v5, v6, v7, v8, v9, v10, v11>>
    \/ /\ part = "tree" /\ Tree!TreeNext
       /\ UNCHANGED <<part, v8, v9, v10, v11>>
    \/ /\ part = "pane" /\ Pane!PaneNext
       /\ UNCHANGED <<part, v10, v11>>
    \/ /\ part = "agents" /\ Agents!AgentNext
       /\ UNCHANGED <<part, v11>>
    \/ /\ part = "link" /\ Link!LinkNext
       /\ UNCHANGED <<part, v6, v7, v8, v9, v10, v11>>
    \/ /\ part = "palette" /\ Palette!QuickNext
       /\ UNCHANGED <<part, v8, v9, v10, v11>>

PageSpec == PageInit /\ [][PageNext]_pageVars

-----------------------------------------------------------------------------
(* The instances.                                                          *)
MCGiven  == [a \in 1..3 |-> <<"k1", "k2", "k3">>[a]]
MCNodes  == {<<1>>, <<2>>, <<1, 1>>, <<1, 2>>, <<1, 1, 1>>}
MCFolders == {<<>>, <<1>>, <<1, 1>>}
MCStart  == <<>>
MCInputs == {"", "a", "/a", ":3", ":80", ">a"}
MCModeOf == [i \in MCInputs |->
    CASE i \in {"", "a"} -> "all" [] i = "/a" -> "search" [] i = ">a" -> "settings"
      [] i \in {":3", ":80"} -> "ports"]
Interchangeable == Permutations(Users) \cup Permutations(Tmux)

-----------------------------------------------------------------------------
(* Every part's state is of its type.                                      *)
PageTypesOK ==
    /\ part = "sockets" => Sockets!TypeOK
    /\ part = "screen" => Screen!TypeOK
    /\ part = "layout" => Layout!LayoutTypeOK
    /\ part = "sessions" => Boot!SessionsTypeOK
    /\ part = "rail" => Rail!RailTypeOK
    /\ part = "persist" => Persist!PersistTypeOK
    /\ part = "settings" => Settings!SettingsTypeOK
    /\ part = "keys" => Keys!KeymapTypeOK
    /\ part = "tree" => Tree!TreeTypeOK
    /\ part = "pane" => Pane!PaneTypeOK
    /\ part = "agents" => Agents!AgentTypeOK
    /\ part = "link" => Link!LinkTypeOK
    /\ part = "palette" => Palette!QuickTypeOK

(* Each part has its properties; the modules give the reasons.             *)

(* ws.js: an open session that lost its last socket has an attempt to      *)
(* connect pending, unless it was refused or stopped.                      *)
LostReconnects == part = "sockets" => Sockets!WillReconnect

(* ws.js: the back-off is only forgotten while a connection lasts.         *)
BackoffKept == [][part = "sockets" => Sockets!KeepsBackoff]_pageVars

(* ws.js: the replay flag is set while the current connection replays.     *)
ReplayFlagHonest == part = "screen" => Screen!ReplayFlagHonest

(* resize.js: a shown, connected terminal has told its PTY its columns, as *)
(* long as the font is the one that was measured.                          *)
SizeToldSameFont == part = "screen" => Screen!SizeToldSameFont

(* tree.js: a session is in one pane at most.                              *)
ShownOnce == part = "layout" => Layout!ShownOnce

(* store.js, panes.js: the active pane exists, and the screen shows what   *)
(* the tree says.                                                          *)
ScreenFollowsTree == part = "layout" => Layout!ScreenFollowsTree

(* tree.js: splitting and closing panes leaves the others in their place.  *)
PanesKeepPlace == [][part = "layout" => Layout!KeepsPlace]_pageVars

(* workspace.js, tmux-panel.js: a tab of a tmux session knows its name.    *)
TabKnowsTmux == part = "sessions" => Boot!TabKnowsTmux

(* boot.js, workspace.js: as long as no request is rejected, booting leaves *)
(* no listed tmux session that lives and was not refused without a tab.    *)
BootShowsAllTmux == part = "sessions" => Boot!BootShowsAllTmux

(* rail.js: one block of clients polls at most, and none when closed.      *)
OnePoller == part = "rail" => Rail!OnePoller

(* rail.js: a drawing of the list that has its answer shows the sessions   *)
(* of now, each once.                                                      *)
RailListCurrent == part = "rail" => Rail!RailListCurrent

(* persist.js: a saved layout gives each tmux session its pane again.      *)
LayoutRestored == [][part = "persist" => Persist!RestoresPanes]_pageVars

(* mouse-mode.js, keymap.js: every terminal runs under the mouse setting,  *)
(* and a shortcut that another one shadows is warned of.                   *)
SettingsHonest ==
    /\ part = "settings" => Settings!MouseModeFollows
    /\ part = "keys" => Keys!ShadowWarned

(* viewer/tree.js: every row is below the row of its folder.               *)
TreeNested == part = "tree" => Tree!TreeNested

(* viewer/git.js: the pages of the log leave out no commit.                *)
LogNoGap == part = "pane" => Pane!LogNoGap

(* agent/paint.js: after a painting no dot shows another session's status  *)
(* or an older one.                                                        *)
DotsCurrent == part = "agents" => Agents!DotsCurrent

(* quickopen.js: the rows are those of what the field has now.             *)
ResultsMatchInput == part = "palette" => Palette!ResultsMatchInput
=============================================================================
