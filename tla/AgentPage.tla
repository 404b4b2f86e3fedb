------------------------------ MODULE AgentPage ------------------------------
(***************************************************************************)
(* What the page shows of the agents' work (src/frontend/js/agent/): the   *)
(* status of every tmux session (state.js), kept from what arrives on      *)
(* /ws-agent (status.js), and the dots and the icon painted from it        *)
(* (paint.js).                                                             *)
(*                                                                         *)
(* Painting waits for the next frame, and is asked for by changes of the   *)
(* statuses, of the tabs and of the layout; drawing the layout makes and   *)
(* drops the panes that carry the dots.  The server's messages (the socket *)
(* that brings them is in AgentLink) and the user's clicks come in any     *)
(* order between.                                                          *)
(*                                                                         *)
(* X_... are slips of X: what a plausible mistake would make of it.        *)
(***************************************************************************)
EXTENDS Integers, FiniteSets

CONSTANTS AgentNames,  \* tmux sessions
          Statuses,    \* "idle", "working", "done" and maybe "waiting" and "error"
          NoName,      \* the session of a plain terminal; an event of no session
          Dirs,        \* directories they work in
          AgentTabs,
          Shut,        \* the session of a tab that is not open
          AgentPanes,
          NoTab

VARIABLES status,      \* _byTmux
          tabOf,       \* each tab's session
          panes,       \* the layout: what each pane has, Shut if it is not there
          front,       \* the active pane
          compact,     \* only the active pane is drawn
          dots,        \* the dot in each drawn pane and open tab; "idle" for none
          marks,       \* the classes of each tab; "waiting" goes with the dot
          pendingPaint,
          icon,        \* the favicon
          places       \* _tmuxCwdByName; NoName for none

agentVars == <<status, tabOf, panes, front, compact, dots, marks, pendingPaint,
               icon, places>>
pageVars == <<tabOf, panes, front, compact>>
paintVars == <<dots, marks, icon>>

Urgency == [waiting |-> 0, done |-> 1, working |-> 2, error |-> 3, idle |-> 4]

OpenTabs == {t \in AgentTabs : tabOf[t] # Shut}
LeavesOf(ps) == {p \in AgentPanes : ps[p] # Shut}
DrawnOf(ps, f, c) == IF c /\ Cardinality(LeavesOf(ps)) > 1 THEN {f} ELSE LeavesOf(ps)

AgentTypeOK ==
    /\ status \in [AgentNames -> Statuses]
    /\ tabOf \in [AgentTabs -> AgentNames \cup {NoName, Shut}]
    /\ panes \in [AgentPanes -> AgentTabs \cup {NoTab, Shut}] /\ front \in LeavesOf(panes)
    /\ compact \in BOOLEAN /\ pendingPaint \in BOOLEAN
    /\ dots \in [AgentTabs \cup AgentPanes -> Statuses]
    /\ marks \in [AgentTabs -> SUBSET {"working", "done"}]
    /\ icon \in Statuses \ {"error"}
    /\ places \in [AgentNames -> Dirs \cup {NoName}]

AgentInit ==
    /\ status = [n \in AgentNames |-> "idle"]
    /\ tabOf = [t \in AgentTabs |-> Shut]
    /\ \E p \in AgentPanes :
        panes = [q \in AgentPanes |-> IF q = p THEN NoTab ELSE Shut] /\ front = p
    /\ compact \in BOOLEAN
    /\ dots = [x \in AgentTabs \cup AgentPanes |-> "idle"]
    /\ marks = [t \in AgentTabs |-> {}]
    /\ pendingPaint = FALSE /\ icon = "idle"
    /\ places = [n \in AgentNames |-> NoName]

-----------------------------------------------------------------------------
(* getStatus of a tab's session; a plain terminal's is idle.               *)
GetStatus(t) == IF tabOf[t] \in AgentNames THEN status[tabOf[t]] ELSE "idle"

MostUrgent(S) ==
    IF S = {} THEN "idle" ELSE CHOOSE s \in S : \A r \in S : Urgency[s] <= Urgency[r]

(* The dot a tab or a drawn pane is due: paintPanes finds the session by   *)
(* the terminal that is in the pane.                                       *)
Due(x) ==
    IF x \in AgentTabs THEN (IF x \in OpenTabs THEN GetStatus(x) ELSE "idle")
    ELSE IF x \in DrawnOf(panes, front, compact) /\ panes[x] \in OpenTabs
         THEN GetStatus(panes[x]) ELSE "idle"

(* schedulePaint, and the frame it waits for.  The icon shows no error.    *)
PaintAll ==
    /\ pendingPaint /\ pendingPaint' = FALSE
    /\ dots' = [x \in AgentTabs \cup AgentPanes |-> Due(x)]
    /\ marks' = [t \in AgentTabs |->
           IF t \in OpenTabs THEN {GetStatus(t)} \cap {"working", "done"} ELSE {}]
    /\ icon' = MostUrgent({GetStatus(t) : t \in OpenTabs} \ {"error"})
    /\ UNCHANGED <<status, pageVars, places>>

(* The icon is also cleared when the user looks at the page.               *)
PageSeen ==
    /\ icon = "done" /\ icon' = "idle"
    /\ UNCHANGED <<status, pageVars, dots, marks, pendingPaint, places>>

-----------------------------------------------------------------------------
(* _notify, of a change.  An idle session may have an entry or none, which *)
(* is not told apart here, but coming and going is a change, too.          *)
Notified(may) ==
    pendingPaint' \in {pendingPaint \/ status' # status} \cup (IF may THEN {TRUE} ELSE {})

(* applySnapshot: a session may have several entries, or none.             *)
ApplySnapshot(all) ==
    /\ status' = [n \in AgentNames |-> MostUrgent(all[n])]
    /\ Notified(TRUE)

StatusSync(all) ==
    /\ ApplySnapshot(all)
    /\ UNCHANGED <<pageVars, paintVars, places>>

(* _tabByCwd: only when one tab alone is there.                            *)
TabsAt(d) == {t \in OpenTabs : tabOf[t] \in AgentNames /\ places[tabOf[t]] = d}
TabByCwd(d) == IF d # NoName /\ Cardinality(TabsAt(d)) = 1 THEN TabsAt(d) ELSE {}

(* agent_snapshot and agents_change: the sessions that use a tool are      *)
(* marked by their directory, and no other.                                *)
Snapshot(all, active) ==
    /\ ApplySnapshot(all)
    /\ icon' = (IF active = {} THEN icon ELSE "working")
    /\ marks' = [t \in AgentTabs |->
           (marks[t] \ {"working"}) \cup
           (IF \E d \in active : t \in TabByCwd(d) THEN {"working"} ELSE {})]
    /\ UNCHANGED <<pageVars, dots, places>>

(* agent_event, of a session the server could tell (applyEvent) or not: a  *)
(* tool starts, the agent stops, or something else changes.                *)
AgentEvent(n, s, what, d) ==
    /\ status' = (IF n = NoName THEN status ELSE [status EXCEPT ![n] = s])
    /\ Notified(n # NoName /\ s = "idle")
    /\ icon' = (IF what = "other" THEN icon ELSE what)
    /\ marks' = [t \in AgentTabs |->
           IF what # "other" /\ t \in TabByCwd(d)
           THEN (marks[t] \ {"working", "done"}) \cup {what} ELSE marks[t]]
    /\ UNCHANGED <<pageVars, dots, places>>

(* _refreshTmuxCwdMap, when connected and every 20 s; sessions come, go    *)
(* and change their directory by themselves.                               *)
PlacesArrive(f) ==
    /\ places' = f
    /\ UNCHANGED <<status, pageVars, paintVars, pendingPaint>>

-----------------------------------------------------------------------------
(* renderLayout: a pane that is drawn again after it was not is a new one. *)
Rendered(ps, f, c) ==
    /\ panes' = ps /\ front' = f /\ compact' = c
    /\ dots' = [x \in AgentTabs \cup AgentPanes |->
           IF x \in AgentTabs \/ x \in DrawnOf(panes, front, compact) \cap DrawnOf(ps, f, c)
           THEN dots[x] ELSE "idle"]

(* setPaneSession, and the other changes of the layout, which is listened  *)
(* to.                                                                     *)
PutIn(p, t) == [q \in AgentPanes |->
    IF q = p THEN t ELSE IF panes[q] = t /\ t \in AgentTabs THEN NoTab ELSE panes[q]]

Scheduled_ForTabs == pendingPaint

Scheduled == TRUE

Relaid(ps, f) ==
    /\ Rendered(ps, f, compact) /\ pendingPaint' = Scheduled
    /\ UNCHANGED <<tabOf, icon, places>>

(* switchTo: listened to as well, for the tab that is active.              *)
ShowTab(t) ==
    /\ t \in OpenTabs
    /\ Rendered(PutIn(front, t), front, compact) /\ pendingPaint' = TRUE
    /\ marks' = [marks EXCEPT ![t] = @ \ {"done"}]
    /\ UNCHANGED <<tabOf, icon, places>>

(* ackLocal: the user has seen that a session is done.                     *)
Acked(t) == [n \in AgentNames |-> IF tabOf[t] = n /\ status[n] = "done" THEN "idle" ELSE status[n]]

OtherShown(t) == ShowTab(t) /\ UNCHANGED status
ClickTab(t) == ShowTab(t) /\ status' = Acked(t)

NewTab(t, n) ==
    /\ tabOf[t] = Shut
    /\ tabOf' = [tabOf EXCEPT ![t] = n]
    /\ Rendered(PutIn(front, t), front, compact) /\ pendingPaint' = TRUE
    /\ UNCHANGED <<status, marks, icon, places>>

(* removeSession, by its cross or otherwise: the tab and the terminal in   *)
(* the pane go, and what is shown next waits for the server.               *)
RemoveTab(t) ==
    /\ t \in OpenTabs
    /\ tabOf' = [tabOf EXCEPT ![t] = Shut]
    /\ panes' = [p \in AgentPanes |-> IF panes[p] = t THEN NoTab ELSE panes[p]]
    /\ dots' = [dots EXCEPT ![t] = "idle"] /\ marks' = [marks EXCEPT ![t] = {}]
    /\ pendingPaint' = TRUE
    /\ status' \in {status, Acked(t)}
    /\ UNCHANGED <<front, compact, icon, places>>

Split(p, q, t) ==
    /\ p \in LeavesOf(panes) /\ q \notin LeavesOf(panes)
    /\ t \in {NoTab} \cup OpenTabs
    /\ Relaid([PutIn(q, t) EXCEPT ![q] = t], q)
    /\ UNCHANGED <<status, marks>>

Unsplit(p, f) ==
    /\ {p, f} \subseteq LeavesOf(panes) /\ p # f /\ (front # p => f = front)
    /\ Relaid([panes EXCEPT ![p] = Shut], f)
    /\ UNCHANGED <<status, marks>>

Drop(p, t) ==
    /\ p \in LeavesOf(panes) /\ t \in OpenTabs
    /\ Relaid(PutIn(p, t), front)
    /\ UNCHANGED <<status, marks>>

Step(p) ==
    /\ p \in LeavesOf(panes) \ {front}
    /\ Relaid(panes, p)
    /\ UNCHANGED <<status, marks>>

(* The window turns: the layout is drawn again, and nobody is told.        *)
Turn ==
    /\ Rendered(panes, front, ~compact)
    /\ UNCHANGED <<status, tabOf, marks, pendingPaint, icon, places>>

AgentNext ==
    \/ PaintAll \/ PageSeen
    \/ \E all \in [AgentNames -> SUBSET Statuses] :
        \/ StatusSync(all)
        \/ \E active \in SUBSET Dirs : Snapshot(all, active)
    \/ \E n \in AgentNames \cup {NoName} :
        \/ \E d \in Dirs \cup {NoName} :
            \/ \E s \in Statuses \cap {"working", "waiting"} : AgentEvent(n, s, "working", d)
            \/ AgentEvent(n, "done", "done", d)
        \/ \E s \in Statuses : AgentEvent(n, s, "other", NoName)
    \/ \E f \in [AgentNames -> Dirs \cup {NoName}] : PlacesArrive(f)
    \/ \E t \in AgentTabs :
        \/ ClickTab(t) \/ OtherShown(t) \/ RemoveTab(t)
        \/ \E n \in AgentNames \cup {NoName} : NewTab(t, n)
    \/ \E p, q \in AgentPanes :
        \/ \E t \in AgentTabs \cup {NoTab} : Split(p, q, t)
        \/ Unsplit(p, q)
    \/ \E p \in AgentPanes : Step(p) \/ \E t \in AgentTabs : Drop(p, t)
    \/ Turn

AgentSpec == AgentInit /\ [][AgentNext]_agentVars

-----------------------------------------------------------------------------
(* agent/paint.js:117: once the frame is painted every tab has the dot of  *)
(* its session's status, and no pane the dot of another session, of an     *)
(* older status, or of a session that has left it.                         *)
DotsCurrent ==
    ~pendingPaint =>
        /\ \A t \in OpenTabs : dots[t] = Due(t)
        /\ \A p \in AgentPanes : dots[p] \in {"idle", Due(p)}

(* agent/paint.js:117: a pane that is new is painted as well, so every     *)
(* drawn pane whose session is not idle has its dot.                       *)
NewPanePainted ==
    ~pendingPaint => \A p \in DrawnOf(panes, front, compact) : dots[p] = Due(p)

(* agent/paint.js:67: the icon shows the most urgent of the sessions.      *)
IconMostUrgent ==
    ~pendingPaint =>
        icon \in {"idle", MostUrgent({GetStatus(t) : t \in OpenTabs} \ {"error"})}
=============================================================================
