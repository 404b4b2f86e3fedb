------------------------------ MODULE RailPanel ------------------------------
(***************************************************************************)
(* The panel beside the page (src/frontend/js/layout/rail.js) and the list *)
(* of screens in it (clients.js).                                          *)
(*                                                                         *)
(* The panel shows the sessions or the settings.  The list of sessions is  *)
(* drawn anew whenever a session is opened, closed or shown and whenever a *)
(* status changes; drawing asks the server first, so that several drawings *)
(* can be waiting for their answers.  For a tmux session the panel also    *)
(* shows the other screens attached to it, which it asks for every few     *)
(* seconds until it is told to stop.                                       *)
(*                                                                         *)
(* Left out: the width of the panel, the badges, previews and order of the *)
(* rows.                                                                   *)
(*                                                                         *)
(* X_... are slips of X: what a plausible mistake would make of it.        *)
(***************************************************************************)
EXTENDS Integers, FiniteSets

CONSTANTS Items,     \* sessions the page may have
          TmuxItems, \* those of them that are tmux sessions
          NoItem,
          Draws      \* bound: drawings of the list at one time

VARIABLES present,   \* the sessions of the page
          current,   \* the active one
          openItem,  \* "none", "session" or "settings"
          overPage,   \* the panel lies over the page
          wide,      \* the window is wide enough for both
          lists,     \* lists[d]: the entries and rows of drawing d
          drawn,     \* the drawing whose list is in the panel, NoItem for none
          pollers,   \* the blocks of screens that go on asking: [about, gone]
          block      \* the one _clientsCleanup stops

railVars == <<present, current, openItem, overPage, wide, lists, drawn, pollers, block>>

Unused == [asked |-> FALSE, entries |-> {}, rows |-> {}, twice |-> FALSE]
Blocks == [about : TmuxItems, by : Draws]

RailTypeOK ==
    /\ present \subseteq Items /\ current \in present \cup {NoItem}
    /\ openItem \in {"none", "session", "settings"}
    /\ overPage \in BOOLEAN /\ wide \in BOOLEAN
    /\ lists \in [Draws -> [asked : BOOLEAN, entries : SUBSET Items, rows : SUBSET Items,
                            twice : BOOLEAN]]
    /\ drawn \in Draws \cup {NoItem}
    /\ pollers \subseteq Blocks /\ block \in Blocks \cup {NoItem}

(* The state the server kept: opened again at once, unless on a phone.     *)
RailInit ==
    /\ present = {} /\ current = NoItem
    /\ openItem \in {"none", "settings"} /\ overPage = FALSE /\ wide = TRUE
    /\ lists = [d \in Draws |-> Unused] /\ drawn = NoItem
    /\ pollers = {} /\ block = NoItem

-----------------------------------------------------------------------------
(* A drawing nobody waits for and whose list is not in the panel.          *)
FreeDraws == {d \in Draws : ~lists[d].asked /\ d # drawn}

Stopped_Not == pollers

(* _clientsCleanup, if there is one. *)
Stopped == pollers \ {block}

(* renderSessionPanel up to its await: a new list, and a new block of      *)
(* screens if the active session is a tmux session.                        *)
Render(d, there, active) ==
    LET mine == [about |-> active, by |-> d]
    IN  /\ lists' = [e \in Draws |->
               IF e = d THEN [Unused EXCEPT !.asked = there # {}, !.entries = there]
               ELSE IF lists[e].asked THEN lists[e] ELSE Unused]
        /\ drawn' = d
        /\ IF active \in TmuxItems
           THEN pollers' = Stopped \cup {mine} /\ block' = mine
           ELSE pollers' = Stopped /\ block' = NoItem

NoRender == UNCHANGED <<lists, drawn, pollers, block>>
MayRender(there, active) ==
    IF openItem = "session" THEN \E d \in FreeDraws : Render(d, there, active) ELSE NoRender

Target_Shown(d) == IF drawn # NoItem THEN drawn ELSE d

(* ... and after it: the rows go into the list this drawing made, unless   *)
(* the panel shows something else by then.                                 *)
Target(d) == d
Rendered(d) ==
    LET t == Target(d)
    IN  /\ lists[d].asked
        /\ lists' = [e \in Draws |->
               LET l == [lists[e] EXCEPT !.asked = @ /\ e # d]
               IN  IF e # drawn THEN IF l.asked THEN l ELSE Unused
                   ELSE IF e = t /\ openItem = "session"
                   THEN [l EXCEPT !.rows = @ \cup lists[d].entries,
                                  !.twice = @ \/ l.rows \cap lists[d].entries # {}]
                   ELSE l]
        /\ UNCHANGED <<present, current, openItem, overPage, wide, drawn, pollers, block>>

-----------------------------------------------------------------------------
(* closePanel and openPanelItem: a second click on a button closes.        *)
ClosePanel ==
    /\ openItem' = "none"
    /\ overPage' = FALSE
    /\ pollers' = Stopped /\ block' = NoItem
    /\ UNCHANGED <<lists, drawn>>

ClickRail(item) ==
    /\ IF openItem = item THEN ClosePanel
       ELSE /\ openItem' = item
            /\ overPage' = ~wide
            /\ IF item = "session" THEN \E d \in FreeDraws : Render(d, present, current)
               ELSE drawn' = NoItem /\ UNCHANGED <<lists, pollers, block>>
    /\ UNCHANGED <<present, current, wide>>

(* Its close button, Escape, and a click elsewhere while it is an overlay.  *)
CloseClick ==
    /\ openItem # "none"
    /\ ClosePanel
    /\ UNCHANGED <<present, current, wide>>

ResizeRail ==
    /\ wide' = ~wide
    /\ overPage' = (openItem # "none" /\ wide)
    /\ UNCHANGED <<present, current, openItem>>
    /\ NoRender

(* The store tells of every change of its sessions; a status may change.   *)
SessionOpened(s) ==
    /\ s \notin present
    /\ present' = present \cup {s}
    /\ UNCHANGED <<current, openItem, overPage, wide>>
    /\ MayRender(present', current)

SessionShown(s) ==
    /\ s \in present
    /\ current' = s
    /\ UNCHANGED <<present, openItem, overPage, wide>>
    /\ MayRender(present, s)

(* removeSession: what is shown instead is known when the server answers.  *)
SessionClosed(s) ==
    /\ s \in present
    /\ present' = present \ {s}
    /\ current' = IF current = s THEN NoItem ELSE current
    /\ UNCHANGED <<openItem, overPage, wide>>
    /\ MayRender(present', current')

StatusChanged ==
    /\ openItem = "session"
    /\ UNCHANGED <<present, current, openItem, overPage, wide>>
    /\ MayRender(present, current)

RailNext ==
    \/ \E item \in {"session", "settings"} : ClickRail(item)
    \/ CloseClick
    \/ ResizeRail
    \/ \E s \in Items : SessionOpened(s) \/ SessionShown(s) \/ SessionClosed(s)
    \/ StatusChanged
    \/ \E d \in Draws : Rendered(d)

RailSpec == RailInit /\ [][RailNext]_railVars

-----------------------------------------------------------------------------
(* rail.js:133: however often the list is drawn anew, one block of screens *)
(* goes on asking at most, and none once the panel is closed.              *)
OnePoller ==
    /\ \A p, q \in pollers : p = q
    /\ openItem = "none" => pollers = {}

(* The list in the panel, once its drawing has its answer, shows every     *)
(* session of the page once and no other, whatever order answers came in.  *)
RailListCurrent ==
    openItem = "session" /\ drawn # NoItem /\ ~lists[drawn].asked =>
        lists[drawn].rows = present /\ ~lists[drawn].twice
=============================================================================
