------------------------------ MODULE PageLayout ------------------------------
(***************************************************************************)
(* The panes of the page (src/frontend/js/layout) and what they show.      *)
(*                                                                         *)
(*   tree.js         the binary tree of panes, changed by pure functions   *)
(*   store.js        the tree and the active pane; whoever changes them    *)
(*                   has the page drawn anew                               *)
(*   panes.js        drawing: a session's terminal is moved, never copied  *)
(*   compact.js      on a small touch screen only the active pane is drawn *)
(*   dnd.js          dropping a session on a pane or on its edge           *)
(*   pane-picker.js  choosing a session for an empty pane                  *)
(*   session.js      opening, showing and closing sessions                 *)
(*                                                                         *)
(* The tree is a function whose domain is the set of paths from the root,  *)
(* sequences of "a" and "b".  Left out: the direction and the ratio of a   *)
(* split, which only say how it is drawn.                                  *)
(*                                                                         *)
(* X_... are slips of X: what a plausible mistake would make of it.        *)
(***************************************************************************)
EXTENDS Integers, Sequences, FiniteSets, SequencesExt

CONSTANTS Users,  \* the sessions users open; an id is never used twice
          NoSession,
          Panes,  \* bound: pane ids; an id nobody refers to is used again
          Caps,   \* the most panes a split may make, per width of the window
          Coarse  \* the pointer is coarse: a touch screen

VARIABLES tree,        \* path |-> node
          activePane,  \* activePaneId
          life,        \* life[s]: "unused", "open" or "gone"
          activeId,    \* the active session
          leaving,     \* sessions closed when active, the server yet to answer
          shown,       \* the sessions whose terminal is on the screen
          picker,      \* the pane the open picker is for, 0 for none
          cap,         \* tierCap() for the width of the window
          stale        \* the window's width has changed, drawing is pending

layoutVars == <<tree, activePane, life, activeId, leaving, shown, picker, cap, stale>>

MinOf(S) == CHOOSE x \in S : \A y \in S : x <= y

-----------------------------------------------------------------------------
(* makeLeaf, makeSplit. *)
Leaf(pane, session) == [kind |-> "leaf", pane |-> pane, session |-> session]
Split == [kind |-> "split", pane |-> 0, session |-> NoSession]

Leaves(t) == {p \in DOMAIN t : t[p].kind = "leaf"}
PanesOf(t) == {t[p].pane : p \in Leaves(t)}
PathOf(t, pane) == CHOOSE p \in Leaves(t) : t[p].pane = pane
SessionIn(t, pane) == t[PathOf(t, pane)].session

(* flattenLeaves: the leaves, a before b. *)
Before(p, q) == \E i \in 1..Len(p) :
                    /\ i <= Len(q) /\ p[i] = "a" /\ q[i] = "b"
                    /\ \A j \in 1..(i - 1) : p[j] = q[j]
Flatten(t) == LET place(p) == Cardinality({q \in Leaves(t) : Before(q, p)}) + 1
              IN  [i \in 1..Cardinality(Leaves(t)) |->
                       t[CHOOSE p \in Leaves(t) : place(p) = i]]

(* splitPane: a pane that is not there leaves the tree as it is. *)
SplitPane(t, pane, new, newFirst) ==
    IF pane \notin PanesOf(t) THEN t
    ELSE LET p == PathOf(t, pane)
             old == IF newFirst THEN Append(p, "b") ELSE Append(p, "a")
         IN  [q \in DOMAIN t \cup {Append(p, "a"), Append(p, "b")} |->
                 IF q = p THEN Split
                 ELSE IF q = old THEN t[p]
                 ELSE IF q \in DOMAIN t THEN t[q] ELSE new]

(* closePane: the sibling takes the parent's place; the root is emptied.   *)
Other(side) == IF side = "a" THEN "b" ELSE "a"
Sibling(p) == Append(Front(p), Other(Last(p)))

Promote(t, up, from) ==
    LET under(q) == SubSeq(q, Len(from) + 1, Len(q))
    IN  [q \in {r \in DOMAIN t : ~IsPrefix(up, r)}
               \cup {up \o under(r) : r \in {s \in DOMAIN t : IsPrefix(from, s)}} |->
            IF IsPrefix(up, q) THEN t[from \o SubSeq(q, Len(up) + 1, Len(q))] ELSE t[q]]

ClosePane_ClosesSibling(t, pane) ==
    IF pane \notin PanesOf(t) THEN t
    ELSE LET p == PathOf(t, pane)
         IN  IF p = <<>> THEN [t EXCEPT ![p].session = NoSession]
             ELSE Promote(t, Front(p), p)

ClosePane(t, pane) ==
    IF pane \notin PanesOf(t) THEN t
    ELSE LET p == PathOf(t, pane)
         IN  IF p = <<>> THEN [t EXCEPT ![p].session = NoSession]
             ELSE Promote(t, Front(p), Sibling(p))

(* setSession: any other leaf that has the session is emptied. *)
SetSession(t, pane, s) ==
    [p \in DOMAIN t |->
        IF t[p].kind = "split" THEN t[p]
        ELSE IF t[p].pane = pane THEN [t[p] EXCEPT !.session = s]
        ELSE IF t[p].session = s THEN [t[p] EXCEPT !.session = NoSession] ELSE t[p]]

-----------------------------------------------------------------------------
LayoutTypeOK ==
    /\ tree \in UNION {[D -> [kind : {"leaf", "split"}, pane : Panes \cup {0},
                              session : Users \cup {NoSession}]] : D \in {DOMAIN tree}}
    /\ \A p \in DOMAIN tree : tree[p].kind = "split" <=> Append(p, "a") \in DOMAIN tree
    /\ \A p \in DOMAIN tree : p # <<>> => Sibling(p) \in DOMAIN tree
    /\ activePane \in Panes
    /\ life \in [Users -> {"unused", "open", "gone"}]
    /\ activeId \in Users \cup {NoSession}
    /\ leaving \subseteq Users /\ shown \subseteq Users
    /\ picker \in Panes \cup {0}
    /\ cap \in Caps /\ stale \in BOOLEAN

LayoutInit ==
    /\ tree = [p \in {<<>>} |-> Leaf(MinOf(Panes), NoSession)]
    /\ activePane = MinOf(Panes)
    /\ life = [s \in Users |-> "unused"]
    /\ activeId = NoSession
    /\ leaving = {} /\ shown = {}
    /\ picker = 0
    /\ cap \in Caps
    /\ stale = FALSE

IsOpen(s) == life[s] = "open"
CanSplit == Cardinality(Leaves(tree)) < cap

(* A pane id that nothing refers to. *)
FreshPane == CHOOSE p \in Panes : p \notin PanesOf(tree) /\ p # picker
HasFreshPane == \E p \in Panes : p \notin PanesOf(tree) /\ p # picker

(* isCompactMode and renderLayout: which panes are drawn, and with what.   *)
(* A leaf whose session is gone is drawn as an empty one.                  *)
Compact == Coarse /\ cap = MinOf(Caps)
DrawnPanes(t, pane) == IF Compact /\ Cardinality(Leaves(t)) > 1 THEN {pane} ELSE PanesOf(t)
Drawn(t, pane, l) ==
    LET drawn == DrawnPanes(t, pane)
    IN  {t[p].session : p \in {q \in Leaves(t) : t[q].pane \in drawn}}
            \cap {s \in Users : l[s] = "open"}

(* _notify: draw. *)
Draw(t, pane, l) ==
    /\ tree' = t /\ activePane' = pane /\ life' = l
    /\ shown' = Drawn(t, pane, l)

(* setActivePane *)
Active(t, pane) == IF pane \in PanesOf(t) THEN pane ELSE activePane

-----------------------------------------------------------------------------
(* switchTo, with setPaneSession, in this pane. *)
Show(s, pane, l) ==
    /\ activeId' = s
    /\ Draw(SetSession(tree, pane, s), pane, l)

SwitchTo(s) ==
    /\ IsOpen(s)
    /\ Show(s, activePane, life)
    /\ UNCHANGED <<leaving, picker, cap, stale>>

(* addSession, whenever the server answers a request for a session. *)
AddSession(s) ==
    /\ life[s] = "unused"
    /\ Show(s, activePane, [life EXCEPT ![s] = "open"])
    /\ UNCHANGED <<leaving, picker, cap, stale>>

(* removeSession: the terminal goes at once, the leaf keeps the id.        *)
RemoveSession(s) ==
    /\ IsOpen(s)
    /\ life' = [life EXCEPT ![s] = "gone"]
    /\ leaving' = IF s = activeId THEN leaving \cup {s} ELSE leaving
    /\ shown' = shown \ {s}
    /\ UNCHANGED <<tree, activePane, activeId, picker, cap, stale>>

(* The rest of removeSession, after the server's answer. *)
RemoveAnswered(s) ==
    /\ s \in leaving
    /\ leaving' = leaving \ {s}
    /\ IF \E u \in Users : IsOpen(u)
       THEN \E u \in {v \in Users : IsOpen(v)} : Show(u, activePane, life)
       ELSE /\ activeId' = NoSession
            /\ Draw(SetSession(tree, activePane, NoSession), activePane, life)
    /\ UNCHANGED <<picker, cap, stale>>

-----------------------------------------------------------------------------
(* The buttons of a pane's head and the keys for the active pane.          *)
SplitButton(pane) ==
    /\ pane \in DrawnPanes(tree, activePane)
    /\ CanSplit /\ HasFreshPane
    /\ Draw(SplitPane(tree, pane, Leaf(FreshPane, NoSession), FALSE), FreshPane, life)
    /\ UNCHANGED <<activeId, leaving, picker, cap, stale>>

ActiveAfterClose_Kept(t, pane) == pane

(* closePane: if the active pane is gone, the first leaf becomes active.   *)
ActiveAfterClose(t, pane) == IF pane \in PanesOf(t) THEN pane ELSE Flatten(t)[1].pane

CloseButton(pane) ==
    /\ pane \in DrawnPanes(tree, activePane)
    /\ LET t == ClosePane(tree, pane)
       IN  Draw(t, ActiveAfterClose(t, activePane), life)
    /\ UNCHANGED <<activeId, leaving, picker, cap, stale>>

(* applyPaneDrop.  What is dragged is a tab or a pane's head; by the time  *)
(* of the drop the session may be gone, and with a finger the pane too.    *)
DropCenter(pane, s) ==
    /\ life[s] # "unused"
    /\ Draw(SetSession(tree, pane, s), activePane, life)
    /\ UNCHANGED <<activeId, leaving, picker, cap, stale>>

Dropped_InOneStep(pane, s, newFirst) ==
    SplitPane(tree, pane, Leaf(FreshPane, s), newFirst)

(* At an edge: the new leaf is made empty and then given the session, so   *)
(* that it is taken from the pane that had it.                             *)
Dropped(pane, s, newFirst) ==
    SetSession(SplitPane(tree, pane, Leaf(FreshPane, NoSession), newFirst), FreshPane, s)

DropEdge(pane, s, newFirst) ==
    /\ life[s] # "unused"
    /\ pane \in PanesOf(tree)
    /\ CanSplit /\ HasFreshPane
    /\ Draw(Dropped(pane, s, newFirst), FreshPane, life)
    /\ UNCHANGED <<activeId, leaving, picker, cap, stale>>

(* stepActivePane, round the leaves.                                       *)
StepActivePane(delta) ==
    LET leaves == Flatten(tree)
        n == Len(leaves)
        at == CHOOSE i \in 1..n : leaves[i].pane = activePane
    IN  /\ Draw(tree, leaves[((at - 1 + delta) % n) + 1].pane, life)
        /\ UNCHANGED <<activeId, leaving, picker, cap, stale>>

(* stepSession: the next tab; their order is not modelled here.            *)
StepSession == \E s \in Users \ {activeId} : SwitchTo(s)

(* A swipe on a small touch screen. *)
StepView(delta) ==
    /\ Compact
    /\ IF Cardinality(Leaves(tree)) > 1 THEN StepActivePane(delta) ELSE StepSession

-----------------------------------------------------------------------------
(* openPanePicker, by a click on an empty pane, and its two ways out.      *)
OpenPicker(pane) ==
    /\ picker = 0
    /\ pane \in DrawnPanes(tree, activePane)
    /\ SessionIn(tree, pane) \notin shown
    /\ picker' = pane
    /\ UNCHANGED <<tree, activePane, life, activeId, leaving, shown, cap, stale>>

(* An open session is chosen: the pane becomes active if it still exists.  *)
PickSession(s) ==
    /\ picker # 0
    /\ IsOpen(s)
    /\ Show(s, Active(tree, picker), life)
    /\ picker' = 0
    /\ UNCHANGED <<leaving, cap, stale>>

(* A new session is asked for, or a tmux session that is not open here;    *)
(* AddSession follows, in the pane that is active then.                    *)
PickNew ==
    /\ picker # 0
    /\ Draw(tree, Active(tree, picker), life)
    /\ picker' = 0
    /\ UNCHANGED <<activeId, leaving, cap, stale>>

ClosePicker ==
    /\ picker # 0
    /\ picker' = 0
    /\ UNCHANGED <<tree, activePane, life, activeId, leaving, shown, cap, stale>>

(* The window changes its width; the panes are drawn anew a little later.  *)
ResizeWindow(c) ==
    /\ cap # c
    /\ cap' = c
    /\ stale' = TRUE
    /\ UNCHANGED <<tree, activePane, life, activeId, leaving, shown, picker>>

Redraw ==
    /\ stale
    /\ stale' = FALSE
    /\ Draw(tree, activePane, life)
    /\ UNCHANGED <<activeId, leaving, picker, cap>>

-----------------------------------------------------------------------------
LayoutNext ==
    \/ \E s \in Users : \/ SwitchTo(s)
                        \/ AddSession(s)
                        \/ RemoveSession(s)
                        \/ RemoveAnswered(s)
                        \/ PickSession(s)
    \/ \E pane \in Panes : \/ SplitButton(pane)
                           \/ CloseButton(pane)
                           \/ OpenPicker(pane)
                           \/ \E s \in Users : \/ DropCenter(pane, s)
                                               \/ DropEdge(pane, s, TRUE)
                                               \/ DropEdge(pane, s, FALSE)
    \/ StepView(1)
    \/ StepView(-1)
    \/ PickNew
    \/ ClosePicker
    \/ \E c \in Caps : ResizeWindow(c)
    \/ Redraw

LayoutSpec == LayoutInit /\ [][LayoutNext]_layoutVars

-----------------------------------------------------------------------------
(* tree.js:84: a session is in one pane at most, by whatever mixture of    *)
(* tabs, drops, picks and answers it got there; its one terminal cannot be *)
(* drawn twice.                                                            *)
ShownOnce ==
    \A p, q \in Leaves(tree) :
        tree[p].session = tree[q].session /\ tree[p].session # NoSession => p = q

(* Splitting and closing panes leaves the other panes where they are: one  *)
(* pane goes at most, the rest keep their order, and where panes come or   *)
(* go, what one shows only changes by its session moving to another pane.  *)
Precedes(t, p, q) == Before(PathOf(t, p), PathOf(t, q))
Holding(t, s) == {p \in PanesOf(t) : SessionIn(t, p) = s}
KeepsPlace ==
    PanesOf(tree) # PanesOf(tree') =>
        LET common == PanesOf(tree) \cap PanesOf(tree')
        IN  /\ Cardinality(PanesOf(tree) \ common) <= 1
            /\ \A p, q \in common : Precedes(tree, p, q) => Precedes(tree', p, q)
            /\ \A p \in common :
                   \/ SessionIn(tree', p) = SessionIn(tree, p)
                   \/ /\ SessionIn(tree', p) = NoSession
                      /\ Holding(tree', SessionIn(tree, p)) # {}
PanesKeepPlace == [][KeepsPlace]_layoutVars

(* The active pane is a leaf of the tree, so that the next session that is *)
(* shown has a place, whichever panes were closed while answers were out;  *)
(* and what is on the screen is what the tree says, unless the window has  *)
(* just changed its width.                                                 *)
ScreenFollowsTree ==
    /\ activePane \in PanesOf(tree)
    /\ ~stale => shown = Drawn(tree, activePane, life)

(* store.js:5-9: one variable says which pane is active, so that there     *)
(* cannot be a border around one pane and typing that goes into another.   *)
(* The key bar, pasting, snippets and voice type into activeId.            *)
TypingFollowsBorder ==
    LET s == SessionIn(tree, activePane)
    IN  s \in Users /\ IsOpen(s) /\ leaving = {} => activeId = s
=============================================================================
