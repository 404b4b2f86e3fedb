--------------------------- MODULE TerminalScreen ---------------------------
(***************************************************************************)
(* One terminal of the page and the size its PTY is told.                  *)
(*                                                                         *)
(*   ws.js, e2e.js      what opening a connection resets; the flag of the  *)
(*                      scrollback's replay; the encrypted handshake       *)
(*   resize.js          fitAndResize, which skips a box it has fitted and  *)
(*                      a size it has told                                 *)
(*   settings-apply.js, touch.js, theme.js     changes of the font         *)
(*   panes.js, viewer, keybar                  changes of the box          *)
(*                                                                         *)
(* A size is a number of columns: box \div cell, for a box of some width   *)
(* and a font whose cell has some width.  Two connections of the session   *)
(* may live at one time (TerminalSockets shows how); their order of        *)
(* opening, closing and speaking is free.                                  *)
(*                                                                         *)
(* X_... are slips of X: what a plausible mistake would make of it.        *)
(***************************************************************************)
EXTENDS Integers

CONSTANTS Boxes,  \* widths the terminal's box may have, 0 before the layout
          Cells   \* widths of a font's cell

Conns == 1..2     \* bound: connections that are not closed

VARIABLES conn,       \* conn[n]: a connection
          ws,         \* the current one, 0 for none
          e2e,        \* E2E_ENABLED: the page was opened with ?e2e=1
          replaying,  \* _replayingScrollback
          xterm,      \* the terminal: columns and the width of a cell
          fitted,     \* _lastFitW, 0 for null
          told,       \* _lastCols, 0 for null
          due,        \* a call of fitAndResize is pending
          view,       \* the wrapper: whether it is shown, the width of its box
          pty,        \* the columns the PTY was told, 0 for none
          fitCell     \* history: the cell's width when fitAndResize last fitted

vars == <<conn, ws, e2e, replaying, xterm, fitted, told, due, view, pty, fitCell>>

Widths == {0} \cup {b \div c : b \in Boxes, c \in Cells}

(* ready: bytes can be sent, which with encryption takes a handshake;      *)
(* ended: the scrollback_end has come; guarded: the 5 s since it was made  *)
(* are over; spoiled: something was sent before the handshake's answer.    *)
Conn == [state : {"none", "connecting", "open"}, ready : BOOLEAN,
         ended : BOOLEAN, guarded : BOOLEAN, spoiled : BOOLEAN]
NoConn == [state |-> "none", ready |-> FALSE, ended |-> FALSE,
           guarded |-> FALSE, spoiled |-> FALSE]

TypeOK ==
    /\ conn \in [Conns -> Conn]
    /\ ws \in Conns \cup {0}
    /\ e2e \in BOOLEAN /\ due \in BOOLEAN /\ replaying \in BOOLEAN
    /\ xterm \in [cols : Widths, cell : Cells]
    /\ fitted \in Boxes \cup {0}
    /\ told \in Widths /\ pty \in Widths
    /\ view \in [shown : BOOLEAN, box : Boxes]
    /\ fitCell \in Cells

(* createXtermInstance: a wrapper that is not shown yet. *)
Init ==
    /\ conn = [n \in Conns |-> NoConn]
    /\ ws = 0
    /\ e2e \in BOOLEAN
    /\ replaying = FALSE
    /\ xterm \in [cols : {0}, cell : Cells]
    /\ fitted = 0 /\ told = 0 /\ pty = 0
    /\ due = FALSE
    /\ view \in [shown : {FALSE}, box : Boxes]
    /\ fitCell = xterm.cell

IsOpen(n) == n # 0 /\ conn[n].state = "open"

-----------------------------------------------------------------------------
(* sendResize to the current connection.  Before the handshake is over the *)
(* server takes the message for the handshake's answer and gives up.       *)
SendResize(cs, cols, known, size) ==
    IF ws = 0 \/ cs[ws].state # "open" \/ cols = known
    THEN conn' = cs /\ told' = known /\ pty' = size
    ELSE /\ told' = cols
         /\ pty' = IF e2e /\ ~cs[ws].ready THEN size ELSE cols
         /\ conn' = IF e2e /\ ~cs[ws].ready
                    THEN [cs EXCEPT ![ws].spoiled = TRUE] ELSE cs

(* fitAndResize, called with these connections, caches and this cell: a    *)
(* hidden wrapper, an empty box and a box fitted already are skipped.      *)
FitAndResize(cs, last, known, size, cell) ==
    IF ~view.shown \/ view.box = 0 \/ last = view.box
    THEN /\ fitted' = last /\ told' = known /\ conn' = cs /\ pty' = size
         /\ xterm' = [xterm EXCEPT !.cell = cell]
         /\ UNCHANGED fitCell
    ELSE /\ fitted' = view.box
         /\ fitCell' = cell
         /\ xterm' = [cols |-> view.box \div cell, cell |-> cell]
         /\ SendResize(cs, view.box \div cell, known, size)

-----------------------------------------------------------------------------
(* connectTerminalWs.  Without encryption the handle is there at once.     *)
Connect(n) ==
    /\ conn[n] = NoConn /\ \A m \in 1..(n - 1) : conn[m] # NoConn
    /\ conn' = [conn EXCEPT ![n].state = "connecting", ![n].ready = ~e2e]
    /\ ws' = n
    /\ UNCHANGED <<e2e, replaying, xterm, fitted, told, due, view, pty, fitCell>>

FittedAfterOpen_Kept == fitted

(* What onopen makes of _lastFitW. *)
FittedAfterOpen == 0

(* onopen.  If this is the only connection the server may have been        *)
(* restarted, and its PTY knows no size.                                   *)
OpenSocket(n) ==
    LET cs == [conn EXCEPT ![n].state = "open"]
    IN  /\ conn[n].state = "connecting"
        /\ replaying' = TRUE
        /\ \E size \in IF \E c \in Conns : IsOpen(c) THEN {pty} ELSE {pty, 0} :
             IF e2e
             THEN /\ conn' = cs /\ fitted' = FittedAfterOpen /\ told' = 0 /\ pty' = size
                  /\ UNCHANGED <<xterm, fitCell>>
             ELSE FitAndResize(cs, FittedAfterOpen, 0, size, xterm.cell)
        /\ UNCHANGED <<ws, e2e, due, view>>

(* wrapE2E: the server's hello, signed, with the key that is pinned, a     *)
(* first key, or a new one the user consents to.                           *)
HelloAccepted(n) ==
    /\ e2e /\ IsOpen(n) /\ ~conn[n].ready
    /\ FitAndResize([conn EXCEPT ![n].ready = TRUE], fitted, told, pty, xterm.cell)
    /\ UNCHANGED <<ws, e2e, replaying, due, view>>

(* No signature, a wrong one, or a key the user refuses: close. *)
HelloRefused(n) ==
    /\ e2e /\ IsOpen(n) /\ ~conn[n].ready
    /\ conn' = [conn EXCEPT ![n] = NoConn]
    /\ ws' = IF ws = n THEN 0 ELSE ws
    /\ UNCHANGED <<e2e, replaying, xterm, fitted, told, due, view, pty, fitCell>>

(* onclose, for whatever reason. *)
CloseSocket(n) ==
    /\ conn[n].state # "none"
    /\ conn' = [conn EXCEPT ![n] = NoConn]
    /\ ws' = IF ws = n THEN 0 ELSE ws
    /\ UNCHANGED <<e2e, replaying, xterm, fitted, told, due, view, pty, fitCell>>

EndReplay_AnySocket(n) == replaying' = FALSE

(* The flag is cleared for the connection that is the current one still.   *)
EndReplay(n) == replaying' = (replaying /\ ws # n)

ScrollbackEnd(n) ==
    /\ IsOpen(n) /\ conn[n].ready /\ ~conn[n].ended
    /\ conn' = [conn EXCEPT ![n].ended = TRUE]
    /\ EndReplay(n)
    /\ UNCHANGED <<ws, e2e, xterm, fitted, told, due, view, pty, fitCell>>

Guard(n) ==
    /\ conn[n].state # "none" /\ ~conn[n].guarded
    /\ conn' = [conn EXCEPT ![n].guarded = TRUE]
    /\ EndReplay(n)
    /\ UNCHANGED <<ws, e2e, xterm, fitted, told, due, view, pty, fitCell>>

-----------------------------------------------------------------------------
(* The window, the keyboard of a phone, the viewer's width, the key bar or *)
(* a neighbouring pane changes the box; whoever does it asks for a fit.    *)
Resize(box) ==
    /\ view.box # box
    /\ view' = [view EXCEPT !.box = box]
    /\ due' = TRUE
    /\ UNCHANGED <<conn, ws, e2e, replaying, xterm, fitted, told, pty, fitCell>>

(* switchTo and renderLayout show a pane and ask for a fit. *)
Show ==
    /\ ~view.shown
    /\ view' = [view EXCEPT !.shown = TRUE]
    /\ due' = TRUE
    /\ UNCHANGED <<conn, ws, e2e, replaying, xterm, fitted, told, pty, fitCell>>

Hide ==
    /\ view.shown
    /\ view' = [view EXCEPT !.shown = FALSE]
    /\ UNCHANGED <<conn, ws, e2e, replaying, xterm, fitted, told, due, pty, fitCell>>

FitDue ==
    /\ due
    /\ due' = FALSE
    /\ FitAndResize(conn, fitted, told, pty, xterm.cell)
    /\ UNCHANGED <<ws, e2e, replaying, view>>

(* applySettingsToTerminals: the font size of the settings. *)
SettingsFont(cell) ==
    /\ xterm.cell # cell
    /\ xterm' = [xterm EXCEPT !.cell = cell]
    /\ due' = TRUE
    /\ UNCHANGED <<conn, ws, e2e, replaying, fitted, told, view, pty, fitCell>>

(* _setGlobalFontSize, by pinching this terminal: the setting's subscriber *)
(* asks for a fit, the fitted box is forgotten, and the fit comes at once. *)
PinchFont(cell) ==
    /\ view.shown /\ xterm.cell # cell
    /\ due' = TRUE
    /\ FitAndResize(conn, 0, told, pty, cell)
    /\ UNCHANGED <<ws, e2e, replaying, view>>

(* The same for another terminal than the pinched one. *)
PinchElsewhere(cell) ==
    /\ xterm.cell # cell
    /\ xterm' = [xterm EXCEPT !.cell = cell]
    /\ fitted' = 0
    /\ due' = TRUE
    /\ UNCHANGED <<conn, ws, e2e, replaying, told, view, pty, fitCell>>

(* setVtSkin and fonts.ready: the addon's bare fit. *)
Refit(cell) ==
    /\ xterm' = [cols |-> IF view.shown /\ view.box # 0
                          THEN view.box \div cell ELSE xterm.cols,
                 cell |-> cell]
    /\ xterm' # xterm
    /\ UNCHANGED <<conn, ws, e2e, replaying, fitted, told, due, view, pty, fitCell>>

-----------------------------------------------------------------------------
Next ==
    \/ \E n \in Conns : \/ Connect(n)
                        \/ OpenSocket(n)
                        \/ HelloAccepted(n)
                        \/ HelloRefused(n)
                        \/ CloseSocket(n)
                        \/ ScrollbackEnd(n)
                        \/ Guard(n)
    \/ \E box \in Boxes : Resize(box)
    \/ Show
    \/ Hide
    \/ FitDue
    \/ \E cell \in Cells : \/ SettingsFont(cell)
                           \/ PinchFont(cell)
                           \/ PinchElsewhere(cell)
                           \/ Refit(cell)

Spec == Init /\ [][Next]_vars

-----------------------------------------------------------------------------
(* While the current connection may still be replaying the scrollback, the *)
(* flag says so: what another connection of the session does late does not *)
(* clear it, and old clipboard requests are not carried out again.         *)
ReplayFlagHonest ==
    ws # 0 /\ IsOpen(ws) /\ ~conn[ws].ended /\ ~conn[ws].guarded => replaying

(* resize.js:14: the PTY's size and the terminal's go together.  When the  *)
(* terminal is shown and connected and no fit is pending, the PTY has been *)
(* told the columns that fit the box.                                      *)
SizeTold ==
    /\ view.shown /\ view.box # 0 /\ ~due
    /\ IsOpen(ws) /\ conn[ws].ready /\ ~conn[ws].spoiled
    => pty = view.box \div xterm.cell

(* The same for as long as the font is the one fitAndResize measured with: *)
(* no order of reconnecting, resizing, hiding and pinching breaks it.      *)
SizeToldSameFont == xterm.cell = fitCell => SizeTold
=============================================================================
