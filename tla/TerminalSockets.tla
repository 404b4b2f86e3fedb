--------------------------- MODULE TerminalSockets ---------------------------
(***************************************************************************)
(* The WebSockets behind the tabs of the page (src/frontend/js/term).      *)
(*                                                                         *)
(*   ws.js            one chain of connections per session: connect, back  *)
(*                    off, reconnect; the closure of startSessionSocket    *)
(*                    keeps the retry counter and the stability timer      *)
(*   conn-overlay.js  the overlay over the whole page, its grace period    *)
(*                    and its button, which stops and restarts the retries *)
(*   session.js       opening, showing and closing a tab                   *)
(*                                                                         *)
(* A browser socket is connecting, open, closing or closed; that it opens, *)
(* fails, drops or is refused for good is the environment's choice.        *)
(* Closing a socket and its close event are two steps, as in the browser.  *)
(* Times are abstracted to whether a timer is pending.  What goes over an  *)
(* open socket is in TerminalScreen and PtyOutput.                         *)
(*                                                                         *)
(* X_... are slips of X: what a plausible mistake would make of it.        *)
(***************************************************************************)
EXTENDS Integers, FiniteSets

CONSTANTS Sessions,    \* sessions a page may open; an id is never used twice
          None,        \* no session
          MaxSockets,  \* bound: sockets and pending attempts at one time
          RetryCap     \* retries after which the delay grows no more (7 in ws.js)

VARIABLES rec,      \* rec[s]: the page's record of session s
          chain,    \* chain[s]: the closure of startSessionSocket
          sock,     \* sock[n]: a socket that is not closed; numbers are reused
          overlay,  \* the session the overlay on the page was made for
          grace,    \* the session whose disconnection started the grace period
          active    \* the session of the active tab

vars == <<rec, chain, sock, overlay, grace, active>>

SocketIds == 1..MaxSockets

-----------------------------------------------------------------------------
(* The state.  state "unused" is a session not opened yet, "gone" one whose*)
(* tab was closed; ws its socket, 0 when that is closed; wasActive: the    *)
(* server has yet to answer the closing of the tab, the active one then.   *)
(* timers counts the pending calls of connectTerminalWs, of which          *)
(* reconnTimer remembers at most one.  refused: one of its connections was *)
(* closed with a code after which no attempt is made.                      *)
Rec == [state : {"unused", "open", "gone"}, ws : 0..MaxSockets,
        stopped : BOOLEAN, wasActive : BOOLEAN]
Chain == [retries : 0..RetryCap, stable : BOOLEAN, timers : Nat,
          tracked : BOOLEAN, refused : BOOLEAN]
Sock == [of : Sessions \cup {None},
         state : {"none", "connecting", "open", "closing"}]

TypeOK ==
    /\ rec \in [Sessions -> Rec]
    /\ chain \in [Sessions -> Chain]
    /\ sock \in [SocketIds -> Sock]
    /\ overlay \in Sessions \cup {None}
    /\ grace \in Sessions \cup {None}
    /\ active \in Sessions \cup {None}

NoRec   == [state |-> "unused", ws |-> 0, stopped |-> FALSE, wasActive |-> FALSE]
NoChain == [retries |-> 0, stable |-> FALSE, timers |-> 0,
            tracked |-> FALSE, refused |-> FALSE]
NoSock  == [of |-> None, state |-> "none"]

Init ==
    /\ rec = [s \in Sessions |-> NoRec]
    /\ chain = [s \in Sessions |-> NoChain]
    /\ sock = [n \in SocketIds |-> NoSock]
    /\ overlay = None
    /\ grace = None
    /\ active = None

Open(s) == rec[s].state = "open"
Live(n) == sock[n].state # "none"
Sockets(s) == {n \in SocketIds : sock[n].of = s}
Connected(s) == rec[s].ws # 0 /\ sock[rec[s].ws].state = "open"

(* Bound: live sockets and pending timers of all sessions. *)
Room == Cardinality({n \in SocketIds : Live(n)})
            + Cardinality({p \in Sessions \X SocketIds : p[2] <= chain[p[1]].timers})
          < MaxSockets

-----------------------------------------------------------------------------
(* updateConnStatus.  While the active session is down the overlay comes   *)
(* after a grace period; in every other case the overlay and the grace     *)
(* period end, whichever session they are for.                             *)
DownInFront(s, up) == ~up /\ s = active

Status(s, up) ==
    /\ overlay' = IF DownInFront(s, up) THEN overlay ELSE None
    /\ grace' = IF ~DownInFront(s, up) THEN None
                ELSE IF overlay = None /\ grace = None THEN s ELSE grace

StoppedAfter(s, up) == DownInFront(s, up) /\ rec[s].stopped

(* connectTerminalWs, for a session whose record is r. *)
Connect(s, r) ==
    \E n \in SocketIds :
        /\ ~Live(n) /\ \A m \in 1..(n - 1) : Live(m)
        /\ sock' = [sock EXCEPT ![n] = [of |-> s, state |-> "connecting"]]
        /\ rec' = [rec EXCEPT ![s] = [r EXCEPT !.ws = n]]

-----------------------------------------------------------------------------
(* addSession: the first socket at once, then switchTo. *)
AddSession(s) ==
    /\ rec[s].state = "unused"
    /\ Room
    /\ Connect(s, [rec[s] EXCEPT !.state = "open"])
    /\ active' = s
    /\ UNCHANGED <<chain, overlay, grace>>

SwitchTo(s) ==
    /\ Open(s)
    /\ active # s
    /\ active' = s
    /\ UNCHANGED <<rec, chain, sock, overlay, grace>>

(* clearTimeout(s.reconnTimer): the one timer it remembers, if pending. *)
Untimed(c) == IF c.tracked THEN [c EXCEPT !.timers = @ - 1, !.tracked = FALSE] ELSE c

(* removeSession: only the current socket is closed.  The record goes at   *)
(* once; activeId keeps its value until the server has answered.           *)
RemoveSession(s) ==
    /\ Open(s)
    /\ chain' = [chain EXCEPT ![s] = Untimed(@)]
    /\ sock' = [n \in SocketIds |->
                   IF n = rec[s].ws THEN [sock[n] EXCEPT !.state = "closing"]
                                    ELSE sock[n]]
    /\ rec' = [rec EXCEPT ![s] = [NoRec EXCEPT !.state = "gone",
                                             !.wasActive = (s = active)]]
    /\ UNCHANGED <<overlay, grace, active>>

(* The server has answered.  If the session was active when its tab was    *)
(* closed another one is shown, whatever the user has chosen meanwhile.    *)
RemoveAnswered(s) ==
    /\ rec[s].wasActive
    /\ rec' = [rec EXCEPT ![s].wasActive = FALSE]
    /\ active' \in IF \E t \in Sessions : Open(t)
                   THEN {t \in Sessions : Open(t)} ELSE {None}
    /\ UNCHANGED <<chain, sock, overlay, grace>>

-----------------------------------------------------------------------------
ChainOpened_AtOnce(c) == [c EXCEPT !.retries = 0]

(* The retry counter is reset only by the stability timer. *)
ChainOpened(c) == [c EXCEPT !.stable = TRUE]

(* onopen.  On a socket that outlived its tab the handler raises after     *)
(* updateConnStatus: there is no record to write to.                       *)
OpenSocket(n) ==
    LET s == sock[n].of
    IN  /\ sock[n].state = "connecting"
        /\ sock' = [sock EXCEPT ![n].state = "open"]
        /\ Status(s, TRUE)
        /\ rec' = [rec EXCEPT ![s].stopped = StoppedAfter(s, TRUE)]
        /\ chain' = [chain EXCEPT ![s] = IF Open(s) THEN ChainOpened(@) ELSE @]
        /\ UNCHANGED active

(* onclose: the tab may be gone, the code may rule out another attempt,    *)
(* the user may have stopped the attempts; else a timer is set, and        *)
(* reconnTimer forgets the one it held.                                    *)
CloseSocket(n, refused) ==
    LET s == sock[n].of
        c == [chain[s] EXCEPT !.stable = FALSE]
        retried == [c EXCEPT !.retries = IF @ < RetryCap THEN @ + 1 ELSE @]
    IN  /\ Live(n)
        /\ refused => sock[n].state = "open"
        /\ sock' = [sock EXCEPT ![n] = NoSock]
        /\ IF Open(s)
           THEN /\ Status(s, FALSE)
                /\ rec' = [rec EXCEPT ![s] =
                       [rec[s] EXCEPT !.stopped = StoppedAfter(s, FALSE),
                                      !.ws = IF @ = n THEN 0 ELSE @]]
                /\ chain' = [chain EXCEPT ![s] =
                       IF refused THEN [c EXCEPT !.refused = TRUE]
                       ELSE IF StoppedAfter(s, FALSE) THEN retried
                       ELSE [retried EXCEPT !.timers = @ + 1, !.tracked = TRUE]]
           ELSE /\ chain' = [chain EXCEPT ![s] = c]
                /\ UNCHANGED <<rec, overlay, grace>>
        /\ UNCHANGED active

(* A pending call of connectTerminalWs, remembered or not, comes due. *)
TimerFires(s) ==
    /\ \/ chain[s].tracked /\ chain' = [chain EXCEPT ![s] = Untimed(@)]
       \/ /\ Untimed(chain[s]).timers > 0
          /\ chain' = [chain EXCEPT ![s].timers = @ - 1]
    /\ IF Open(s) THEN Connect(s, rec[s]) ELSE UNCHANGED <<rec, sock>>
    /\ UNCHANGED <<overlay, grace, active>>

(* The connection has lasted STABLE_MS. *)
Stable(s) ==
    /\ chain[s].stable
    /\ chain' = [chain EXCEPT ![s].stable = FALSE, ![s].retries = 0]
    /\ UNCHANGED <<rec, sock, overlay, grace, active>>

-----------------------------------------------------------------------------
(* CONN_OVERLAY_GRACE_MS are over. *)
GraceEnds ==
    /\ grace # None
    /\ overlay' = IF overlay # None \/ ~Open(grace) \/ Connected(grace)
                  THEN overlay ELSE grace
    /\ grace' = None
    /\ UNCHANGED <<rec, chain, sock, active>>

(* _toggleReconnectStop, for the session the overlay was made for. *)
StopRetries ==
    /\ overlay # None /\ Open(overlay)
    /\ ~rec[overlay].stopped
    /\ rec' = [rec EXCEPT ![overlay].stopped = TRUE]
    /\ chain' = [chain EXCEPT ![overlay] = Untimed(@)]
    /\ UNCHANGED <<sock, overlay, grace, active>>

(* A slip: the button clears the flag and leaves the rest to the timer. *)
ReconnectNow_LeftToTimer ==
    /\ overlay # None /\ Open(overlay)
    /\ rec[overlay].stopped
    /\ rec' = [rec EXCEPT ![overlay].stopped = FALSE]
    /\ UNCHANGED <<chain, sock, overlay, grace, active>>

ReconnectNow ==
    /\ overlay # None /\ Open(overlay)
    /\ rec[overlay].stopped
    /\ Room
    /\ Connect(overlay, [rec[overlay] EXCEPT !.stopped = FALSE])
    /\ UNCHANGED <<chain, overlay, grace, active>>

-----------------------------------------------------------------------------
Next ==
    \/ \E s \in Sessions : \/ AddSession(s)
                           \/ SwitchTo(s)
                           \/ RemoveSession(s)
                           \/ RemoveAnswered(s)
                           \/ TimerFires(s)
                           \/ Stable(s)
    \/ \E n \in SocketIds : \/ OpenSocket(n)
                            \/ \E refused \in BOOLEAN : CloseSocket(n, refused)
    \/ GraceEnds
    \/ StopRetries
    \/ ReconnectNow

Spec == Init /\ [][Next]_vars

-----------------------------------------------------------------------------
(* An open session that lost its last socket has an attempt to connect     *)
(* pending, unless the server refused it for good or the user stopped the  *)
(* attempts: no order of closes, stops, restarts and tab changes leaves it *)
(* disconnected with nobody to notice.                                     *)
WillReconnect ==
    \A s \in Sessions :
        Open(s) /\ Sockets(s) = {} =>
            chain[s].timers > 0 \/ rec[s].stopped \/ chain[s].refused

(* The back-off grows until a connection has lasted: the retry counter is  *)
(* only reset while a connection that had opened before is still there.    *)
(* Resetting it on every open was the reconnection storm that the comment  *)
(* at the head of ws.js describes.                                         *)
KeepsBackoff ==
    \A s \in Sessions : chain'[s].retries < chain[s].retries =>
        \E n \in Sockets(s) : sock[n].state \in {"open", "closing"}
BackoffHonest == [][KeepsBackoff]_vars

(* conn-overlay.js:32: the user can stop the attempts, and the same button *)
(* reconnects at once.  So a session in front whose attempts were stopped, *)
(* and which nothing else will connect, has that button on the page.       *)
StopHasWayBack ==
    \A s \in Sessions :
        Open(s) /\ s = active /\ rec[s].stopped
            /\ Sockets(s) = {} /\ chain[s].timers = 0 =>
            overlay = s
=============================================================================
