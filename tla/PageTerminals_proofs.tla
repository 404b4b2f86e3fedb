-------------------------- MODULE PageTerminals_proofs --------------------------
(***************************************************************************)
(* What holds of the connections of the terminals of the page, of the size *)
(* their PTYs are told, of the tabs and how they are opened, and of how    *)
(* the layout comes back, for any number of sessions, sockets and tabs,    *)
(* any widths and any fonts; and the types of their state.                 *)
(***************************************************************************)
EXTENDS MCPage, SequenceTheorems, FiniteSetTheorems, FunctionTheorems, TLAPS

(* A step of the page is one of the part it is about, which stays.         *)
LEMMA TerminalPartSteps ==
    ASSUME [PageNext]_pageVars
    PROVE  /\ part' = part
           /\ part = "sockets" => [Sockets!Next]_<<v1, v2, v3, v4, v5, v6>>
           /\ part = "screen" =>
                 [Screen!Next]_<<v1, v2, v3, v4, v5, v6, v7, v8, v9, v10, v11>>
           /\ part = "sessions" => [Boot!SessionsNext]_<<v1, v2, v3, v4, v5, v6, v7, v8, v9>>
           /\ part = "persist" => [Persist!PersistNext]_<<v1, v2, v3, v4, v5, v6, v7, v8, v9>>
<1>1. CASE UNCHANGED pageVars
    BY <1>1 DEF pageVars
<1>2. CASE PageNext
    BY <1>2 DEF PageNext
<1> QED
    BY <1>1, <1>2

-----------------------------------------------------------------------------
(* The sockets: v1 is rec, v2 chain, v3 sock, v4 overlay, v5 grace, v6     *)
(* active.                                                                 *)
Records == [Sessions -> [state : {"unused", "open", "gone"}, ws : 0..MaxSockets,
                         stopped : BOOLEAN, wasActive : BOOLEAN]]
Chain == [retries : Nat, stable : BOOLEAN, timers : Nat, tracked : BOOLEAN,
          refused : BOOLEAN]
Sock == [of : Sessions \cup {None}, state : {"none", "connecting", "open", "closing"}]

(* A socket that was open.                                                 *)
Opened(n) == v3[n].state \in {"open", "closing"}

(* The stability timer and the timer the page remembers have what they are *)
(* for, and an open session that lost its last socket is waited for.       *)
SessionFine(s) ==
    /\ v2[s].stable => \E n \in Sockets!SocketIds : v3[n].of = s /\ Opened(n)
    /\ v2[s].tracked => v2[s].timers > 0
    /\ v1[s].state = "open" =>
          \/ \E n \in Sockets!SocketIds : v3[n].of = s
          \/ v2[s].timers > 0 \/ v1[s].stopped \/ v2[s].refused

(* So it is with every session; a number without a socket is nobody's.     *)
SocketsInv ==
    /\ v1 \in Records /\ v2 \in [Sessions -> Chain] /\ v3 \in [Sockets!SocketIds -> Sock]
    /\ \A n \in Sockets!SocketIds : v3[n].state = "none" => v3[n].of = None
    /\ \A s \in Sessions : SessionFine(s)

(* Clearing the timer the page remembers leaves the others.                *)
LEMMA UntimedFits ==
    ASSUME NEW c \in Chain, c.tracked => c.timers > 0
    PROVE  LET u == Sockets!Untimed(c) IN
           /\ u \in Chain /\ ~u.tracked
           /\ u.retries = c.retries /\ u.stable = c.stable /\ u.refused = c.refused
           /\ u.timers = c.timers \/ u.timers = c.timers - 1
<1>1. CASE c.tracked
    <2>1. /\ c.timers - 1 \in Nat
          /\ Sockets!Untimed(c) = [c EXCEPT !.timers = c.timers - 1, !.tracked = FALSE]
        BY <1>1 DEF Sockets!Untimed, Chain
    <2> QED
        BY <2>1 DEF Chain
<1>2. CASE ~c.tracked
    BY <1>2 DEF Sockets!Untimed
<1> QED
    BY <1>1, <1>2

(* A socket takes a number nobody uses: the others keep theirs.            *)
LEMMA ConnectFits ==
    ASSUME SocketsInv, NEW s \in Sessions,
           NEW r \in [state : {"unused", "open", "gone"}, ws : 0..MaxSockets,
                      stopped : BOOLEAN, wasActive : BOOLEAN],
           Sockets!Connect(s, r)
    PROVE  /\ v1' \in Records /\ v3' \in [Sockets!SocketIds -> Sock]
           /\ \A t \in Sessions : t # s => v1'[t] = v1[t]
           /\ \A n \in Sockets!SocketIds : v3'[n].state = "none" => v3'[n].of = None
           /\ \E n \in Sockets!SocketIds : v3'[n].of = s
           /\ \A n \in Sockets!SocketIds : v3[n].of \in Sessions => v3'[n] = v3[n]
           /\ \A n \in Sockets!SocketIds : v3'[n].of = s \/ v3'[n] = v3[n]
<1>1. PICK n \in Sockets!SocketIds :
         /\ v3[n].state = "none"
         /\ v3' = [v3 EXCEPT ![n] = [of |-> s, state |-> "connecting"]]
         /\ v1' = [v1 EXCEPT ![s] = [r EXCEPT !.ws = n]]
    BY DEF Sockets!Connect, Sockets!Live
<1> DEFINE k == [of |-> s, state |-> "connecting"]
           q == [r EXCEPT !.ws = n]
<1>2. k \in Sock /\ k.of = s /\ k.state = "connecting"
    BY DEF Sock
<1>3. q \in [state : {"unused", "open", "gone"}, ws : 0..MaxSockets,
             stopped : BOOLEAN, wasActive : BOOLEAN]
    BY PageAssumption DEF Sockets!SocketIds
<1>4. v3' = [v3 EXCEPT ![n] = k] /\ v1' = [v1 EXCEPT ![s] = q]
    BY <1>1
<1> HIDE DEF k, q
<1>5. /\ v3' \in [Sockets!SocketIds -> Sock] /\ v3'[n] = k
      /\ \A m \in Sockets!SocketIds : m # n => v3'[m] = v3[m]
    BY <1>2, <1>4 DEF SocketsInv
<1>6. v1' \in Records /\ \A t \in Sessions : t # s => v1'[t] = v1[t]
    BY <1>3, <1>4 DEF SocketsInv, Records
<1>7. v3[n].of = None
    BY <1>1 DEF SocketsInv
<1> QED
    BY <1>2, <1>5, <1>6, <1>7, PageAssumption DEF SocketsInv

(* A session that nobody touched, and whose sockets are there still, is as *)
(* fine as it was.                                                         *)
LEMMA LeftAlone ==
    ASSUME NEW t, SessionFine(t),
           v1'[t].state = "open" => v1[t].state = "open",
           v1[t].stopped => v1'[t].stopped, v2'[t] = v2[t],
           \A n \in Sockets!SocketIds :
               v3[n].of = t => v3'[n].of = t /\ (Opened(n) => Opened(n)')
    PROVE  SessionFine(t)'
BY DEF SessionFine

(* A new socket leaves every session fine.                                 *)
LEMMA ConnectKeeps ==
    ASSUME SocketsInv, NEW s \in Sessions,
           NEW r \in [state : {"unused", "open", "gone"}, ws : 0..MaxSockets,
                      stopped : BOOLEAN, wasActive : BOOLEAN],
           Sockets!Connect(s, r), v2' \in [Sessions -> Chain],
           \A t \in Sessions : t # s => v2'[t] = v2[t],
           v2'[s].stable => v2[s].stable, v2'[s].tracked => v2'[s].timers > 0
    PROVE  SocketsInv'
<1>1. /\ v1' \in Records /\ v3' \in [Sockets!SocketIds -> Sock]
      /\ \A t \in Sessions : t # s => v1'[t] = v1[t]
      /\ \A n \in Sockets!SocketIds : v3'[n].state = "none" => v3'[n].of = None
      /\ \E n \in Sockets!SocketIds : v3'[n].of = s
      /\ \A n \in Sockets!SocketIds : v3[n].of \in Sessions => v3'[n] = v3[n]
    BY ConnectFits
<1>2. ASSUME NEW t \in Sessions, t # s PROVE SessionFine(t)'
    BY <1>1, <1>2, LeftAlone DEF SocketsInv, Opened
<1>3. SessionFine(s)'
    <2>1. v2'[s].stable => \E n \in Sockets!SocketIds : v3'[n].of = s /\ Opened(n)'
        BY <1>1 DEF SocketsInv, SessionFine, Opened
    <2> QED
        BY <1>1, <2>1 DEF SessionFine
<1> QED
    BY <1>1, <1>2, <1>3 DEF SocketsInv

(* A tab is opened, with its first socket.                                 *)
LEMMA AddSessionKeeps ==
    ASSUME SocketsInv, NEW s \in Sessions, Sockets!AddSession(s)
    PROVE  SocketsInv'
<1> DEFINE r == [v1[s] EXCEPT !.state = "open"]
<1>1. Sockets!Connect(s, r) /\ v2' = v2
    BY DEF Sockets!AddSession
<1>2. r \in [state : {"unused", "open", "gone"}, ws : 0..MaxSockets,
             stopped : BOOLEAN, wasActive : BOOLEAN]
    BY DEF SocketsInv, Records
<1> HIDE DEF r
<1> QED
    BY <1>1, <1>2, ConnectKeeps DEF SocketsInv, SessionFine

(* A tab is closed: its current socket, if any, is closing.                *)
LEMMA RemoveSessionKeeps ==
    ASSUME SocketsInv, NEW s \in Sessions, Sockets!RemoveSession(s)
    PROVE  SocketsInv'
<1> DEFINE inFront == s = v6
           r == [Sockets!NoRec EXCEPT !.state = "gone", !.wasActive = inFront]
           c == Sockets!Untimed(v2[s])
           closed(n) == [v3[n] EXCEPT !.state = "closing"]
<1>1. /\ v1' = [v1 EXCEPT ![s] = r] /\ v2' = [v2 EXCEPT ![s] = c]
      /\ v3' = [n \in Sockets!SocketIds |-> IF n = v1[s].ws THEN closed(n) ELSE v3[n]]
    BY DEF Sockets!RemoveSession
<1>2. /\ r \in [state : {"unused", "open", "gone"}, ws : 0..MaxSockets,
                stopped : BOOLEAN, wasActive : BOOLEAN]
      /\ r.state = "gone"
    <2>1. inFront \in BOOLEAN /\ 0 \in 0..MaxSockets
        BY PageAssumption
    <2> HIDE DEF inFront
    <2> QED
        BY <2>1 DEF Sockets!NoRec
<1>3. \A n \in Sockets!SocketIds :
         closed(n) \in Sock /\ closed(n).of = v3[n].of /\ closed(n).state = "closing"
    BY DEF SocketsInv, Sock
<1>4. /\ c \in Chain /\ ~c.tracked /\ c.stable = v2[s].stable
    BY UntimedFits DEF SocketsInv, SessionFine
<1> HIDE DEF r, c, closed
<1>5. v3' \in [Sockets!SocketIds -> Sock]
      /\ \A n \in Sockets!SocketIds :
            /\ v3'[n].state = "none" => v3[n].state = "none"
            /\ v3'[n].of = v3[n].of /\ (Opened(n) => Opened(n)')
    BY <1>1, <1>3 DEF SocketsInv, Opened
<1>6. /\ v1' \in Records /\ v2' \in [Sessions -> Chain]
      /\ v1'[s] = r /\ v2'[s] = c
      /\ \A t \in Sessions : t # s => v1'[t] = v1[t] /\ v2'[t] = v2[t]
    BY <1>1, <1>2, <1>4 DEF SocketsInv, Records
<1>7. ASSUME NEW t \in Sessions PROVE SessionFine(t)'
    <2>1. CASE t # s
        BY <1>5, <1>6, <2>1, LeftAlone DEF SocketsInv
    <2>2. CASE t = s
        BY <1>2, <1>4, <1>5, <1>6, <2>2 DEF SocketsInv, SessionFine
    <2> QED
        BY <2>1, <2>2
<1> QED
    BY <1>5, <1>6, <1>7 DEF SocketsInv

(* A socket opens: the attempts are not stopped any more, for there is a   *)
(* socket.                                                                 *)
LEMMA OpenSocketKeeps ==
    ASSUME SocketsInv, NEW n \in Sockets!SocketIds, Sockets!OpenSocket(n)
    PROVE  SocketsInv'
<1> DEFINE s == v3[n].of
           k == [v3[n] EXCEPT !.state = "open"]
           r == [v1[s] EXCEPT !.stopped = Sockets!StoppedAfter(s, TRUE)]
           c == IF Sockets!Open(s) THEN Sockets!ChainOpened(v2[s]) ELSE v2[s]
<1>1. /\ v3[n].state = "connecting" /\ v3' = [v3 EXCEPT ![n] = k]
      /\ v1' = [v1 EXCEPT ![s] = r] /\ v2' = [v2 EXCEPT ![s] = c]
    BY DEF Sockets!OpenSocket
<1>2. k \in Sock /\ k.of = s /\ k.state = "open"
    BY DEF SocketsInv, Sock
<1>3. ASSUME s \in Sessions
      PROVE  /\ r \in [state : {"unused", "open", "gone"}, ws : 0..MaxSockets,
                       stopped : BOOLEAN, wasActive : BOOLEAN]
             /\ c \in Chain /\ c.tracked = v2[s].tracked /\ c.timers = v2[s].timers
    <2> DEFINE stops == Sockets!StoppedAfter(s, TRUE)
    <2>1. /\ v1[s] \in [state : {"unused", "open", "gone"}, ws : 0..MaxSockets,
                        stopped : BOOLEAN, wasActive : BOOLEAN]
          /\ v2[s] \in Chain
        BY <1>3 DEF SocketsInv, Records
    <2>2. stops \in BOOLEAN
        BY DEF Sockets!StoppedAfter, Sockets!DownInFront
    <2> HIDE DEF stops
    <2>3. r \in [state : {"unused", "open", "gone"}, ws : 0..MaxSockets,
                 stopped : BOOLEAN, wasActive : BOOLEAN]
        BY <2>1, <2>2 DEF stops
    <2>4. /\ Sockets!ChainOpened(v2[s]) \in Chain
          /\ Sockets!ChainOpened(v2[s]).tracked = v2[s].tracked
          /\ Sockets!ChainOpened(v2[s]).timers = v2[s].timers
        BY <2>1 DEF Chain, Sockets!ChainOpened
    <2>5. /\ c \in Chain /\ c.tracked = v2[s].tracked /\ c.timers = v2[s].timers
        BY <2>1, <2>4
    <2> QED
        BY <2>3, <2>5
<1> HIDE DEF k, r, c
<1>4. /\ v3' \in [Sockets!SocketIds -> Sock] /\ v3'[n] = k
      /\ \A m \in Sockets!SocketIds : m # n => v3'[m] = v3[m]
    BY <1>1, <1>2 DEF SocketsInv
<1>5. /\ v1' \in Records /\ v2' \in [Sessions -> Chain]
      /\ s \in Sessions => v1'[s] = r /\ v2'[s] = c
      /\ \A t \in Sessions : t # s => v1'[t] = v1[t] /\ v2'[t] = v2[t]
    BY <1>1, <1>3 DEF SocketsInv, Records
<1>6. ASSUME NEW t \in Sessions PROVE SessionFine(t)'
    <2>1. CASE t # s
        BY <1>2, <1>4, <1>5, <2>1, LeftAlone DEF SocketsInv, Opened
    <2>2. CASE t = s
        BY <1>2, <1>3, <1>4, <1>5, <2>2 DEF SocketsInv, SessionFine, Opened
    <2> QED
        BY <2>1, <2>2
<1> QED
    BY <1>2, <1>4, <1>5, <1>6 DEF SocketsInv

(* A socket is gone: an open session is refused, stopped or waits for a    *)
(* timer.                                                                  *)
LEMMA CloseSocketKeeps ==
    ASSUME SocketsInv, NEW n \in Sockets!SocketIds, NEW refused \in BOOLEAN,
           Sockets!CloseSocket(n, refused)
    PROVE  SocketsInv'
<1> DEFINE s == v3[n].of
           stops == Sockets!StoppedAfter(s, FALSE)
           c == [v2[s] EXCEPT !.stable = FALSE]
           more == IF c.retries < RetryCap THEN c.retries + 1 ELSE c.retries
           retried == [c EXCEPT !.retries = more]
           next == IF refused THEN [c EXCEPT !.refused = TRUE]
                   ELSE IF stops THEN retried
                   ELSE [retried EXCEPT !.timers = @ + 1, !.tracked = TRUE]
           ws == IF v1[s].ws = n THEN 0 ELSE v1[s].ws
           r == [v1[s] EXCEPT !.stopped = stops, !.ws = ws]
<1>1. /\ v3[n].state # "none" /\ v3' = [v3 EXCEPT ![n] = Sockets!NoSock]
    BY DEF Sockets!CloseSocket, Sockets!Live
<1>2. Sockets!NoSock \in Sock /\ Sockets!NoSock.of = None
    BY DEF Sockets!NoSock, Sock
<1>3. /\ v3' \in [Sockets!SocketIds -> Sock] /\ v3'[n] = Sockets!NoSock
      /\ \A m \in Sockets!SocketIds : m # n => v3'[m] = v3[m]
    BY <1>1, <1>2 DEF SocketsInv
<1>4. stops \in BOOLEAN
    BY DEF Sockets!StoppedAfter, Sockets!DownInFront, SocketsInv
<1> HIDE DEF stops
<1>5. ASSUME s \in Sessions
      PROVE  /\ r \in [state : {"unused", "open", "gone"}, ws : 0..MaxSockets,
                       stopped : BOOLEAN, wasActive : BOOLEAN]
             /\ r.stopped = stops
    <2>1. v1[s] \in [state : {"unused", "open", "gone"}, ws : 0..MaxSockets,
                     stopped : BOOLEAN, wasActive : BOOLEAN]
        BY <1>5 DEF SocketsInv, Records
    <2>2. ws \in 0..MaxSockets
        BY <2>1, PageAssumption
    <2> HIDE DEF ws
    <2> QED
        BY <1>4, <2>1, <2>2
<1>6. ASSUME s \in Sessions PROVE c \in Chain /\ ~c.stable
    BY <1>6 DEF SocketsInv, Chain
<1>7. ASSUME s \in Sessions PROVE retried \in Chain /\ ~retried.stable
    <2>1. more \in Nat
        BY <1>6, <1>7 DEF Chain
    <2> HIDE DEF more, c
    <2> QED
        BY <1>6, <1>7, <2>1 DEF Chain
<1>8. ASSUME s \in Sessions
      PROVE  /\ next \in Chain /\ ~next.stable
             /\ next.refused \/ stops \/ next.timers > 0
             /\ next.tracked => next.timers > 0
    <2>1. c.tracked = v2[s].tracked /\ c.timers = v2[s].timers
        BY <1>8 DEF SocketsInv, Chain
    <2>2. retried.tracked = v2[s].tracked /\ retried.timers = v2[s].timers
        BY <1>8, <2>1 DEF SocketsInv, Chain
    <2>3. v2[s].tracked => v2[s].timers > 0
        BY <1>8 DEF SocketsInv, SessionFine
    <2>4. c \in Chain /\ retried \in Chain /\ ~c.stable /\ ~retried.stable
        BY <1>6, <1>7, <1>8
    <2> DEFINE later == [retried EXCEPT !.timers = retried.timers + 1, !.tracked = TRUE]
               never == [c EXCEPT !.refused = TRUE]
    <2>5. next = IF refused THEN never ELSE IF stops THEN retried ELSE later
        OBVIOUS
    <2> HIDE DEF c, retried
    <2>6. later \in Chain /\ ~later.stable /\ later.timers > 0
        <3> DEFINE k == retried.timers + 1
        <3>1. k \in Nat /\ k > 0
            BY <2>4 DEF Chain
        <3>2. later = [retried EXCEPT !.timers = k, !.tracked = TRUE]
            OBVIOUS
        <3> HIDE DEF k, later
        <3> QED
            BY <2>4, <3>1, <3>2 DEF Chain
    <2>7. /\ never \in Chain /\ ~never.stable /\ never.refused
          /\ never.tracked = c.tracked /\ never.timers = c.timers
        BY <2>4 DEF Chain
    <2> HIDE DEF later, never, next
    <2> QED
        BY <2>1, <2>2, <2>3, <2>4, <2>5, <2>6, <2>7
<1>9. CASE v1[s].state = "open"
    <2>1. v1' = [v1 EXCEPT ![s] = r] /\ v2' = [v2 EXCEPT ![s] = next]
        BY <1>9 DEF Sockets!CloseSocket, Sockets!Open, stops
    <2> HIDE DEF r, next
    <2>2. /\ v1' \in Records /\ v2' \in [Sessions -> Chain]
          /\ s \in Sessions => v1'[s] = r /\ v2'[s] = next
          /\ \A t \in Sessions : t # s => v1'[t] = v1[t] /\ v2'[t] = v2[t]
        BY <1>5, <1>8, <2>1 DEF SocketsInv, Records
    <2>3. ASSUME NEW t \in Sessions PROVE SessionFine(t)'
        <3>1. CASE t # s
            BY <1>3, <2>2, <3>1, LeftAlone DEF SocketsInv, Opened
        <3>2. CASE t = s
            BY <1>5, <1>8, <2>2, <3>2 DEF SessionFine
        <3> QED
            BY <3>1, <3>2
    <2> QED
        BY <1>2, <1>3, <2>2, <2>3 DEF SocketsInv
<1>10. CASE v1[s].state # "open"
    <2>1. v1' = v1 /\ v2' = [v2 EXCEPT ![s] = c]
        BY <1>10 DEF Sockets!CloseSocket, Sockets!Open
    <2>2. s \in Sessions => c.tracked = v2[s].tracked /\ c.timers = v2[s].timers
        BY DEF SocketsInv, Chain
    <2> HIDE DEF c
    <2>3. /\ v2' \in [Sessions -> Chain]
          /\ s \in Sessions => v2'[s] = c
          /\ \A t \in Sessions : t # s => v2'[t] = v2[t]
        BY <1>6, <2>1 DEF SocketsInv
    <2>4. ASSUME NEW t \in Sessions PROVE SessionFine(t)'
        <3>1. CASE t # s
            BY <1>3, <2>1, <2>3, <3>1, LeftAlone DEF SocketsInv, Opened
        <3>2. CASE t = s
            BY <1>6, <1>10, <2>1, <2>2, <2>3, <3>2 DEF SessionFine, SocketsInv
        <3> QED
            BY <3>1, <3>2
    <2> QED
        BY <1>2, <1>3, <2>1, <2>3, <2>4 DEF SocketsInv
<1> QED
    BY <1>9, <1>10

(* A timer comes due: an open session gets a socket for it.                *)
LEMMA TimerFiresKeeps ==
    ASSUME SocketsInv, NEW s \in Sessions, Sockets!TimerFires(s)
    PROVE  SocketsInv'
<1> DEFINE u == Sockets!Untimed(v2[s])
           c == [v2[s] EXCEPT !.timers = v2[s].timers - 1]
<1>1. /\ u \in Chain /\ ~u.tracked /\ u.stable = v2[s].stable
      /\ u.timers = v2[s].timers \/ u.timers = v2[s].timers - 1
    BY UntimedFits DEF SocketsInv, SessionFine
<1>2. v2[s] \in Chain /\ (v2[s].tracked => v2[s].timers > 0)
    BY DEF SocketsInv, SessionFine
<1>3. ASSUME u.timers > 0
      PROVE  c \in Chain /\ (c.tracked => c.timers > 0) /\ c.stable = v2[s].stable
    <2>1. v2[s].tracked => u.timers = v2[s].timers - 1
        BY <1>2 DEF Sockets!Untimed, Chain
    <2> HIDE DEF u
    <2> DEFINE k == v2[s].timers - 1
    <2>2. k \in Nat /\ (v2[s].tracked => k > 0)
        BY <1>1, <1>2, <1>3, <2>1 DEF Chain
    <2>3. c = [v2[s] EXCEPT !.timers = k]
        OBVIOUS
    <2> HIDE DEF k, c
    <2>4. /\ c \in Chain /\ c.timers = k
          /\ c.tracked = v2[s].tracked /\ c.stable = v2[s].stable
        BY <1>2, <2>2, <2>3 DEF Chain
    <2> QED
        BY <2>2, <2>4
<1>4. PICK d \in Chain : /\ v2' = [v2 EXCEPT ![s] = d]
                         /\ d.tracked => d.timers > 0
                         /\ d.stable = v2[s].stable
    <2>1. CASE v2' = [v2 EXCEPT ![s] = u]
        BY <1>1, <2>1
    <2>2. CASE u.timers > 0 /\ v2' = [v2 EXCEPT ![s] = c]
        BY <1>3, <2>2
    <2> QED
        BY <2>1, <2>2 DEF Sockets!TimerFires
<1>5. v2' \in [Sessions -> Chain] /\ v2'[s] = d
      /\ \A t \in Sessions : t # s => v2'[t] = v2[t]
    BY <1>4 DEF SocketsInv
<1>6. CASE v1[s].state = "open"
    <2>1. Sockets!Connect(s, v1[s])
        BY <1>6 DEF Sockets!TimerFires, Sockets!Open
    <2> QED
        BY <1>4, <1>5, <2>1, ConnectKeeps DEF SocketsInv, Records
<1>7. CASE v1[s].state # "open"
    <2>1. v1' = v1 /\ v3' = v3
        BY <1>7 DEF Sockets!TimerFires, Sockets!Open
    <2>2. ASSUME NEW t \in Sessions PROVE SessionFine(t)'
        <3>1. CASE t # s
            BY <1>5, <2>1, <3>1, LeftAlone DEF SocketsInv, Opened
        <3>2. CASE t = s
            BY <1>4, <1>5, <1>7, <2>1, <3>2 DEF SocketsInv, SessionFine, Opened
        <3> QED
            BY <3>1, <3>2
    <2> QED
        BY <1>5, <2>1, <2>2 DEF SocketsInv
<1> QED
    BY <1>6, <1>7

(* The connection has lasted: the counter is reset.                        *)
LEMMA StableKeeps ==
    ASSUME SocketsInv, NEW s \in Sessions, Sockets!Stable(s)
    PROVE  SocketsInv'
<1> DEFINE c == [v2[s] EXCEPT !.stable = FALSE, !.retries = 0]
<1>1. v2' = [v2 EXCEPT ![s] = c] /\ v1' = v1 /\ v3' = v3
    BY DEF Sockets!Stable, SocketsInv
<1>2. /\ c \in Chain /\ ~c.stable /\ c.tracked = v2[s].tracked
      /\ c.timers = v2[s].timers /\ c.refused = v2[s].refused
    BY DEF SocketsInv, Chain
<1> HIDE DEF c
<1>3. v2' \in [Sessions -> Chain] /\ v2'[s] = c
      /\ \A t \in Sessions : t # s => v2'[t] = v2[t]
    BY <1>1, <1>2 DEF SocketsInv
<1>4. ASSUME NEW t \in Sessions PROVE SessionFine(t)'
    <2>1. CASE t # s
        BY <1>1, <1>3, <2>1, LeftAlone DEF SocketsInv, Opened
    <2>2. CASE t = s
        BY <1>1, <1>2, <1>3, <2>2 DEF SocketsInv, SessionFine
    <2> QED
        BY <2>1, <2>2
<1> QED
    BY <1>1, <1>3, <1>4 DEF SocketsInv

(* The server has answered the closing of the active tab.                  *)
LEMMA RemoveAnsweredKeeps ==
    ASSUME SocketsInv, NEW s \in Sessions, Sockets!RemoveAnswered(s)
    PROVE  SocketsInv'
<1> DEFINE r == [v1[s] EXCEPT !.wasActive = FALSE]
<1>1. v1' = [v1 EXCEPT ![s] = r] /\ v2' = v2 /\ v3' = v3
    BY DEF Sockets!RemoveAnswered
<1>2. /\ r \in [state : {"unused", "open", "gone"}, ws : 0..MaxSockets,
                stopped : BOOLEAN, wasActive : BOOLEAN]
      /\ r.state = v1[s].state /\ r.stopped = v1[s].stopped
    BY DEF SocketsInv, Records
<1> HIDE DEF r
<1>3. v1' \in Records
      /\ \A t \in Sessions : v1'[t].state = v1[t].state /\ v1'[t].stopped = v1[t].stopped
    BY <1>1, <1>2 DEF SocketsInv, Records
<1>4. ASSUME NEW t \in Sessions PROVE SessionFine(t)'
    BY <1>1, <1>3, LeftAlone DEF SocketsInv, Opened
<1> QED
    BY <1>1, <1>3, <1>4 DEF SocketsInv

(* The user stops the attempts: so says the record, and the timer the page *)
(* remembers is cleared.                                                   *)
LEMMA StopRetriesKeeps ==
    ASSUME SocketsInv, Sockets!StopRetries
    PROVE  SocketsInv'
<1> DEFINE s == v4
           r == [v1[s] EXCEPT !.stopped = TRUE]
           c == Sockets!Untimed(v2[s])
<1>1. v1' = [v1 EXCEPT ![s] = r] /\ v2' = [v2 EXCEPT ![s] = c] /\ v3' = v3
    BY DEF Sockets!StopRetries
<1>2. ASSUME s \in Sessions
      PROVE  /\ r \in [state : {"unused", "open", "gone"}, ws : 0..MaxSockets,
                       stopped : BOOLEAN, wasActive : BOOLEAN]
             /\ r.stopped
             /\ c \in Chain /\ ~c.tracked /\ c.stable = v2[s].stable
    <2>1. c \in Chain /\ ~c.tracked /\ c.stable = v2[s].stable
        BY <1>2, UntimedFits DEF SocketsInv, SessionFine
    <2> HIDE DEF c
    <2> QED
        BY <1>2, <2>1 DEF SocketsInv, Records
<1> HIDE DEF r, c
<1>3. /\ v1' \in Records /\ v2' \in [Sessions -> Chain]
      /\ s \in Sessions => v1'[s] = r /\ v2'[s] = c
      /\ \A t \in Sessions : t # s => v1'[t] = v1[t] /\ v2'[t] = v2[t]
    BY <1>1, <1>2 DEF SocketsInv, Records
<1>4. ASSUME NEW t \in Sessions PROVE SessionFine(t)'
    <2>1. CASE t # s
        BY <1>1, <1>3, <2>1, LeftAlone DEF SocketsInv, Opened
    <2>2. CASE t = s
        BY <1>1, <1>2, <1>3, <2>2 DEF SocketsInv, SessionFine, Opened
    <2> QED
        BY <2>1, <2>2
<1> QED
    BY <1>1, <1>3, <1>4 DEF SocketsInv

(* The user starts them again, with a socket at once.                      *)
LEMMA ReconnectNowKeeps ==
    ASSUME SocketsInv, v4 \in Sessions, Sockets!ReconnectNow
    PROVE  SocketsInv'
<1> DEFINE r == [v1[v4] EXCEPT !.stopped = FALSE]
<1>1. Sockets!Connect(v4, r) /\ v2' = v2
    BY DEF Sockets!ReconnectNow
<1>2. r \in [state : {"unused", "open", "gone"}, ws : 0..MaxSockets,
             stopped : BOOLEAN, wasActive : BOOLEAN]
    BY DEF SocketsInv, Records
<1> HIDE DEF r
<1> QED
    BY <1>1, <1>2, ConnectKeeps DEF SocketsInv, SessionFine

(* The overlay and the grace period are a session's, or nobody's.          *)
OverlayOwned == v4 \in Sessions \cup {None} /\ v5 \in Sessions \cup {None}

(* No step of the sockets leaves a session that nobody waits for.          *)
LEMMA SocketsStep ==
    SocketsInv /\ OverlayOwned /\ [Sockets!Next]_<<v1, v2, v3, v4, v5, v6>>
        => SocketsInv' /\ OverlayOwned'
<1> SUFFICES ASSUME SocketsInv, OverlayOwned, [Sockets!Next]_<<v1, v2, v3, v4, v5, v6>>
             PROVE  SocketsInv' /\ OverlayOwned'
    OBVIOUS
<1>1. ASSUME v1' = v1, v2' = v2, v3' = v3 PROVE SocketsInv'
    <2>1. \A t \in Sessions : SessionFine(t)'
        BY <1>1, LeftAlone DEF SocketsInv, Opened
    <2> QED
        BY <1>1, <2>1 DEF SocketsInv
<1>2. ASSUME v4' = v4, v5' = v5 PROVE OverlayOwned'
    BY <1>2 DEF OverlayOwned
<1>3. ASSUME NEW s \in Sessions, Sockets!AddSession(s) PROVE SocketsInv' /\ OverlayOwned'
    BY <1>2, <1>3, AddSessionKeeps DEF Sockets!AddSession
<1>4. ASSUME NEW s \in Sessions, Sockets!SwitchTo(s) PROVE SocketsInv' /\ OverlayOwned'
    BY <1>1, <1>2, <1>4 DEF Sockets!SwitchTo
<1>5. ASSUME NEW s \in Sessions, Sockets!RemoveSession(s) PROVE SocketsInv' /\ OverlayOwned'
    BY <1>2, <1>5, RemoveSessionKeeps DEF Sockets!RemoveSession
<1>6. ASSUME NEW s \in Sessions, Sockets!RemoveAnswered(s) PROVE SocketsInv' /\ OverlayOwned'
    BY <1>2, <1>6, RemoveAnsweredKeeps DEF Sockets!RemoveAnswered
<1>7. ASSUME NEW s \in Sessions, Sockets!TimerFires(s) PROVE SocketsInv' /\ OverlayOwned'
    BY <1>2, <1>7, TimerFiresKeeps DEF Sockets!TimerFires
<1>8. ASSUME NEW s \in Sessions, Sockets!Stable(s) PROVE SocketsInv' /\ OverlayOwned'
    BY <1>2, <1>8, StableKeeps DEF Sockets!Stable
<1>9. ASSUME NEW n \in Sockets!SocketIds, NEW up, Sockets!Status(v3[n].of, up)
      PROVE  OverlayOwned'
    BY <1>9 DEF Sockets!Status, OverlayOwned, SocketsInv, Sock
<1>10. ASSUME NEW n \in Sockets!SocketIds, Sockets!OpenSocket(n)
       PROVE  SocketsInv' /\ OverlayOwned'
    BY <1>9, <1>10, OpenSocketKeeps DEF Sockets!OpenSocket
<1>11. ASSUME NEW n \in Sockets!SocketIds, NEW refused \in BOOLEAN,
              Sockets!CloseSocket(n, refused)
       PROVE  SocketsInv' /\ OverlayOwned'
    BY <1>2, <1>9, <1>11, CloseSocketKeeps DEF Sockets!CloseSocket
<1>12. CASE Sockets!GraceEnds
    <2>1. v1' = v1 /\ v2' = v2 /\ v3' = v3
        BY <1>12 DEF Sockets!GraceEnds
    <2>2. OverlayOwned'
        BY <1>12 DEF Sockets!GraceEnds, OverlayOwned
    <2> QED
        BY <1>1, <2>1, <2>2
<1>13. CASE Sockets!StopRetries
    BY <1>2, <1>13, StopRetriesKeeps DEF Sockets!StopRetries
<1>14. CASE Sockets!ReconnectNow
    BY <1>2, <1>14, ReconnectNowKeeps DEF Sockets!ReconnectNow, OverlayOwned
<1>15. CASE UNCHANGED <<v1, v2, v3, v4, v5, v6>>
    BY <1>1, <1>2, <1>15
<1> QED
    BY <1>3, <1>4, <1>5, <1>6, <1>7, <1>8, <1>10, <1>11, <1>12, <1>13, <1>14, <1>15
       DEF Sockets!Next

(* The sockets keep their invariant as long as the page is about them.     *)
LEMMA SocketsInvariance == PageSpec => [](part = "sockets" => SocketsInv /\ OverlayOwned)
<1> DEFINE Inv == part = "sockets" => SocketsInv /\ OverlayOwned
<1>1. PageInit => Inv
    <2> SUFFICES ASSUME Sockets!Init PROVE SocketsInv /\ OverlayOwned
        BY DEF PageInit
    <2>1. v1 \in Records /\ v2 \in [Sessions -> Chain]
        BY PageAssumption DEF Sockets!Init, Sockets!NoRec, Sockets!NoChain, Records, Chain
    <2>2. v3 \in [Sockets!SocketIds -> Sock]
        BY DEF Sockets!Init, Sockets!NoSock, Sock
    <2>3. \A s \in Sessions : SessionFine(s)
        BY DEF Sockets!Init, Sockets!NoRec, Sockets!NoChain, SessionFine
    <2>4. \A n \in Sockets!SocketIds : v3[n].of = None
        BY DEF Sockets!Init, Sockets!NoSock
    <2> QED
        BY <2>1, <2>2, <2>3, <2>4 DEF Sockets!Init, SocketsInv, OverlayOwned
<1>2. Inv /\ [PageNext]_pageVars => Inv'
    BY TerminalPartSteps, SocketsStep
<1> QED
    BY <1>1, <1>2, PTL DEF PageSpec

(* ws.js: an open session that lost its last socket has an attempt to      *)
(* connect pending, unless the server refused it or the user stopped the   *)
(* attempts, in whatever order sockets close and tabs change.              *)
THEOREM LostIsRetried == PageSpec => []LostReconnects
<1>1. SocketsInv => Sockets!WillReconnect
    BY DEF SocketsInv, SessionFine, Sockets!WillReconnect, Sockets!Open, Sockets!Sockets
<1>2. (part = "sockets" => SocketsInv /\ OverlayOwned) => LostReconnects
    BY <1>1 DEF LostReconnects
<1> QED
    BY <1>2, SocketsInvariance, PTL

-----------------------------------------------------------------------------
(* Where no counter gets smaller the back-off is kept.                     *)
LEMMA CounterKept ==
    ASSUME SocketsInv, NEW s, NEW c, v2' = [v2 EXCEPT ![s] = c],
           s \in Sessions => c.retries \in Nat /\ c.retries >= v2[s].retries
    PROVE  Sockets!KeepsBackoff
<1> SUFFICES ASSUME NEW t \in Sessions PROVE ~(v2'[t].retries < v2[t].retries)
    BY DEF Sockets!KeepsBackoff
<1>1. v2[t].retries \in Nat
    BY DEF SocketsInv, Chain
<1>2. v2'[t] = IF t = s THEN c ELSE v2[t]
    BY DEF SocketsInv
<1> QED
    BY <1>1, <1>2

(* The stability timer alone resets a counter, and a connection is there   *)
(* when it runs out.                                                       *)
LEMMA BackoffStep ==
    SocketsInv /\ [Sockets!Next]_<<v1, v2, v3, v4, v5, v6>> => Sockets!KeepsBackoff
<1> SUFFICES ASSUME SocketsInv, [Sockets!Next]_<<v1, v2, v3, v4, v5, v6>>
             PROVE  Sockets!KeepsBackoff
    OBVIOUS
<1>1. \A s \in Sessions : v2[s].retries \in Nat
    BY DEF SocketsInv, Chain
<1>2. ASSUME v2' = v2 PROVE Sockets!KeepsBackoff
    BY <1>1, <1>2 DEF Sockets!KeepsBackoff
<1>3. ASSUME NEW s, v2' = [v2 EXCEPT ![s] = Sockets!Untimed(v2[s])]
      PROVE  Sockets!KeepsBackoff
    <2>1. s \in Sessions => Sockets!Untimed(v2[s]).retries = v2[s].retries
        BY UntimedFits DEF SocketsInv, SessionFine
    <2>2. s \in Sessions => /\ Sockets!Untimed(v2[s]).retries \in Nat
                           /\ Sockets!Untimed(v2[s]).retries >= v2[s].retries
        BY <1>1, <2>1
    <2> QED
        BY <1>3, <2>2, CounterKept
<1>4. ASSUME NEW s \in Sessions, Sockets!TimerFires(s) PROVE Sockets!KeepsBackoff
    <2> DEFINE c == [v2[s] EXCEPT !.timers = v2[s].timers - 1]
    <2>1. c.retries = v2[s].retries
        BY DEF SocketsInv, Chain
    <2>2. v2' = [v2 EXCEPT ![s] = Sockets!Untimed(v2[s])] \/ v2' = [v2 EXCEPT ![s] = c]
        BY <1>4 DEF Sockets!TimerFires
    <2> HIDE DEF c
    <2> QED
        BY <1>1, <1>3, <2>1, <2>2, CounterKept
<1>5. ASSUME NEW s \in Sessions, Sockets!Stable(s) PROVE Sockets!KeepsBackoff
    <2> DEFINE c == [v2[s] EXCEPT !.stable = FALSE, !.retries = 0]
    <2>1. v2[s].stable /\ v2' = [v2 EXCEPT ![s] = c]
        BY <1>5 DEF Sockets!Stable, SocketsInv
    <2> HIDE DEF c
    <2>2. \A t \in Sessions : t # s => v2'[t] = v2[t]
        BY <2>1 DEF SocketsInv
    <2>3. \E n \in Sockets!SocketIds : v3[n].of = s /\ Opened(n)
        BY <2>1 DEF SocketsInv, SessionFine
    <2> QED
        BY <1>1, <2>2, <2>3 DEF Sockets!KeepsBackoff, Sockets!Sockets, Opened
<1>6. ASSUME NEW n \in Sockets!SocketIds, Sockets!OpenSocket(n)
      PROVE  Sockets!KeepsBackoff
    <2> DEFINE s == v3[n].of
               c == IF Sockets!Open(s) THEN Sockets!ChainOpened(v2[s]) ELSE v2[s]
    <2>1. v2' = [v2 EXCEPT ![s] = c]
        BY <1>6 DEF Sockets!OpenSocket
    <2>2. s \in Sessions => c.retries = v2[s].retries
        BY DEF SocketsInv, Chain, Sockets!ChainOpened
    <2> HIDE DEF c
    <2>3. s \in Sessions => c.retries \in Nat /\ c.retries >= v2[s].retries
        BY <1>1, <2>2
    <2> QED
        BY <2>1, <2>3, CounterKept
<1>7. ASSUME NEW n \in Sockets!SocketIds, NEW refused \in BOOLEAN,
             Sockets!CloseSocket(n, refused)
      PROVE  Sockets!KeepsBackoff
    <2> DEFINE s == v3[n].of
               c == [v2[s] EXCEPT !.stable = FALSE]
               more == IF c.retries < RetryCap THEN c.retries + 1 ELSE c.retries
               retried == [c EXCEPT !.retries = more]
               later == [retried EXCEPT !.timers = @ + 1, !.tracked = TRUE]
               never == [c EXCEPT !.refused = TRUE]
    <2>1. v2' = [v2 EXCEPT ![s] = c] \/ v2' = [v2 EXCEPT ![s] = never]
          \/ v2' = [v2 EXCEPT ![s] = retried] \/ v2' = [v2 EXCEPT ![s] = later]
        BY <1>7 DEF Sockets!CloseSocket
    <2>2. ASSUME s \in Sessions
          PROVE  /\ c.retries = v2[s].retries /\ never.retries = v2[s].retries
                 /\ retried.retries = more /\ later.retries = more
        BY <2>2 DEF SocketsInv, Chain
    <2>3. ASSUME s \in Sessions PROVE more \in Nat /\ more >= v2[s].retries
        BY <1>1, <2>2, <2>3
    <2> HIDE DEF c, more, retried, later, never
    <2> QED
        BY <1>1, <2>1, <2>2, <2>3, CounterKept
<1>8. CASE Sockets!ReconnectNow \/ Sockets!GraceEnds
    BY <1>2, <1>8 DEF Sockets!ReconnectNow, Sockets!GraceEnds
<1>9. CASE Sockets!StopRetries
    BY <1>3, <1>9 DEF Sockets!StopRetries
<1>10. ASSUME NEW s \in Sessions,
              Sockets!AddSession(s) \/ Sockets!SwitchTo(s) \/ Sockets!RemoveAnswered(s)
       PROVE  Sockets!KeepsBackoff
    BY <1>2, <1>10 DEF Sockets!AddSession, Sockets!SwitchTo, Sockets!RemoveAnswered
<1>11. ASSUME NEW s \in Sessions, Sockets!RemoveSession(s) PROVE Sockets!KeepsBackoff
    BY <1>3, <1>11 DEF Sockets!RemoveSession
<1> QED
    BY <1>2, <1>4, <1>5, <1>6, <1>7, <1>8, <1>9, <1>10, <1>11 DEF Sockets!Next

(* ws.js: the back-off is only forgotten while a connection that had       *)
(* opened lasts.                                                           *)
THEOREM BackoffIsKept == PageSpec => BackoffKept
<1>1. (part = "sockets" => SocketsInv /\ OverlayOwned) /\ [PageNext]_pageVars
         => [part = "sockets" => Sockets!KeepsBackoff]_pageVars
    BY TerminalPartSteps, BackoffStep
<1> QED
    BY <1>1, SocketsInvariance, PTL DEF PageSpec, BackoffKept

-----------------------------------------------------------------------------
(* One terminal: v1 is conn, v2 ws, v3 e2e, v4 replaying, v5 xterm, v6     *)
(* fitted, v7 told, v8 due, v9 view, v10 pty, v11 fitCell.                 *)
Conn == [state : {"none", "connecting", "open"}, ready : BOOLEAN,
         ended : BOOLEAN, guarded : BOOLEAN, spoiled : BOOLEAN]

(* What the page remembers is of the current connection w, and not of an   *)
(* earlier one or of a font that is gone: before the handshake nothing, and*)
(* then what was fitted was told, and what was told the PTY has.           *)
Remembered(cs, w, last, known, size, cell) ==
    w # 0 /\ cs[w].state = "open" /\ ~cs[w].spoiled =>
        /\ ~cs[w].ready => known = 0 /\ last = 0
        /\ cs[w].ready => /\ last # 0 => known = last \div cell
                          /\ known # 0 => size = known

(* The current connection can carry a size, and none that was sent before  *)
(* the handshake has spoiled it.                                           *)
Carries(cs, w) == w # 0 /\ cs[w].state = "open" /\ cs[w].ready /\ ~cs[w].spoiled

(* Bytes can be sent at once, or, with encryption, not before it is open.  *)
ReadyInTime(cs) ==
    \A n \in 1..2 : /\ ~v3 /\ cs[n].state # "none" => cs[n].ready
                    /\ v3 /\ cs[n].state = "connecting" => ~cs[n].ready

(* The state of the terminal, but for what its PTY was told.               *)
ScreenTypes ==
    /\ v1 \in [1..2 -> Conn] /\ v2 \in {0, 1, 2} /\ v3 \in BOOLEAN
    /\ v6 \in Boxes \cup {0} /\ v9 \in [shown : BOOLEAN, box : Boxes] /\ v11 \in Cells
    /\ v5.cell \in Cells /\ DOMAIN v5 = {"cols", "cell"}
    /\ v5 = [x \in DOMAIN v5 |-> v5[x]]

(* And a shown terminal that waits for no fit has told its columns.        *)
ScreenInv ==
    /\ ScreenTypes /\ ReadyInTime(v1) /\ Screen!ReplayFlagHonest
    /\ Remembered(v1, v2, v6, v7, v10, v11)
    /\ v9.shown /\ v9.box # 0 /\ ~v8 /\ Carries(v1, v2) => v10 = v9.box \div v11

(* fitAndResize, called with what is remembered of the current connection, *)
(* remembers what it does, and tells a PTY that can be told.               *)
LEMMA FitTells ==
    ASSUME ScreenTypes, NEW cs \in [1..2 -> Conn], ReadyInTime(cs),
           NEW last \in Boxes \cup {0}, NEW known, NEW size, NEW cell \in Cells,
           Remembered(cs, v2, last, known, size, v11),
           Screen!FitAndResize(cs, last, known, size, cell)
    PROVE  /\ v1' \in [1..2 -> Conn] /\ v6' \in Boxes \cup {0} /\ v11' \in Cells
           /\ v5'.cell \in Cells /\ DOMAIN v5' = {"cols", "cell"}
           /\ v5' = [x \in DOMAIN v5' |-> v5'[x]]
           /\ \A n \in 1..2 : /\ v1'[n].state = cs[n].state /\ v1'[n].ready = cs[n].ready
                              /\ v1'[n].ended = cs[n].ended /\ v1'[n].guarded = cs[n].guarded
           /\ Remembered(v1', v2, v6', v7', v10', v11')
           /\ v9.shown /\ v9.box # 0 /\ Carries(v1', v2) => v10' = v9.box \div v11'
<1> DEFINE cols == v9.box \div cell
           spoiling == [cs EXCEPT ![v2].spoiled = TRUE]
<1>1. v9.box \in Boxes
    BY DEF ScreenTypes
<1>2. CASE ~v9.shown \/ v9.box = 0 \/ last = v9.box
    <2>1. /\ v1' = cs /\ v6' = last /\ v7' = known /\ v10' = size /\ v11' = v11
          /\ v5' = [v5 EXCEPT !.cell = cell]
        BY <1>2 DEF Screen!FitAndResize
    <2>2. /\ v5'.cell \in Cells /\ DOMAIN v5' = {"cols", "cell"}
          /\ v5' = [x \in DOMAIN v5' |-> v5'[x]]
        BY <2>1 DEF ScreenTypes
    <2>3. v9.shown /\ v9.box # 0 /\ Carries(v1', v2) => v10' = v9.box \div v11'
        <3> SUFFICES ASSUME v9.shown, v9.box # 0, Carries(v1', v2)
                     PROVE  v10' = v9.box \div v11'
            OBVIOUS
        <3>1. last = v9.box /\ last # 0
            BY <1>2
        <3>2. known = v9.box \div v11
            BY <2>1, <3>1 DEF Remembered, Carries
        <3>3. v9.box \div v11 # 0
            BY <1>1, PageAssumption DEF ScreenTypes
        <3> QED
            BY <2>1, <3>2, <3>3 DEF Remembered, Carries
    <2> QED
        BY <2>1, <2>2, <2>3 DEF ScreenTypes
<1>3. CASE v9.shown /\ v9.box # 0 /\ last # v9.box
    <2>1. /\ v6' = v9.box /\ v11' = cell /\ v5' = [cols |-> cols, cell |-> cell]
          /\ Screen!SendResize(cs, cols, known, size)
        BY <1>3 DEF Screen!FitAndResize
    <2>2. /\ v5'.cell \in Cells /\ DOMAIN v5' = {"cols", "cell"}
          /\ v5' = [x \in DOMAIN v5' |-> v5'[x]]
        BY <2>1
    <2>3. cols # 0
        BY <1>1, <1>3, PageAssumption
    <2> HIDE DEF cols
    <2>4. v9.box \div v11' = cols
        BY <2>1 DEF cols
    <2>5. CASE v2 = 0 \/ cs[v2].state # "open"
        <3>1. v1' = cs /\ v7' = known /\ v10' = size
            BY <2>1, <2>5 DEF Screen!SendResize
        <3> QED
            BY <1>1, <2>1, <2>2, <2>5, <3>1 DEF Remembered, Carries
    <2>6. CASE v2 # 0 /\ cs[v2].state = "open" /\ cols = known
        <3>1. v1' = cs /\ v7' = known /\ v10' = size
            BY <2>1, <2>6 DEF Screen!SendResize
        <3> QED
            BY <1>1, <2>1, <2>2, <2>3, <2>4, <2>6, <3>1 DEF Remembered, Carries
    <2>7. CASE v2 # 0 /\ cs[v2].state = "open" /\ cols # known /\ v3 /\ ~cs[v2].ready
        <3>1. v1' = spoiling /\ v7' = cols /\ v10' = size
            BY <2>1, <2>7 DEF Screen!SendResize
        <3>2. /\ spoiling \in [1..2 -> Conn] /\ spoiling[v2].spoiled
              /\ \A n \in 1..2 : /\ spoiling[n].state = cs[n].state
                                 /\ spoiling[n].ready = cs[n].ready
                                 /\ spoiling[n].ended = cs[n].ended
                                 /\ spoiling[n].guarded = cs[n].guarded
            <4>1. v2 \in 1..2
                BY <2>7 DEF ScreenTypes
            <4> DEFINE k == [cs[v2] EXCEPT !.spoiled = TRUE]
            <4>2. /\ k \in Conn /\ k.spoiled /\ k.state = cs[v2].state
                  /\ k.ready = cs[v2].ready /\ k.ended = cs[v2].ended
                  /\ k.guarded = cs[v2].guarded
                BY <4>1 DEF Conn
            <4>3. spoiling = [cs EXCEPT ![v2] = k]
                OBVIOUS
            <4> HIDE DEF k, spoiling
            <4> QED
                BY <4>1, <4>2, <4>3
        <3> HIDE DEF spoiling
        <3> QED
            BY <1>1, <2>1, <2>2, <3>1, <3>2 DEF Remembered, Carries
    <2>8. CASE v2 # 0 /\ cs[v2].state = "open" /\ cols # known /\ ~(v3 /\ ~cs[v2].ready)
        <3>1. v1' = cs /\ v7' = cols /\ v10' = cols
            BY <2>1, <2>8 DEF Screen!SendResize
        <3>2. cs[v2].ready
            BY <2>8 DEF ReadyInTime, ScreenTypes
        <3> QED
            BY <1>1, <2>1, <2>2, <2>4, <3>1, <3>2 DEF Remembered, Carries
    <2> QED
        BY <2>5, <2>6, <2>7, <2>8
<1> QED
    BY <1>2, <1>3

(* After a call of fitAndResize that leaves the current connection, its    *)
(* flag and the box alone, all is well again.                              *)
LEMMA FitKeeps ==
    ASSUME ScreenTypes, NEW cs \in [1..2 -> Conn], ReadyInTime(cs),
           NEW last \in Boxes \cup {0}, NEW known, NEW size, NEW cell \in Cells,
           Remembered(cs, v2, last, known, size, v11),
           Screen!FitAndResize(cs, last, known, size, cell),
           v2' = v2, v3' = v3, v9' = v9,
           v2 # 0 /\ cs[v2].state = "open" /\ ~cs[v2].ended /\ ~cs[v2].guarded => v4'
    PROVE  ScreenInv'
<1>1. /\ v1' \in [1..2 -> Conn] /\ v6' \in Boxes \cup {0} /\ v11' \in Cells
      /\ v5'.cell \in Cells /\ DOMAIN v5' = {"cols", "cell"}
      /\ v5' = [x \in DOMAIN v5' |-> v5'[x]]
      /\ \A n \in 1..2 : /\ v1'[n].state = cs[n].state /\ v1'[n].ready = cs[n].ready
                         /\ v1'[n].ended = cs[n].ended /\ v1'[n].guarded = cs[n].guarded
      /\ Remembered(v1', v2, v6', v7', v10', v11')
      /\ v9.shown /\ v9.box # 0 /\ Carries(v1', v2) => v10' = v9.box \div v11'
    BY FitTells
<1>2. ScreenTypes'
    BY <1>1 DEF ScreenTypes
<1>3. ReadyInTime(v1)'
    BY <1>1 DEF ReadyInTime
<1>4. Screen!ReplayFlagHonest'
    <2>1. v2 # 0 => v2 \in 1..2
        BY DEF ScreenTypes
    <2> QED
        BY <1>1, <2>1 DEF Screen!ReplayFlagHonest, Screen!IsOpen
<1>5. Remembered(v1, v2, v6, v7, v10, v11)'
    BY <1>1 DEF Remembered
<1>6. (v9.shown /\ v9.box # 0 /\ ~v8 /\ Carries(v1, v2) => v10 = v9.box \div v11)'
    BY <1>1 DEF Carries
<1> QED
    BY <1>2, <1>3, <1>4, <1>5, <1>6 DEF ScreenInv

(* Changes of one connection.                                              *)
LEMMA ConnChanged ==
    ASSUME NEW cs \in [1..2 -> Conn], NEW n \in 1..2, NEW k \in Conn
    PROVE  /\ [cs EXCEPT ![n] = k] \in [1..2 -> Conn] /\ [cs EXCEPT ![n] = k][n] = k
           /\ \A m \in 1..2 : m # n => [cs EXCEPT ![n] = k][m] = cs[m]
OBVIOUS

(* A socket opens: what is remembered is forgotten.                        *)
LEMMA ScreenOpens ==
    ASSUME ScreenInv, NEW n \in 1..2, Screen!OpenSocket(n)
    PROVE  ScreenInv'
<1> DEFINE k == [v1[n] EXCEPT !.state = "open"]
           cs == [v1 EXCEPT ![n] = k]
<1>1. /\ v1[n].state = "connecting" /\ v4' = TRUE
      /\ v2' = v2 /\ v3' = v3 /\ v8' = v8 /\ v9' = v9
    BY DEF Screen!OpenSocket
<1>2. PICK size \in {v10, 0} :
         /\ (\E c \in 1..2 : Screen!IsOpen(c)) => size = v10
         /\ IF v3 THEN /\ v1' = cs /\ v6' = 0 /\ v7' = 0 /\ v10' = size
                       /\ UNCHANGED <<v5, v11>>
            ELSE Screen!FitAndResize(cs, 0, 0, size, v5.cell)
    BY DEF Screen!OpenSocket, Screen!FittedAfterOpen, Screen!Conns
<1>3. /\ k \in Conn /\ k.state = "open" /\ k.ready = v1[n].ready
    BY DEF ScreenInv, ScreenTypes, Conn
<1> HIDE DEF k
<1>4. /\ cs \in [1..2 -> Conn] /\ cs[n] = k
      /\ \A m \in 1..2 : m # n => cs[m] = v1[m]
    BY <1>3, ConnChanged DEF ScreenInv, ScreenTypes
<1> HIDE DEF cs
<1>5. ReadyInTime(cs)
    BY <1>1, <1>3, <1>4 DEF ScreenInv, ScreenTypes, ReadyInTime
<1>6. Remembered(cs, v2, 0, 0, size, v11)
    BY DEF Remembered
<1>7. CASE ~v3
    BY <1>1, <1>2, <1>4, <1>5, <1>6, <1>7, FitKeeps DEF ScreenInv, ScreenTypes
<1>8. CASE v3
    <2>1. v1' = cs /\ v6' = 0 /\ v7' = 0 /\ v10' = size /\ v5' = v5 /\ v11' = v11
        BY <1>2, <1>8
    <2>2. ScreenTypes' /\ ReadyInTime(v1)' /\ Remembered(v1, v2, v6, v7, v10, v11)'
        BY <1>1, <1>4, <1>5, <1>6, <2>1 DEF ScreenInv, ScreenTypes, ReadyInTime, Remembered
    <2>3. ASSUME v9.shown, v9.box # 0, ~v8, Carries(cs, v2) PROVE size = v9.box \div v11
        <3>1. v2 \in 1..2 /\ v2 # n
            BY <1>1, <1>3, <1>4, <1>8, <2>3 DEF ScreenInv, ScreenTypes, ReadyInTime, Carries
        <3>2. Carries(v1, v2) /\ Screen!IsOpen(v2)
            BY <1>4, <2>3, <3>1 DEF Carries, Screen!IsOpen
        <3> QED
            BY <1>2, <2>3, <3>1, <3>2 DEF ScreenInv
    <2>4. (v9.shown /\ v9.box # 0 /\ ~v8 /\ Carries(v1, v2) => v10 = v9.box \div v11)'
        BY <1>1, <2>1, <2>3 DEF Carries
    <2> QED
        BY <1>1, <2>2, <2>4 DEF ScreenInv, Screen!ReplayFlagHonest
<1> QED
    BY <1>7, <1>8 DEF ScreenInv, ScreenTypes

(* The handshake is over.                                                  *)
LEMMA ScreenHello ==
    ASSUME ScreenInv, NEW n \in 1..2, Screen!HelloAccepted(n)
    PROVE  ScreenInv'
<1> DEFINE k == [v1[n] EXCEPT !.ready = TRUE]
           cs == [v1 EXCEPT ![n] = k]
<1>1. /\ v3 /\ v1[n].state = "open" /\ ~v1[n].ready
      /\ v2' = v2 /\ v3' = v3 /\ v4' = v4 /\ v8' = v8 /\ v9' = v9
      /\ Screen!FitAndResize(cs, v6, v7, v10, v5.cell)
    BY DEF Screen!HelloAccepted, Screen!IsOpen
<1>2. /\ k \in Conn /\ k.state = "open" /\ k.ready /\ k.spoiled = v1[n].spoiled
      /\ k.ended = v1[n].ended /\ k.guarded = v1[n].guarded
    <2>1. v1[n] \in Conn
        BY DEF ScreenInv, ScreenTypes
    <2> QED
        BY <1>1, <2>1 DEF Conn
<1> HIDE DEF k
<1>3. /\ cs \in [1..2 -> Conn] /\ cs[n] = k
      /\ \A m \in 1..2 : m # n => cs[m] = v1[m]
    BY <1>2, ConnChanged DEF ScreenInv, ScreenTypes
<1> HIDE DEF cs
<1>4. ReadyInTime(cs)
    BY <1>1, <1>2, <1>3 DEF ScreenInv, ReadyInTime
<1>5. Remembered(cs, v2, v6, v7, v10, v11)
    <2>1. CASE v2 = n
        BY <1>1, <1>2, <1>3, <2>1 DEF ScreenInv, Remembered
    <2>2. CASE v2 # n
        BY <1>3, <2>2 DEF ScreenInv, ScreenTypes, Remembered
    <2> QED
        BY <2>1, <2>2
<1>6. v2 # 0 /\ cs[v2].state = "open" /\ ~cs[v2].ended /\ ~cs[v2].guarded => v4
    BY <1>1, <1>2, <1>3 DEF ScreenInv, ScreenTypes, Screen!ReplayFlagHonest, Screen!IsOpen
<1> QED
    BY <1>1, <1>3, <1>4, <1>5, <1>6, FitKeeps DEF ScreenInv, ScreenTypes

(* A step that changes nothing the size depends on.                        *)
LEMMA ScreenAsBefore ==
    ASSUME ScreenInv, v1' = v1, v2' = v2, v3' = v3, v4' = v4, v6' = v6, v7' = v7,
           v10' = v10, v11' = v11,
           v5'.cell \in Cells, DOMAIN v5' = {"cols", "cell"},
           v5' = [x \in DOMAIN v5' |-> v5'[x]],
           v9' \in [shown : BOOLEAN, box : Boxes],
           v8' \/ (v8' = v8 /\ v9' = v9)
    PROVE  ScreenInv'
BY DEF ScreenInv, ScreenTypes, ReadyInTime, Remembered, Carries, Screen!ReplayFlagHonest,
       Screen!IsOpen

(* One connection changes and nothing is sent: it is new, or its replay    *)
(* has ended, in which case the flag may be cleared.                       *)
LEMMA OneConnection ==
    ASSUME ScreenInv, NEW n \in 1..2, NEW k \in Conn, v1' = [v1 EXCEPT ![n] = k],
           v2' \in {0, 1, 2}, v3' = v3,
           UNCHANGED <<v5, v6, v7, v8, v9, v10, v11>>,
           \/ v2' = 0
           \/ v2' = v2 /\ v2 # n /\ (v4' <=> v4)
           \/ v2' = n /\ k.state = "connecting"
           \/ /\ v2' = v2 /\ v2 = n /\ k.state = v1[n].state /\ k.ready = v1[n].ready
              /\ k.spoiled = v1[n].spoiled /\ (k.ended \/ k.guarded),
           k.state # "none" => v3 \/ k.ready, k.state = "connecting" => ~v3 \/ ~k.ready
    PROVE  ScreenInv'
<1>1. /\ v1' \in [1..2 -> Conn] /\ v1'[n] = k
      /\ \A m \in 1..2 : m # n => v1'[m] = v1[m]
    BY ConnChanged DEF ScreenInv, ScreenTypes
<1>2. ScreenTypes' /\ ReadyInTime(v1)'
    BY <1>1 DEF ScreenInv, ScreenTypes, ReadyInTime
<1>3. CASE v2' = 0 \/ (v2' = n /\ k.state = "connecting")
    BY <1>1, <1>2, <1>3 DEF ScreenInv, Screen!ReplayFlagHonest, Screen!IsOpen, Remembered,
                            Carries
<1>4. CASE v2' = v2 /\ v2 # n /\ (v4' <=> v4)
    <2>1. v2 = 0 \/ v1'[v2] = v1[v2]
        BY <1>1, <1>4 DEF ScreenInv, ScreenTypes
    <2> QED
        BY <1>2, <1>4, <2>1 DEF ScreenInv, Screen!ReplayFlagHonest, Screen!IsOpen, Remembered,
                                Carries
<1>5. CASE /\ v2' = v2 /\ v2 = n /\ k.state = v1[n].state /\ k.ready = v1[n].ready
           /\ k.spoiled = v1[n].spoiled /\ (k.ended \/ k.guarded)
    BY <1>1, <1>2, <1>5 DEF ScreenInv, Screen!ReplayFlagHonest, Screen!IsOpen, Remembered,
                            Carries
<1> QED
    BY <1>3, <1>4, <1>5

(* No step of a terminal tells its PTY a size that is not the one shown.   *)
LEMMA ScreenStep ==
    ScreenInv /\ [Screen!Next]_<<v1, v2, v3, v4, v5, v6, v7, v8, v9, v10, v11>> => ScreenInv'
<1> SUFFICES ASSUME ScreenInv,
                    [Screen!Next]_<<v1, v2, v3, v4, v5, v6, v7, v8, v9, v10, v11>>
             PROVE  ScreenInv'
    OBVIOUS
<1>1. /\ v1 \in [1..2 -> Conn] /\ v2 \in {0, 1, 2} /\ v3 \in BOOLEAN
      /\ v9 \in [shown : BOOLEAN, box : Boxes] /\ v6 \in Boxes \cup {0}
      /\ v5.cell \in Cells /\ DOMAIN v5 = {"cols", "cell"}
      /\ v5 = [x \in DOMAIN v5 |-> v5[x]]
    BY DEF ScreenInv, ScreenTypes
<1>2. /\ Screen!NoConn \in Conn /\ Screen!NoConn.state = "none"
    BY DEF Screen!NoConn, Conn
<1>3. ASSUME NEW n \in 1..2, Screen!Connect(n) PROVE ScreenInv'
    <2> DEFINE plain == ~v3
               k == [v1[n] EXCEPT !.state = "connecting", !.ready = plain]
    <2>1. v1' = [v1 EXCEPT ![n] = k] /\ v2' = n /\ v4' = v4
          /\ UNCHANGED <<v3, v5, v6, v7, v8, v9, v10, v11>>
        BY <1>1, <1>3 DEF Screen!Connect
    <2>2. plain \in BOOLEAN /\ v1[n] \in Conn /\ (plain <=> ~v3)
        BY <1>1
    <2> HIDE DEF plain
    <2>3. k \in Conn /\ k.state = "connecting" /\ k.ready = plain
        BY <2>2 DEF Conn
    <2>4. (~v3 => k.ready) /\ (v3 => ~k.ready)
        BY <2>2, <2>3
    <2> HIDE DEF k
    <2>5. v2' \in {0, 1, 2}
        BY <2>1
    <2> QED
        BY <2>1, <2>3, <2>4, <2>5, OneConnection
<1>4. ASSUME NEW n \in 1..2, Screen!HelloRefused(n) \/ Screen!CloseSocket(n) PROVE ScreenInv'
    <2>1. /\ v1' = [v1 EXCEPT ![n] = Screen!NoConn] /\ v2' = (IF v2 = n THEN 0 ELSE v2)
          /\ UNCHANGED <<v3, v4, v5, v6, v7, v8, v9, v10, v11>>
        BY <1>4 DEF Screen!HelloRefused, Screen!CloseSocket
    <2>2. v2' \in {0, 1, 2} /\ (v2' = 0 \/ (v2' = v2 /\ v2 # n /\ v4' = v4))
        BY <1>1, <2>1
    <2> QED
        BY <1>2, <2>1, <2>2, OneConnection
<1>5. ASSUME NEW n \in 1..2, Screen!ScrollbackEnd(n) \/ Screen!Guard(n) PROVE ScreenInv'
    <2>1. PICK k \in Conn :
             /\ v1' = [v1 EXCEPT ![n] = k]
             /\ k.state = v1[n].state /\ k.ready = v1[n].ready /\ k.spoiled = v1[n].spoiled
             /\ k.ended \/ k.guarded
        <3> DEFINE e == [v1[n] EXCEPT !.ended = TRUE]
                   g == [v1[n] EXCEPT !.guarded = TRUE]
        <3>1. v1' = [v1 EXCEPT ![n] = e] \/ v1' = [v1 EXCEPT ![n] = g]
            BY <1>5 DEF Screen!ScrollbackEnd, Screen!Guard
        <3>2. v1[n] \in Conn
            BY <1>1
        <3>3. /\ e \in Conn /\ e.state = v1[n].state /\ e.ready = v1[n].ready
              /\ e.spoiled = v1[n].spoiled /\ e.ended
            BY <3>2 DEF Conn
        <3>4. /\ g \in Conn /\ g.state = v1[n].state /\ g.ready = v1[n].ready
              /\ g.spoiled = v1[n].spoiled /\ g.guarded
            BY <3>2 DEF Conn
        <3> HIDE DEF e, g
        <3> QED
            BY <3>1, <3>3, <3>4
    <2>2. UNCHANGED <<v2, v3, v5, v6, v7, v8, v9, v10, v11>> /\ Screen!EndReplay(n)
        BY <1>5 DEF Screen!ScrollbackEnd, Screen!Guard
    <2>3. v2 # n => (v4' <=> v4)
        BY <2>2 DEF Screen!EndReplay
    <2> QED
        BY <1>1, <2>1, <2>2, <2>3, OneConnection DEF ScreenInv, ReadyInTime
<1>6. ASSUME NEW box \in Boxes, Screen!Resize(box) PROVE ScreenInv'
    <2>1. v9' \in [shown : BOOLEAN, box : Boxes]
        BY <1>1, <1>6 DEF Screen!Resize
    <2> QED
        BY <1>1, <1>6, <2>1, ScreenAsBefore DEF Screen!Resize
<1>7. CASE Screen!Show
    <2>1. v9' \in [shown : BOOLEAN, box : Boxes]
        BY <1>1, <1>7 DEF Screen!Show
    <2> QED
        BY <1>1, <1>7, <2>1, ScreenAsBefore DEF Screen!Show
<1>8. CASE Screen!Hide
    <2>1. v9' \in [shown : BOOLEAN, box : Boxes] /\ ~v9'.shown
        BY <1>1, <1>8 DEF Screen!Hide
    <2> QED
        BY <1>8, <2>1 DEF Screen!Hide, ScreenInv, ScreenTypes, ReadyInTime, Remembered, Carries,
                          Screen!ReplayFlagHonest, Screen!IsOpen
<1>9. CASE Screen!FitDue
    <2>1. /\ Screen!FitAndResize(v1, v6, v7, v10, v5.cell)
          /\ v2' = v2 /\ v3' = v3 /\ v4' = v4 /\ v9' = v9
        BY <1>9 DEF Screen!FitDue
    <2> QED
        BY <1>1, <2>1, FitKeeps DEF ScreenInv, Screen!ReplayFlagHonest, Screen!IsOpen
<1>10. ASSUME NEW cell \in Cells, Screen!SettingsFont(cell) PROVE ScreenInv'
    <2>1. v5' = [v5 EXCEPT !.cell = cell]
        BY <1>10 DEF Screen!SettingsFont
    <2>2. /\ v5'.cell \in Cells /\ DOMAIN v5' = {"cols", "cell"}
          /\ v5' = [x \in DOMAIN v5' |-> v5'[x]]
        BY <1>1, <2>1
    <2> QED
        BY <1>1, <1>10, <2>2, ScreenAsBefore DEF Screen!SettingsFont
<1>11. ASSUME NEW cell \in Cells, Screen!PinchFont(cell) PROVE ScreenInv'
    <2>1. /\ Screen!FitAndResize(v1, 0, v7, v10, cell)
          /\ v2' = v2 /\ v3' = v3 /\ v4' = v4 /\ v9' = v9
        BY <1>11 DEF Screen!PinchFont
    <2>2. Remembered(v1, v2, 0, v7, v10, v11)
        BY DEF ScreenInv, Remembered
    <2> QED
        BY <1>1, <2>1, <2>2, FitKeeps DEF ScreenInv, Screen!ReplayFlagHonest, Screen!IsOpen
<1>12. ASSUME NEW cell \in Cells, Screen!PinchElsewhere(cell) PROVE ScreenInv'
    <2>1. v5' = [v5 EXCEPT !.cell = cell]
        BY <1>12 DEF Screen!PinchElsewhere
    <2>2. /\ v5'.cell \in Cells /\ DOMAIN v5' = {"cols", "cell"}
          /\ v5' = [x \in DOMAIN v5' |-> v5'[x]]
        BY <1>1, <2>1
    <2>3. Remembered(v1, v2, 0, v7, v10, v11)
        BY DEF ScreenInv, Remembered
    <2>4. v6' = 0 /\ v8' /\ UNCHANGED <<v1, v2, v3, v4, v7, v9, v10, v11>>
        BY <1>12 DEF Screen!PinchElsewhere
    <2> QED
        BY <2>2, <2>3, <2>4 DEF ScreenInv, ScreenTypes, ReadyInTime, Remembered, Carries,
                                Screen!ReplayFlagHonest, Screen!IsOpen
<1>13. ASSUME NEW cell \in Cells, Screen!Refit(cell) PROVE ScreenInv'
    <2>1. PICK cols : v5' = [cols |-> cols, cell |-> cell]
        BY <1>13 DEF Screen!Refit
    <2>2. /\ v5'.cell \in Cells /\ DOMAIN v5' = {"cols", "cell"}
          /\ v5' = [x \in DOMAIN v5' |-> v5'[x]]
        BY <2>1
    <2> QED
        BY <1>1, <1>13, <2>2, ScreenAsBefore DEF Screen!Refit
<1>14. CASE UNCHANGED <<v1, v2, v3, v4, v5, v6, v7, v8, v9, v10, v11>>
    BY <1>1, <1>14, ScreenAsBefore
<1> QED
    BY <1>3, <1>4, <1>5, <1>6, <1>7, <1>8, <1>9, <1>10, <1>11, <1>12, <1>13, <1>14,
       ScreenOpens, ScreenHello DEF Screen!Next, Screen!Conns

(* The terminal keeps its invariant as long as the page is about it.       *)
LEMMA ScreenInvariance == PageSpec => [](part = "screen" => ScreenInv)
<1> DEFINE Inv == part = "screen" => ScreenInv
<1>1. PageInit => Inv
    <2> SUFFICES ASSUME Screen!Init PROVE ScreenInv
        BY DEF PageInit
    <2>1. /\ v1 = [n \in 1..2 |-> Screen!NoConn] /\ v2 = 0 /\ v3 \in BOOLEAN /\ v6 = 0
          /\ v5 \in [cols : {0}, cell : Cells] /\ v11 = v5.cell
          /\ v9 \in [shown : {FALSE}, box : Boxes]
        BY DEF Screen!Init, Screen!Conns
    <2>2. v1 \in [1..2 -> Conn]
        BY <2>1 DEF Screen!NoConn, Conn
    <2>3. \A n \in 1..2 : v1[n].state = "none"
        BY <2>1 DEF Screen!NoConn
    <2>4. ScreenTypes
        BY <2>1, <2>2 DEF ScreenTypes
    <2> QED
        BY <2>1, <2>3, <2>4 DEF ScreenInv, ReadyInTime, Remembered, Carries,
                                Screen!ReplayFlagHonest
<1>2. Inv /\ [PageNext]_pageVars => Inv'
    BY TerminalPartSteps, ScreenStep
<1> QED
    BY <1>1, <1>2, PTL DEF PageSpec

(* ws.js: while the current connection may still be replaying the          *)
(* scrollback the flag says so, whatever an older connection does late.    *)
THEOREM FlagIsHonest == PageSpec => []ReplayFlagHonest
<1>1. (part = "screen" => ScreenInv) => ReplayFlagHonest
    BY DEF ScreenInv, ReplayFlagHonest
<1> QED
    BY <1>1, ScreenInvariance, PTL

(* resize.js: a terminal that is shown and connected and waits for no fit  *)
(* has told its PTY the columns that fit its box, as long as the font is   *)
(* the one that was measured; no order of reconnecting, resizing, hiding,  *)
(* pinching and handshakes breaks it.                                      *)
THEOREM SizeIsTold == PageSpec => []SizeToldSameFont
<1>1. ScreenInv => Screen!SizeToldSameFont
    BY DEF ScreenInv, Carries, Screen!SizeToldSameFont, Screen!SizeTold, Screen!IsOpen
<1>2. (part = "screen" => ScreenInv) => SizeToldSameFont
    BY <1>1 DEF SizeToldSameFont
<1> QED
    BY <1>2, ScreenInvariance, PTL

-----------------------------------------------------------------------------
(* The tabs: v1 is alive, v2 web, v3 tabs, v4 named, v5 snap, v6 boot, v7  *)
(* arriving, v8 closing, v9 owed.                                          *)

(* What the tabs are known by is about web sessions there may be, and an   *)
(* answer on its way names the tmux session as well.                       *)
NamesTyped ==
    /\ v2 = [i \in Ids |-> v2[i]] /\ DOMAIN v4 \subseteq Ids
    /\ DOMAIN v6 = {"step", "todo", "first", "restored", "live"} /\ v6.live \subseteq Ids
    /\ \A a \in v7 : a.id \in Ids
AnswersName == \A a \in v7 : v2[a.id] \in Tmux => a.tmux = v2[a.id]
NamesInv == NamesTyped /\ AnswersName /\ Boot!TabKnowsTmux

(* A web session that is attached anew was not one of a tab or an answer,  *)
(* unless it was attached to that tmux session before.                     *)
LEMMA AttachKeepsNames ==
    ASSUME NamesInv, NEW n, NEW i \in Boot!AttachIds(n) \cup Boot!Fresh, Boot!Attach(i, n)
    PROVE  /\ v2' = [j \in Ids |-> v2'[j]] /\ i \in Ids /\ v2'[i] = n
           /\ \A a \in v7 : v2'[a.id] \in Tmux => a.tmux = v2'[a.id]
           /\ \A j \in DOMAIN v4 : v2'[j] \in Tmux => v4[j] = v2'[j]
<1>1. i \in Ids
    BY DEF Boot!AttachIds, Boot!AttachedTo, Boot!Live, Boot!Fresh
<1>2. \A j \in Ids : v2'[j] = IF j = i THEN n ELSE v2[j]
    BY <1>1 DEF NamesInv, NamesTyped, Boot!Attach
<1>3. v2' = [j \in Ids |-> v2'[j]]
    BY <1>1 DEF NamesInv, NamesTyped, Boot!Attach
<1>4. \/ v2[i] = n
      \/ i \notin DOMAIN v4 /\ \A a \in v7 : a.id # i
    BY DEF Boot!AttachIds, Boot!AttachedTo, Boot!Live, Boot!Fresh, Boot!Referred
<1> QED
    BY <1>1, <1>2, <1>3, <1>4 DEF NamesInv, NamesTyped, AnswersName, Boot!TabKnowsTmux

(* A tab that is added with the name its web session has.                  *)
LEMMA AddedTabNamed ==
    ASSUME NamesInv, v7' \subseteq v7, NEW i \in Ids, NEW n,
           v2' = [j \in Ids |-> v2'[j]], v2'[i] \in Tmux => n = v2'[i],
           \A a \in v7 : v2'[a.id] \in Tmux => a.tmux = v2'[a.id],
           \A j \in DOMAIN v4 : v2'[j] \in Tmux => v4[j] = v2'[j],
           DOMAIN v6' = {"step", "todo", "first", "restored", "live"}, v6'.live \subseteq Ids,
           v4' = v4 \/ v4' = Boot!With(v4, i, n)
    PROVE  NamesInv'
BY DEF NamesInv, NamesTyped, AnswersName, Boot!TabKnowsTmux, Boot!With

(* What booting is at stays a record of its five parts.                    *)
LEMMA BootParts ==
    ASSUME DOMAIN v6 = {"step", "todo", "first", "restored", "live"}, v6.live \subseteq Ids
    PROVE  /\ DOMAIN Boot!Idle = {"step", "todo", "first", "restored", "live"}
           /\ Boot!Idle.live = {}
           /\ \A x : /\ DOMAIN [v6 EXCEPT !.todo = x] = DOMAIN v6
                     /\ [v6 EXCEPT !.todo = x].live = v6.live
                     /\ DOMAIN [v6 EXCEPT !.step = x] = DOMAIN v6
                     /\ [v6 EXCEPT !.step = x].live = v6.live
                     /\ DOMAIN [Boot!Idle EXCEPT !.step = x] = DOMAIN Boot!Idle
                     /\ [Boot!Idle EXCEPT !.step = x].live = {}
BY DEF Boot!Idle

(* A request whose answer is lost names no tab.                            *)
LEMMA LostKeepsNames ==
    ASSUME NamesInv, NEW n, Boot!MayAttach(n), UNCHANGED <<v4, v7>>,
           DOMAIN v6' = {"step", "todo", "first", "restored", "live"}, v6'.live \subseteq Ids
    PROVE  NamesInv'
<1>1. CASE UNCHANGED v2
    BY <1>1 DEF NamesInv, NamesTyped, AnswersName, Boot!TabKnowsTmux
<1>2. ASSUME NEW i \in Boot!AttachIds(n), Boot!Attach(i, n) PROVE NamesInv'
    <2>1. /\ v2' = [j \in Ids |-> v2'[j]]
          /\ \A a \in v7 : v2'[a.id] \in Tmux => a.tmux = v2'[a.id]
          /\ \A j \in DOMAIN v4 : v2'[j] \in Tmux => v4[j] = v2'[j]
        BY <1>2, AttachKeepsNames
    <2> QED
        BY <2>1 DEF NamesInv, NamesTyped, AnswersName, Boot!TabKnowsTmux
<1> QED
    BY <1>1, <1>2 DEF Boot!MayAttach

(* The answer to a request names what its web session is attached to.      *)
LEMMA AsksKeepNames ==
    ASSUME NamesInv, NEW i \in Ids, NEW how \in {"plain", "create", "attach"},
           NEW n \in Tmux \cup {Plain}, Boot!Asks(i, how, n), v4' = v4,
           DOMAIN v6' = {"step", "todo", "first", "restored", "live"}, v6'.live \subseteq Ids
    PROVE  NamesInv'
<1>0. Plain \notin Tmux /\ Nothing \notin Tmux
    BY PageAssumption
<1>1. /\ Boot!Attach(i, n) /\ i \in Boot!AttachIds(n) \cup Boot!Fresh
      /\ v7' = v7 \cup {[id |-> i, how |-> how, tmux |-> IF n = Plain THEN Nothing ELSE n]}
    BY DEF Boot!Asks
<1>2. /\ v2' = [j \in Ids |-> v2'[j]] /\ v2'[i] = n
      /\ \A a \in v7 : v2'[a.id] \in Tmux => a.tmux = v2'[a.id]
      /\ \A j \in DOMAIN v4 : v2'[j] \in Tmux => v4[j] = v2'[j]
    BY <1>1, AttachKeepsNames
<1>3. \A a \in v7' : a \in v7 \/ (a.id = i /\ (n \in Tmux => a.tmux = n))
    BY <1>0, <1>1
<1> QED
    BY <1>2, <1>3 DEF NamesInv, NamesTyped, AnswersName, Boot!TabKnowsTmux

(* Loading the page and what booting asks for first.                       *)
LEMMA BootAsksKeepNames ==
    ASSUME NamesInv,
           \/ Boot!Load \/ Boot!FetchLive \/ Boot!RestoreFails \/ Boot!RestoreEnds
           \/ Boot!FetchTmux \/ Boot!AttachRefused \/ Boot!AttachRejected \/ Boot!FillEnds
           \/ Boot!NoWebSessions \/ Boot!ListTmux \/ Boot!AttachEnds
           \/ Boot!ListRejected \/ Boot!CreateSession
    PROVE  NamesInv'
<1> USE BootParts DEF Boot!SameTabs, Boot!SwitchTab
<1>0. /\ DOMAIN v6 = {"step", "todo", "first", "restored", "live"} /\ v6.live \subseteq Ids
      /\ Boot!Live \subseteq Ids
    BY DEF NamesInv, NamesTyped, Boot!Live
<1>s. ASSUME UNCHANGED <<v2, v4, v7>>,
             DOMAIN v6' = {"step", "todo", "first", "restored", "live"}, v6'.live \subseteq Ids
      PROVE  NamesInv'
    BY <1>s DEF NamesInv, NamesTyped, AnswersName, Boot!TabKnowsTmux
<1>1. CASE Boot!Load
    <2>1. v4' = <<>> /\ v7' = {} /\ v2' = v2
        BY <1>1 DEF Boot!Load
    <2>2. DOMAIN v6' = {"step", "todo", "first", "restored", "live"} /\ v6'.live = {}
        BY <1>1 DEF Boot!Load, Boot!Idle
    <2>3. DOMAIN v4' = {}
        BY <2>1
    <2> QED
        BY <2>1, <2>2, <2>3 DEF NamesInv, NamesTyped, AnswersName, Boot!TabKnowsTmux
<1>2. CASE Boot!FetchLive
    <2>1. PICK l \in {Boot!Live, {}} : v6' = [v6 EXCEPT !.step = "restore", !.live = l]
        BY <1>2 DEF Boot!FetchLive
    <2>2. DOMAIN v6' = {"step", "todo", "first", "restored", "live"} /\ v6'.live \subseteq Ids
        BY <1>0, <2>1
    <2> QED
        BY <1>s, <1>2, <2>2 DEF Boot!FetchLive
<1>3. CASE Boot!RestoreFails
    <2>1. DOMAIN v6' = {"step", "todo", "first", "restored", "live"} /\ v6'.live \subseteq Ids
        BY <1>0, <1>3 DEF Boot!RestoreFails
    <2>2. UNCHANGED <<v4, v7>> /\ (UNCHANGED v2 \/ Boot!MayAttach(Head(v6.todo).tmux))
        BY <1>3 DEF Boot!RestoreFails
    <2> QED
        BY <1>s, <2>1, <2>2, LostKeepsNames
<1>4. CASE Boot!RestoreEnds
    BY <1>0, <1>s, <1>4 DEF Boot!RestoreEnds
<1>5. CASE Boot!FetchTmux
    <2>1. DOMAIN v6' = {"step", "todo", "first", "restored", "live"} /\ v6'.live \subseteq Ids
        BY <1>0, <1>5 DEF Boot!FetchTmux
    <2> QED
        BY <1>s, <1>5, <2>1 DEF Boot!FetchTmux
<1>6. CASE Boot!AttachRefused \/ Boot!ListRejected
    BY <1>0, <1>s, <1>6 DEF Boot!AttachRefused, Boot!ListRejected
<1>11. CASE Boot!AttachRejected
    <2>1. /\ UNCHANGED <<v4, v7>> /\ Boot!MayAttach(Head(v6.todo).tmux)
          /\ v6' = IF v6.step = "fill" THEN Boot!Idle ELSE [Boot!Idle EXCEPT !.step = "failed"]
        BY <1>11 DEF Boot!AttachRejected
    <2>2. DOMAIN v6' = {"step", "todo", "first", "restored", "live"} /\ v6'.live \subseteq Ids
        BY <1>0, <2>1
    <2> QED
        BY <2>1, <2>2, LostKeepsNames
<1>12. CASE Boot!CreateSession
    <2>1. /\ DOMAIN v6' = {"step", "todo", "first", "restored", "live"} /\ v6'.live \subseteq Ids
          /\ v4' = v4
        BY <1>0, <1>12 DEF Boot!CreateSession
    <2>2. \/ UNCHANGED <<v2, v7>>
          \/ \E i \in Ids : \/ Boot!Asks(i, "plain", Plain)
                            \/ \E n \in Tmux : Boot!Asks(i, "create", n)
        BY <1>12 DEF Boot!CreateSession
    <2>3. /\ Plain \in Tmux \cup {Plain} /\ \A n \in Tmux : n \in Tmux \cup {Plain}
          /\ "plain" \in {"plain", "create", "attach"} /\ "create" \in {"plain", "create", "attach"}
        OBVIOUS
    <2>4. CASE UNCHANGED <<v2, v7>>
        BY <1>s, <2>1, <2>4
    <2>5. ASSUME NEW i \in Ids, Boot!Asks(i, "plain", Plain) PROVE NamesInv'
        BY <2>1, <2>3, <2>5, AsksKeepNames
    <2>6. ASSUME NEW i \in Ids, NEW n \in Tmux, Boot!Asks(i, "create", n) PROVE NamesInv'
        BY <2>1, <2>3, <2>6, AsksKeepNames
    <2> QED
        BY <2>2, <2>4, <2>5, <2>6
<1>7. CASE Boot!FillEnds
    BY <1>0, <1>s, <1>7 DEF Boot!FillEnds
<1>8. CASE Boot!NoWebSessions
    BY <1>0, <1>s, <1>8 DEF Boot!NoWebSessions
<1>9. CASE Boot!ListTmux
    <2>1. DOMAIN v6' = {"step", "todo", "first", "restored", "live"} /\ v6'.live \subseteq Ids
        BY <1>0, <1>9 DEF Boot!ListTmux, Boot!Idle
    <2> QED
        BY <1>s, <1>9, <2>1 DEF Boot!ListTmux
<1>10. CASE Boot!AttachEnds
    BY <1>0, <1>s, <1>10 DEF Boot!AttachEnds
<1> QED
    BY <1>1, <1>2, <1>3, <1>4, <1>5, <1>6, <1>7, <1>8, <1>9, <1>10, <1>11, <1>12

(* The ways in which a tab comes: booting, or the answer to a request.     *)
LEMMA TabsAddedKeepNames ==
    ASSUME NamesInv,
           \/ \E i \in Ids : Boot!RestoreTmux(i) \/ Boot!FillTmux(i) \/ Boot!AttachNext(i)
           \/ Boot!RestorePlain \/ Boot!OpenWebSessions
           \/ \E a \in v7 : Boot!Answer(a)
    PROVE  NamesInv'
<1> USE DEF Boot!SameTabs, Boot!SwitchTab, Boot!AddTab, Boot!AddTabSaved
<1>0. /\ DOMAIN v6 = {"step", "todo", "first", "restored", "live"} /\ v6.live \subseteq Ids
    BY DEF NamesInv, NamesTyped
<1>n. ASSUME NEW i \in Ids, NEW n, v7' = v7, i \in Boot!AttachIds(n), Boot!Attach(i, n),
             DOMAIN v6' = DOMAIN v6, v6'.live \subseteq Ids,
             v4' = v4 \/ v4' = Boot!With(v4, i, n)
      PROVE  NamesInv'
    <2>1. /\ v2' = [j \in Ids |-> v2'[j]] /\ v2'[i] = n
          /\ \A a \in v7 : v2'[a.id] \in Tmux => a.tmux = v2'[a.id]
          /\ \A j \in DOMAIN v4 : v2'[j] \in Tmux => v4[j] = v2'[j]
        BY <1>n, AttachKeepsNames
    <2> QED
        BY <1>0, <1>n, <2>1, AddedTabNamed
<1>1. ASSUME NEW i \in Ids, Boot!RestoreTmux(i) PROVE NamesInv'
    <2>1. DOMAIN v6' = DOMAIN v6 /\ v6'.live \subseteq Ids
        BY <1>0, <1>1 DEF Boot!RestoreTmux, Boot!Restored
    <2> QED
        BY <1>1, <1>n, <2>1 DEF Boot!RestoreTmux
<1>2. ASSUME NEW i \in Ids, Boot!FillTmux(i) PROVE NamesInv'
    <2>1. DOMAIN v6' = DOMAIN v6 /\ v6'.live \subseteq Ids
        BY <1>0, <1>2 DEF Boot!FillTmux
    <2> QED
        BY <1>2, <1>n, <2>1 DEF Boot!FillTmux
<1>3. ASSUME NEW i \in Ids, Boot!AttachNext(i) PROVE NamesInv'
    <2>1. DOMAIN v6' = DOMAIN v6 /\ v6'.live \subseteq Ids
        BY <1>0, <1>3 DEF Boot!AttachNext
    <2> QED
        BY <1>3, <1>n, <2>1 DEF Boot!AttachNext
<1>4. CASE Boot!RestorePlain
    <2> DEFINE i == Head(v6.todo).id
    <2>1. /\ i \in v6.live /\ v2' = v2 /\ v7' = v7
          /\ DOMAIN v6' = DOMAIN v6 /\ v6'.live \subseteq Ids
        BY <1>0, <1>4 DEF Boot!RestorePlain, Boot!Restored
    <2>2. IF i \in DOMAIN v4 THEN v4' = [v4 EXCEPT ![i] = Boot!NameFor(i, @)]
          ELSE v4' = Boot!With(v4, i, Boot!NameFor(i, Nothing))
        BY <1>4 DEF Boot!RestorePlain
    <2> HIDE DEF i
    <2>3. i \in Ids
        BY <1>0, <2>1
    <2>4. CASE i \in DOMAIN v4
        <3>1. Nothing \notin Tmux
            BY PageAssumption
        <3>2. v2[i] \in Tmux => Boot!NameFor(i, v4[i]) = v2[i]
            BY <2>4, <3>1 DEF NamesInv, Boot!TabKnowsTmux, Boot!NameFor
        <3>3. DOMAIN v4' = DOMAIN v4 /\ \A j \in DOMAIN v4 : v2[j] \in Tmux => v4'[j] = v2[j]
            BY <2>2, <2>4, <3>2 DEF NamesInv, Boot!TabKnowsTmux
        <3> QED
            BY <1>0, <2>1, <3>3 DEF NamesInv, NamesTyped, AnswersName, Boot!TabKnowsTmux
    <2>5. CASE i \notin DOMAIN v4
        <3>1. v2[i] \in Tmux => Boot!NameFor(i, Nothing) = v2[i]
            BY <2>1 DEF Boot!NameFor
        <3>2. v2' = [j \in Ids |-> v2'[j]]
            BY <2>1 DEF NamesInv, NamesTyped
        <3>3. /\ \A a \in v7 : v2'[a.id] \in Tmux => a.tmux = v2'[a.id]
              /\ \A j \in DOMAIN v4 : v2'[j] \in Tmux => v4[j] = v2'[j]
            BY <2>1 DEF NamesInv, AnswersName, Boot!TabKnowsTmux
        <3> QED
            BY <1>0, <2>1, <2>2, <2>3, <2>5, <3>1, <3>2, <3>3, AddedTabNamed
    <2> QED
        BY <2>4, <2>5
<1>5. CASE Boot!OpenWebSessions
    <2>1. /\ v4' = [i \in DOMAIN v4 \cup Boot!Live |->
                        IF i \in Boot!Live /\ v2[i] \in Tmux THEN v2[i]
                        ELSE IF i \in DOMAIN v4 THEN v4[i] ELSE Nothing]
          /\ v6' = Boot!Idle /\ UNCHANGED <<v2, v7>>
        BY <1>5 DEF Boot!OpenWebSessions
    <2>2. DOMAIN v4' \subseteq Ids
        BY <2>1 DEF NamesInv, NamesTyped, Boot!Live
    <2>3. \A j \in DOMAIN v4' : v2[j] \in Tmux => v4'[j] = v2[j]
        BY <2>1, PageAssumption DEF NamesInv, Boot!TabKnowsTmux, Boot!Live
    <2> QED
        BY <1>0, <2>1, <2>2, <2>3, BootParts
           DEF NamesInv, NamesTyped, AnswersName, Boot!TabKnowsTmux
<1>6. ASSUME NEW a \in v7, Boot!Answer(a) PROVE NamesInv'
    <2>1. /\ v7' = v7 \ {a} /\ UNCHANGED <<v2, v6>>
          /\ v4' = v4 \/ v4' = Boot!With(v4, a.id, a.tmux)
        BY <1>6 DEF Boot!Answer
    <2>2. /\ a.id \in Ids /\ (v2[a.id] \in Tmux => a.tmux = v2[a.id])
          /\ v2 = [j \in Ids |-> v2[j]]
          /\ \A b \in v7 : v2[b.id] \in Tmux => b.tmux = v2[b.id]
          /\ \A j \in DOMAIN v4 : v2[j] \in Tmux => v4[j] = v2[j]
        BY <1>6 DEF NamesInv, NamesTyped, AnswersName, Boot!TabKnowsTmux
    <2>3. v2' = v2 /\ v6' = v6 /\ v7' \subseteq v7
        BY <2>1
    <2>4. \A j \in DOMAIN v4' : v2[j] \in Tmux => v4'[j] = v2[j]
        BY <2>1, <2>2 DEF Boot!With
    <2>5. DOMAIN v4' \subseteq Ids
        BY <2>1, <2>2 DEF NamesInv, NamesTyped, Boot!With
    <2> QED
        BY <1>0, <2>1, <2>2, <2>3, <2>4, <2>5
           DEF NamesInv, NamesTyped, AnswersName, Boot!TabKnowsTmux
<1> HIDE DEF Boot!SameTabs, Boot!SwitchTab, Boot!AddTab, Boot!AddTabSaved
<1> QED
    BY <1>1, <1>2, <1>3, <1>4, <1>5, <1>6

(* The user's other steps, and sessions that come and go by other hands.   *)
LEMMA OthersKeepNames ==
    ASSUME NamesInv,
           \/ \E i \in Ids : \/ Boot!ClickTab(i) \/ Boot!CloseTab(i) \/ Boot!CloseAnswered(i)
                             \/ Boot!Request(i, "plain", Plain)
                             \/ \E n \in Tmux : \/ Boot!Request(i, "create", n)
                                                \/ Boot!Request(i, "attach", n)
           \/ \E a \in v7 : Boot!AnswerLost(a)
           \/ \E k, l \in DOMAIN v3 : Boot!DragTab(k, l)
           \/ \E n \in Tmux : Boot!TmuxStarts(n) \/ Boot!TmuxEnds(n)
           \/ Boot!ServerRestarts
    PROVE  NamesInv'
<1>0. Plain \notin Tmux /\ Nothing \notin Tmux
    BY PageAssumption
<1>s. ASSUME UNCHANGED <<v2, v4, v6, v7>> PROVE NamesInv'
    BY <1>s DEF NamesInv, NamesTyped, AnswersName, Boot!TabKnowsTmux
<1>1. ASSUME NEW i \in Ids, NEW how, NEW n \in Tmux \cup {Plain}, Boot!Request(i, how, n),
             how \in {"plain", "create", "attach"}
      PROVE  NamesInv'
    <2>1. UNCHANGED <<v4, v6>> /\ Boot!Asks(i, how, n)
        BY <1>1 DEF Boot!Request
    <2>2. DOMAIN v6' = {"step", "todo", "first", "restored", "live"} /\ v6'.live \subseteq Ids
        BY <2>1 DEF NamesInv, NamesTyped
    <2> QED
        BY <1>1, <2>1, <2>2, AsksKeepNames
<1>2. ASSUME NEW i \in Ids, Boot!ClickTab(i) PROVE NamesInv'
    BY <1>s, <1>2 DEF Boot!ClickTab, Boot!SwitchTab
<1>3. ASSUME NEW i \in Ids, Boot!CloseTab(i) PROVE NamesInv'
    <2>1. v4' = [j \in DOMAIN v4 \ {i} |-> v4[j]] /\ UNCHANGED <<v2, v6, v7>>
        BY <1>3 DEF Boot!CloseTab
    <2> QED
        BY <2>1 DEF NamesInv, NamesTyped, AnswersName, Boot!TabKnowsTmux
<1>e. ASSUME UNCHANGED <<v4, v6, v7>>, v2' = [j \in Ids |-> v2'[j]],
             \A j \in Ids : v2'[j] \in {v2[j], Nothing}
      PROVE  NamesInv'
    BY <1>0, <1>e DEF NamesInv, NamesTyped, AnswersName, Boot!TabKnowsTmux
<1>4. ASSUME NEW i \in Ids, Boot!CloseAnswered(i) PROVE NamesInv'
    <2>1. v2' = [v2 EXCEPT ![i] = Nothing] /\ UNCHANGED <<v4, v6, v7>>
        BY <1>4 DEF Boot!CloseAnswered
    <2> QED
        BY <1>e, <2>1 DEF NamesInv, NamesTyped
<1>5. ASSUME NEW k, NEW l, Boot!DragTab(k, l) PROVE NamesInv'
    BY <1>s, <1>5 DEF Boot!DragTab
<1>6. ASSUME NEW n \in Tmux, Boot!TmuxStarts(n) PROVE NamesInv'
    BY <1>s, <1>6 DEF Boot!TmuxStarts
<1>7. ASSUME NEW n \in Tmux, Boot!TmuxEnds(n) PROVE NamesInv'
    BY <1>e, <1>7 DEF Boot!TmuxEnds
<1>8. CASE Boot!ServerRestarts
    BY <1>e, <1>8 DEF Boot!ServerRestarts
<1>9. ASSUME NEW a \in v7, Boot!AnswerLost(a) PROVE NamesInv'
    <2>1. v7' \subseteq v7 /\ UNCHANGED <<v2, v4, v6>>
        BY <1>9 DEF Boot!AnswerLost
    <2> QED
        BY <2>1 DEF NamesInv, NamesTyped, AnswersName, Boot!TabKnowsTmux
<1> QED
    BY <1>1, <1>2, <1>3, <1>4, <1>5, <1>6, <1>7, <1>8, <1>9

(* Names are right in every state of the tabs.                             *)
LEMMA NamesAlways == PageSpec => [](part = "sessions" => NamesInv)
<1> DEFINE Inv == part = "sessions" => NamesInv
<1>1. PageInit => Inv
    <2>1. SUFFICES ASSUME PageInit, part = "sessions" PROVE NamesInv
        OBVIOUS
    <2>2. Boot!SessionsInit
        BY <2>1 DEF PageInit
    <2>3. /\ v2 = [i \in Ids |-> Nothing] /\ v4 = <<>> /\ v7 = {}
          /\ v6 = [Boot!Idle EXCEPT !.step = "sessions"]
        BY <2>2 DEF Boot!SessionsInit
    <2>4. /\ DOMAIN v6 = {"step", "todo", "first", "restored", "live"} /\ v6.live = {}
          /\ DOMAIN v4 = {}
        BY <2>3 DEF Boot!Idle
    <2> QED
        BY <2>3, <2>4 DEF NamesInv, NamesTyped, AnswersName, Boot!TabKnowsTmux
<1>2. Inv /\ [PageNext]_pageVars => Inv'
    <2>1. SUFFICES ASSUME Inv, [PageNext]_pageVars, part' = "sessions" PROVE NamesInv'
        OBVIOUS
    <2>2. NamesInv /\ [Boot!SessionsNext]_<<v1, v2, v3, v4, v5, v6, v7, v8, v9>>
        BY <2>1, TerminalPartSteps
    <2>3. CASE UNCHANGED <<v1, v2, v3, v4, v5, v6, v7, v8, v9>>
        BY <2>2, <2>3 DEF NamesInv, NamesTyped, AnswersName, Boot!TabKnowsTmux
    <2>4. CASE Boot!SessionsNext
        BY <2>2, <2>4, BootAsksKeepNames, TabsAddedKeepNames, OthersKeepNames
           DEF Boot!SessionsNext
    <2> QED
        BY <2>2, <2>3, <2>4
<1> QED
    BY <1>1, <1>2, PTL DEF PageSpec

(* session.js:39, boot.js:153: a tab of a tmux session knows the name of   *)
(* that session, whichever of the seven ways opened it: TabKnowsTmux, for  *)
(* any web and tmux sessions and any length of the list of tabs.           *)
THEOREM TabsKnowTmux == PageSpec => []TabKnowsTmux
<1>1. (part = "sessions" => NamesInv) => TabKnowsTmux
    BY DEF TabKnowsTmux, NamesInv
<1> QED
    BY <1>1, NamesAlways, PTL

-----------------------------------------------------------------------------
(* What booting owes: every tmux session the server listed has a tab or is *)
(* in the list booting works on.                                           *)
Shows(names, n) == \E i \in DOMAIN names : names[i] = n
Waits(todo, n) == \E k \in 1 .. Len(todo) : todo[k].tmux = n
Worklist(todo) == \E A : todo \in Seq(A) /\ \A e \in A : e.tmux \in Tmux
Promised(names, step, todo, due) ==
    /\ step \in {"fill", "attach"} =>
          Worklist(todo) /\ \A n \in due : Shows(names, n) \/ Waits(todo, n)
    /\ step \in {"ready", "failed"} => \A n \in due : Shows(names, n)
    /\ step \notin {"fill", "attach", "ready", "failed"} => due = {}

(* And an answer that adds a tab, whatever there is, takes no name away,   *)
(* nor does one of two answers take that of the other.                     *)
AnswersAgree ==
    /\ \A a \in v7 : /\ a.how # "attach" /\ a.id \in DOMAIN v4 /\ v4[a.id] \in Tmux
                     => v4[a.id] = a.tmux
    /\ \A a, b \in v7 : a.id = b.id => a = b
OwedInv == /\ v1 \subseteq Tmux /\ v9 \subseteq Tmux
           /\ AnswersAgree
           /\ Promised(v4, v6.step, v6.todo, v9)

(* Names that were known stay, or are those of the web sessions.           *)
LEMMA NamedWell ==
    ASSUME AnswersAgree, NamesInv',
           v7' \subseteq v7,
           \A j \in DOMAIN v4' : \/ j \in DOMAIN v4 /\ v4'[j] = v4[j]
                                 \/ v2'[j] = v4'[j] \/ v4'[j] \notin Tmux
    PROVE  AnswersAgree'
BY DEF AnswersAgree, NamesInv, AnswersName

(* A new answer is for a session no tab and no other answer is for.        *)
LEMMA AsksAgree ==
    ASSUME AnswersAgree, NEW i, NEW how, NEW n, Boot!Asks(i, how, n), v4' = v4,
           v7 = {} \/ how # "attach", how \in {"plain", "create", "attach"}
    PROVE  AnswersAgree'
<1>1. v7' = v7 \cup {[id |-> i, how |-> how, tmux |-> IF n = Plain THEN Nothing ELSE n]}
    BY DEF Boot!Asks
<1>2. how # "attach" => i \in Boot!Fresh
    BY DEF Boot!Asks
<1>3. how # "attach" => i \notin DOMAIN v4 /\ \A a \in v7 : a.id # i
    BY <1>2 DEF Boot!Fresh, Boot!Referred
<1>4. \A a \in v7' : \/ a \in v7
                     \/ a.id = i /\ a.how = how /\ \A b \in v7' : b \in v7 \/ b = a
    BY <1>1
<1> QED
    BY <1>3, <1>4 DEF AnswersAgree

(* Where booting stands still, it is enough that no tab is lost.           *)
LEMMA StandsStill ==
    ASSUME OwedInv, v1' \subseteq Tmux, v9' \subseteq v9, v6' = v6,
           \A n \in v9' : Shows(v4, n) => Shows(v4', n), AnswersAgree'
    PROVE  OwedInv'
BY DEF OwedInv, Promised

(* The set of lists of a finite set of sessions: each has all of them.     *)
LEMMA WantedAll ==
    ASSUME NEW S, S \subseteq Tmux, NEW list, NEW x \in Boot!Wanted(S, list)
    PROVE  Worklist(x) /\ \A n \in S : Waits(x, n)
<1>1. IsFiniteSet(S) /\ Cardinality(S) \in Nat
    BY PageAssumption, FS_Subset, FS_CardinalityType
<1>2. Boot!Cardinality(S) = Cardinality(S)
    BY DEF Boot!Cardinality, Cardinality
<1> DEFINE m == Cardinality(S)
<1>3. PICK o \in Boot!SetToSeqs(S) :
          x = [k \in 1 .. m |-> [id |-> 0, tmux |-> o[k], next |-> Boot!Following(list, o[k])]]
    BY <1>2 DEF Boot!Wanted
<1>4. o \in [1 .. m -> S] /\ \A i, j \in 1 .. m : i # j => o[i] # o[j]
    BY <1>2 DEF Boot!SetToSeqs
<1> HIDE DEF m
<1>5. m \in Nat /\ m = Cardinality(S)
    BY <1>1 DEF m
<1>6. o \in Injection(1 .. m, S)
    BY <1>4 DEF Injection, IsInjective
<1>7. Cardinality(1 .. m) = Cardinality(S)
    BY <1>5, FS_Interval
<1>8. o \in Surjection(1 .. m, S)
    BY <1>1, <1>6, <1>7, FS_Injection
<1>9. \A n \in S : \E k \in 1 .. m : o[k] = n
    BY <1>8 DEF Surjection
<1>10. \A k \in 1 .. m : x[k].tmux = o[k] /\ x[k].tmux \in Tmux
    BY <1>3, <1>4
<1> DEFINE A == {x[k] : k \in 1 .. m}
<1>11. x \in [1 .. m -> A]
    BY <1>3
<1>12. \A e \in A : e.tmux \in Tmux
    BY <1>10
<1> HIDE DEF A
<1>13. x \in Seq(A) /\ Len(x) = m
    BY <1>5, <1>11, LenProperties
<1>14. Worklist(x)
    BY <1>12, <1>13 DEF Worklist
<1> QED
    BY <1>9, <1>10, <1>13, <1>14 DEF Waits

(* The head of the list is done; the rest waits.                           *)
LEMMA HeadDone ==
    ASSUME NEW todo, Worklist(todo), todo # <<>>
    PROVE  /\ Head(todo).tmux \in Tmux /\ Worklist(Tail(todo))
           /\ \A n : Waits(todo, n) /\ n # Head(todo).tmux => Waits(Tail(todo), n)
<1>0. PICK A : todo \in Seq(A) /\ \A e \in A : e.tmux \in Tmux
    BY DEF Worklist
<1>1. /\ Len(todo) \in Nat /\ Len(todo) > 0 /\ Head(todo) = todo[1]
      /\ Tail(todo) \in Seq(A) /\ Len(Tail(todo)) = Len(todo) - 1
      /\ \A i \in 1 .. Len(todo) - 1 : Tail(todo)[i] = todo[i + 1]
    BY <1>0, HeadTailProperties, EmptySeq
<1>2. todo[1] \in A
    BY <1>0, <1>1, ElementOfSeq
<1>3. ASSUME NEW n, NEW k \in 1 .. Len(todo), todo[k].tmux = n, n # Head(todo).tmux
      PROVE  Waits(Tail(todo), n)
    <2>1. k - 1 \in 1 .. Len(Tail(todo)) /\ Tail(todo)[k - 1] = todo[k]
        BY <1>1, <1>3
    <2> QED
        BY <1>3, <2>1 DEF Waits
<1>4. Worklist(Tail(todo))
    BY <1>0, <1>1 DEF Worklist
<1> QED
    BY <1>0, <1>1, <1>2, <1>3, <1>4 DEF Waits

(* Two such lists, one after the other.                                    *)
LEMMA BothWait ==
    ASSUME NEW x, NEW y, Worklist(x), Worklist(y)
    PROVE  Worklist(x \o y) /\ \A n : Waits(x, n) \/ Waits(y, n) => Waits(x \o y, n)
<1>1. PICK A : x \in Seq(A) /\ \A e \in A : e.tmux \in Tmux
    BY DEF Worklist
<1>2. PICK B : y \in Seq(B) /\ \A e \in B : e.tmux \in Tmux
    BY DEF Worklist
<1> DEFINE C == A \cup B
<1>3. x \in Seq(C) /\ y \in Seq(C)
    <2>1. x \in [1..Len(x) -> C] /\ Len(x) \in Nat
        BY <1>1, LenProperties
    <2>2. y \in [1..Len(y) -> C] /\ Len(y) \in Nat
        BY <1>2, LenProperties
    <2> HIDE DEF C
    <2> QED
        BY <2>1, <2>2
<1>4. \A e \in C : e.tmux \in Tmux
    BY <1>1, <1>2
<1> HIDE DEF C
<1>5. /\ x \o y \in Seq(C) /\ Len(x \o y) = Len(x) + Len(y)
      /\ \A k \in 1 .. Len(x) : (x \o y)[k] = x[k]
      /\ \A k \in 1 .. Len(y) : (x \o y)[Len(x) + k] = y[k]
      /\ Len(x) \in Nat /\ Len(y) \in Nat
    BY <1>3, ConcatProperties, LenProperties
<1>6. ASSUME NEW n, Waits(x, n) PROVE Waits(x \o y, n)
    BY <1>5, <1>6 DEF Waits
<1>7. ASSUME NEW n, Waits(y, n) PROVE Waits(x \o y, n)
    <2>1. PICK k \in 1 .. Len(y) : y[k].tmux = n
        BY <1>7 DEF Waits
    <2>2. Len(x) + k \in 1 .. Len(x \o y) /\ (x \o y)[Len(x) + k] = y[k]
        BY <1>5
    <2> QED
        BY <2>1, <2>2 DEF Waits
<1> QED
    BY <1>4, <1>5, <1>6, <1>7 DEF Worklist

(* A session that is attached in one of the loops of booting has a tab.    *)
LEMMA AttachedShown ==
    ASSUME NamesInv, NamesInv', OwedInv, NEW i \in Ids, NEW n, v6.step \in {"fill", "attach"},
           v6.todo # <<>>, n = Head(v6.todo).tmux, v2'[i] = n,
           \/ i \in DOMAIN v4 /\ v4' = v4
           \/ i \notin DOMAIN v4 /\ v4' = Boot!With(v4, i, n),
           v6'.step = v6.step, v6'.todo = Tail(v6.todo), UNCHANGED <<v1, v7, v9>>
    PROVE  OwedInv'
<1>1. /\ Worklist(v6.todo) /\ \A x \in v9 : Shows(v4, x) \/ Waits(v6.todo, x)
    BY DEF OwedInv, Promised
<1>2. /\ n \in Tmux /\ Worklist(Tail(v6.todo))
      /\ \A x : Waits(v6.todo, x) /\ x # n => Waits(Tail(v6.todo), x)
    BY <1>1, HeadDone
<1>3. v2'[i] = n /\ i \in DOMAIN v4' /\ v4'[i] = n
    BY <1>2 DEF NamesInv, Boot!TabKnowsTmux, Boot!With
<1>4. \A j \in DOMAIN v4 : j \in DOMAIN v4' /\ v4'[j] = v4[j]
    BY DEF Boot!With
<1>5. \A j \in DOMAIN v4' : j = i \/ (j \in DOMAIN v4 /\ v4'[j] = v4[j])
    BY DEF Boot!With
<1>6. AnswersAgree'
    BY <1>3, <1>5, NamedWell DEF OwedInv
<1>7. \A x \in v9' : Shows(v4', x) \/ Waits(v6'.todo, x)
    BY <1>1, <1>2, <1>3, <1>4 DEF Shows
<1> QED
    BY <1>2, <1>6, <1>7 DEF OwedInv, Promised

(* Until the server has listed the tmux sessions nothing is owed.          *)
LEMMA NothingOwed ==
    ASSUME OwedInv, AnswersAgree', v1' = v1, v9' = {}, v6'.step \notin {"fill", "attach"}
    PROVE  OwedInv'
BY DEF OwedInv, Promised

(* Booting up to where the server has listed its sessions.                 *)
LEMMA FirstStepsOwe ==
    ASSUME NamesInv, NamesInv', OwedInv,
           \/ Boot!Load \/ Boot!FetchLive \/ Boot!RestoreFails \/ Boot!RestoreEnds
           \/ Boot!ListRejected \/ Boot!CreateSession
           \/ Boot!NoWebSessions \/ Boot!OpenWebSessions \/ Boot!RestorePlain
           \/ \E i \in Ids : Boot!RestoreTmux(i)
    PROVE  OwedInv'
<1> USE DEF Boot!SameTabs, Boot!SwitchTab, Boot!AddTab
<1>0. DOMAIN v6 = {"step", "todo", "first", "restored", "live"}
    BY DEF NamesInv, NamesTyped
<1>i. /\ Boot!Idle.step = "ready" /\ "step" \in DOMAIN Boot!Idle
      /\ \A x : [Boot!Idle EXCEPT !.step = x].step = x
    BY DEF Boot!Idle
<1>a. v4' = v4 /\ v7' = v7 => AnswersAgree'
    BY DEF OwedInv, AnswersAgree
<1>1. CASE Boot!Load
    <2>1. v7' = {} /\ v9' = {} /\ v1' = v1 /\ v6'.step \in {"sessions", "live"}
        BY <1>1 DEF Boot!Load, Boot!Idle
    <2>2. AnswersAgree'
        BY <2>1 DEF AnswersAgree
    <2> QED
        BY <2>1, <2>2, NothingOwed
<1>2. CASE Boot!FetchLive
    <2>1. /\ UNCHANGED <<v1, v4, v7, v9>> /\ v6.step = "live" /\ v6'.step = "restore"
        BY <1>0, <1>2 DEF Boot!FetchLive
    <2> QED
        BY <1>a, <2>1, NothingOwed DEF OwedInv, Promised
<1>3. CASE Boot!RestoreFails
    <2>1. UNCHANGED <<v1, v4, v7, v9>> /\ v6.step = "restore" /\ v6'.step = "restore"
        BY <1>0, <1>3 DEF Boot!RestoreFails
    <2> QED
        BY <1>a, <2>1, NothingOwed DEF OwedInv, Promised
<1>4. CASE Boot!RestoreEnds
    <2>1. /\ UNCHANGED <<v1, v4, v7, v9>> /\ v6.step = "restore"
          /\ v6'.step \in {"reconcile", "sessions"}
        BY <1>i, <1>4 DEF Boot!RestoreEnds
    <2> QED
        BY <1>a, <2>1, NothingOwed DEF OwedInv, Promised
<1>5. CASE Boot!NoWebSessions
    <2>1. UNCHANGED <<v1, v4, v7, v9>> /\ v6.step = "sessions" /\ v6'.step = "tmux"
        BY <1>0, <1>5 DEF Boot!NoWebSessions
    <2> QED
        BY <1>a, <2>1, NothingOwed DEF OwedInv, Promised
<1>6. CASE Boot!OpenWebSessions
    <2>1. /\ UNCHANGED <<v1, v2, v7, v9>> /\ v6.step = "sessions" /\ v6' = Boot!Idle
          /\ v4' = [i \in DOMAIN v4 \cup Boot!Live |->
                        IF i \in Boot!Live /\ v2[i] \in Tmux THEN v2[i]
                        ELSE IF i \in DOMAIN v4 THEN v4[i] ELSE Nothing]
        BY <1>6 DEF Boot!OpenWebSessions
    <2>2. \A j \in DOMAIN v4' : \/ j \in DOMAIN v4 /\ v4'[j] = v4[j]
                                \/ v2'[j] = v4'[j] \/ v4'[j] \notin Tmux
        BY <2>1, PageAssumption
    <2>3. AnswersAgree'
        BY <2>1, <2>2, NamedWell DEF OwedInv
    <2> QED
        BY <1>i, <2>1, <2>3, NothingOwed DEF OwedInv, Promised
<1>7. CASE Boot!RestorePlain
    <2> DEFINE i == Head(v6.todo).id
    <2>1. /\ UNCHANGED <<v1, v2, v7, v9>> /\ v6.step = "restore" /\ v6'.step = "restore"
        BY <1>0, <1>7 DEF Boot!RestorePlain, Boot!Restored
    <2>2. IF i \in DOMAIN v4 THEN v4' = [v4 EXCEPT ![i] = Boot!NameFor(i, @)]
          ELSE v4' = Boot!With(v4, i, Boot!NameFor(i, Nothing))
        BY <1>7 DEF Boot!RestorePlain
    <2> HIDE DEF i
    <2>3. \A j \in DOMAIN v4' : \/ j \in DOMAIN v4 /\ v4'[j] = v4[j]
                                \/ v2'[j] = v4'[j] \/ v4'[j] \notin Tmux
        BY <2>1, <2>2, PageAssumption DEF Boot!NameFor, Boot!With
    <2>4. AnswersAgree'
        BY <2>1, <2>3, NamedWell DEF OwedInv
    <2> QED
        BY <2>1, <2>4, NothingOwed DEF OwedInv, Promised
<1>8. ASSUME NEW i \in Ids, Boot!RestoreTmux(i) PROVE OwedInv'
    <2> DEFINE n == Head(v6.todo).tmux
    <2>1. /\ UNCHANGED <<v1, v7, v9>> /\ v6.step = "restore" /\ v6'.step = "restore"
          /\ v2' = [v2 EXCEPT ![i] = n]
          /\ v4' = v4 \/ v4' = Boot!With(v4, i, n)
        BY <1>0, <1>8 DEF Boot!RestoreTmux, Boot!Restored, Boot!Attach
    <2> HIDE DEF n
    <2>2. v2'[i] = n
        BY <1>8, <2>1 DEF NamesInv, NamesTyped
    <2>3. \A j \in DOMAIN v4' : \/ j \in DOMAIN v4 /\ v4'[j] = v4[j]
                                \/ v2'[j] = v4'[j]
        BY <2>1, <2>2 DEF Boot!With
    <2>4. AnswersAgree'
        BY <2>1, <2>3, NamedWell DEF OwedInv
    <2> QED
        BY <2>1, <2>4, NothingOwed DEF OwedInv, Promised
<1>9. CASE Boot!ListRejected
    <2>1. /\ UNCHANGED <<v1, v4, v7, v9>> /\ v6.step \in {"sessions", "tmux"}
          /\ v6'.step = "failed"
        BY <1>0, <1>9 DEF Boot!ListRejected
    <2> QED
        BY <1>a, <2>1, NothingOwed DEF OwedInv, Promised
<1>10. CASE Boot!CreateSession
    <2>1. UNCHANGED <<v4, v9>> /\ v6.step = "failed" /\ v6'.step = "ready"
        BY <1>i, <1>10 DEF Boot!CreateSession
    <2>2. v1' \subseteq Tmux /\ AnswersAgree'
        <3>1. CASE UNCHANGED <<v1, v2, v7>>
            BY <1>a, <2>1, <3>1 DEF OwedInv
        <3>2. ASSUME NEW i \in Ids, Boot!Asks(i, "plain", Plain)
              PROVE  v1' \subseteq Tmux /\ AnswersAgree'
            BY <2>1, <3>2, AsksAgree DEF OwedInv, Boot!Asks
        <3>3. ASSUME NEW i \in Ids, NEW n \in Tmux, Boot!Asks(i, "create", n)
              PROVE  v1' \subseteq Tmux /\ AnswersAgree'
            <4>1. v1' = v1 \cup {n}
                BY <3>3 DEF Boot!Asks
            <4>2. AnswersAgree'
                BY <2>1, <3>3, AsksAgree DEF OwedInv
            <4> QED
                BY <4>1, <4>2 DEF OwedInv
        <3> QED
            BY <1>10, <3>1, <3>2, <3>3 DEF Boot!CreateSession
    <2> QED
        BY <2>1, <2>2 DEF OwedInv, Promised
<1> HIDE DEF Boot!SameTabs, Boot!SwitchTab, Boot!AddTab
<1> QED
    BY <1>1, <1>2, <1>3, <1>4, <1>5, <1>6, <1>7, <1>8, <1>9, <1>10

(* The two loops that open what the server has listed.                     *)
LEMMA LoopsOwe ==
    ASSUME NamesInv, NamesInv', OwedInv,
           \/ Boot!FetchTmux \/ Boot!ListTmux \/ Boot!AttachRefused
           \/ Boot!AttachRejected \/ Boot!FillEnds \/ Boot!AttachEnds
           \/ \E i \in Ids : Boot!FillTmux(i) \/ Boot!AttachNext(i)
    PROVE  OwedInv'
<1> USE DEF Boot!SameTabs, Boot!SwitchTab, Boot!AddTab, Boot!AddTabSaved
<1>0. DOMAIN v6 = {"step", "todo", "first", "restored", "live"}
    BY DEF NamesInv, NamesTyped
<1>i. /\ Boot!Idle.step = "ready"
      /\ \A x, y : /\ [Boot!Idle EXCEPT !.step = x, !.todo = y].step = x
                   /\ [Boot!Idle EXCEPT !.step = x, !.todo = y].todo = y
    BY DEF Boot!Idle
<1>a. v4' = v4 /\ v7' = v7 => AnswersAgree'
    BY DEF OwedInv, AnswersAgree
<1>1. CASE Boot!FetchTmux
    <2> DEFINE missing == v1 \ Boot!NamesShown
    <2>1. UNCHANGED <<v1, v4, v7>> /\ v6.step = "reconcile"
        BY <1>1 DEF Boot!FetchTmux
    <2>2. CASE v6' = Boot!Idle /\ v9' = {}
        BY <1>i, <1>a, <2>1, <2>2, NothingOwed
    <2>3. ASSUME NEW x \in Boot!Wanted(missing \cap Boot!Listed, v5),
                 NEW y \in Boot!Wanted(missing \ Boot!Listed, <<>>),
                 v6' = [v6 EXCEPT !.step = "fill", !.todo = x \o y], v9' = v1
          PROVE  OwedInv'
        <3>1. v1 \subseteq Tmux
            BY DEF OwedInv
        <3>2. Worklist(x) /\ \A n \in missing \cap Boot!Listed : Waits(x, n)
            BY <2>3, <3>1, WantedAll
        <3>3. Worklist(y) /\ \A n \in missing \ Boot!Listed : Waits(y, n)
            BY <2>3, <3>1, WantedAll
        <3>4. Worklist(x \o y) /\ \A n \in missing : Waits(x \o y, n)
            BY <3>2, <3>3, BothWait
        <3>5. v6'.step = "fill" /\ v6'.todo = x \o y
            BY <1>0, <2>3
        <3>6. \A n \in v9' : Shows(v4', n) \/ Waits(v6'.todo, n)
            BY <2>1, <2>3, <3>4, <3>5 DEF Shows, Boot!NamesShown
        <3> QED
            BY <1>a, <2>1, <2>3, <3>1, <3>4, <3>5, <3>6 DEF OwedInv, Promised
    <2> QED
        BY <1>1, <2>2, <2>3 DEF Boot!FetchTmux
<1>2. CASE Boot!ListTmux
    <2>1. UNCHANGED <<v1, v4, v7>> /\ v1 \subseteq Tmux
        BY <1>2 DEF Boot!ListTmux, OwedInv
    <2>2. CASE v6' = Boot!Idle /\ v9' = {}
        BY <1>i, <1>a, <2>1, <2>2, NothingOwed
    <2>3. ASSUME NEW o \in Boot!Wanted(v1, <<>>), v9' = v1,
                 v6' = [Boot!Idle EXCEPT !.step = "attach", !.todo = o]
          PROVE  OwedInv'
        <3>1. Worklist(o) /\ \A n \in v1 : Waits(o, n)
            BY <2>1, WantedAll
        <3>2. v6'.step = "attach" /\ v6'.todo = o
            BY <1>i, <2>3
        <3> QED
            BY <1>a, <2>1, <2>3, <3>1, <3>2 DEF OwedInv, Promised
    <2> QED
        BY <1>2, <2>2, <2>3 DEF Boot!ListTmux
<1>3. CASE Boot!AttachRefused
    <2>1. /\ UNCHANGED <<v1, v4, v7>> /\ v6.step \in {"fill", "attach"} /\ v6.todo # <<>>
          /\ v9' = v9 \ {Head(v6.todo).tmux}
          /\ v6'.step = v6.step /\ v6'.todo = Tail(v6.todo)
        BY <1>0, <1>3 DEF Boot!AttachRefused
    <2>2. Worklist(v6.todo) /\ \A n \in v9 : Shows(v4, n) \/ Waits(v6.todo, n)
        BY <2>1 DEF OwedInv, Promised
    <2>3. /\ Worklist(Tail(v6.todo))
          /\ \A n : Waits(v6.todo, n) /\ n # Head(v6.todo).tmux => Waits(Tail(v6.todo), n)
        BY <2>1, <2>2, HeadDone
    <2>4. \A n \in v9' : Shows(v4', n) \/ Waits(v6'.todo, n)
        BY <2>1, <2>2, <2>3
    <2> QED
        BY <1>a, <2>1, <2>3, <2>4 DEF OwedInv, Promised
<1>6. CASE Boot!AttachRejected
    <2>1. /\ UNCHANGED <<v1, v4, v7>> /\ v6.step \in {"fill", "attach"}
          /\ v9' = v9 \ {v6.todo[k].tmux : k \in DOMAIN v6.todo}
          /\ v6' = Boot!Idle \/ v6' = [Boot!Idle EXCEPT !.step = "failed"]
        BY <1>6 DEF Boot!AttachRejected
    <2>2. Worklist(v6.todo) /\ \A n \in v9 : Shows(v4, n) \/ Waits(v6.todo, n)
        BY <2>1 DEF OwedInv, Promised
    <2>3. DOMAIN v6.todo = 1 .. Len(v6.todo)
        BY <2>2, LenProperties DEF Worklist
    <2>4. \A n \in v9' : Shows(v4', n)
        BY <2>1, <2>2, <2>3 DEF Waits
    <2>5. v6'.step \in {"ready", "failed"} /\ v9' \subseteq v9
        BY <2>1 DEF Boot!Idle
    <2> QED
        BY <1>a, <2>1, <2>4, <2>5 DEF OwedInv, Promised
<1>4. CASE Boot!FillEnds \/ Boot!AttachEnds
    <2>1. /\ UNCHANGED <<v1, v4, v7, v9>> /\ v6.step \in {"fill", "attach"} /\ v6.todo = <<>>
          /\ v6' = Boot!Idle
        BY <1>4 DEF Boot!FillEnds, Boot!AttachEnds
    <2>2. \A n : ~Waits(v6.todo, n)
        BY <2>1 DEF Waits
    <2>3. \A n \in v9' : Shows(v4', n)
        BY <2>1, <2>2 DEF OwedInv, Promised
    <2> QED
        BY <1>i, <1>a, <2>1, <2>3 DEF OwedInv, Promised
<1>5. ASSUME NEW i \in Ids, Boot!FillTmux(i) \/ Boot!AttachNext(i) PROVE OwedInv'
    <2> DEFINE n == Head(v6.todo).tmux
    <2>1. /\ v6.step \in {"fill", "attach"} /\ v6.todo # <<>>
          /\ v2' = [v2 EXCEPT ![i] = n] /\ UNCHANGED <<v1, v7, v9>>
          /\ \/ i \in DOMAIN v4 /\ v4' = v4
             \/ i \notin DOMAIN v4 /\ v4' = Boot!With(v4, i, n)
        BY <1>5 DEF Boot!FillTmux, Boot!AttachNext, Boot!Attach
    <2>2. v6'.step = v6.step /\ v6'.todo = Tail(v6.todo)
        BY <1>0, <1>5 DEF Boot!FillTmux, Boot!AttachNext
    <2>3. n = Head(v6.todo).tmux
        OBVIOUS
    <2> HIDE DEF n
    <2>4. v2'[i] = n /\ v6.step \in {"fill", "attach"} /\ v6.todo # <<>>
        BY <2>1 DEF NamesInv, NamesTyped
    <2>5. UNCHANGED <<v1, v7, v9>>
        BY <2>1
    <2>6. CASE i \in DOMAIN v4 /\ v4' = v4
        BY <2>2, <2>3, <2>4, <2>5, <2>6, AttachedShown
    <2>7. CASE i \notin DOMAIN v4 /\ v4' = Boot!With(v4, i, n)
        BY <2>2, <2>3, <2>4, <2>5, <2>7, AttachedShown
    <2> QED
        BY <2>1, <2>6, <2>7
<1> HIDE DEF Boot!SameTabs, Boot!SwitchTab, Boot!AddTab, Boot!AddTabSaved
<1> QED
    BY <1>1, <1>2, <1>3, <1>4, <1>5, <1>6

(* What the user and others do, while booting goes on or when it is over.  *)
LEMMA OthersOwe ==
    ASSUME NamesInv, NamesInv', OwedInv,
           \/ \E i \in Ids : \/ Boot!ClickTab(i) \/ Boot!CloseTab(i) \/ Boot!CloseAnswered(i)
                             \/ Boot!Request(i, "plain", Plain)
                             \/ \E n \in Tmux : \/ Boot!Request(i, "create", n)
                                                \/ Boot!Request(i, "attach", n)
           \/ \E a \in v7 : Boot!Answer(a) \/ Boot!AnswerLost(a)
           \/ \E k, l \in DOMAIN v3 : Boot!DragTab(k, l)
           \/ \E n \in Tmux : Boot!TmuxStarts(n) \/ Boot!TmuxEnds(n)
           \/ Boot!ServerRestarts
    PROVE  OwedInv'
<1>0. v1 \subseteq Tmux /\ v9 \subseteq Tmux
    BY DEF OwedInv
<1>a. v4' = v4 /\ v7' = v7 => AnswersAgree'
    BY DEF OwedInv, AnswersAgree
<1>s. ASSUME UNCHANGED <<v4, v6, v7>>, v9' \subseteq v9, v1' \subseteq Tmux PROVE OwedInv'
    BY <1>a, <1>s, StandsStill
<1>1. ASSUME NEW i \in Ids, Boot!ClickTab(i) PROVE OwedInv'
    BY <1>0, <1>s, <1>1 DEF Boot!ClickTab, Boot!SwitchTab
<1>2. ASSUME NEW i \in Ids, Boot!CloseTab(i) PROVE OwedInv'
    <2>1. /\ v4' = [j \in DOMAIN v4 \ {i} |-> v4[j]] /\ v9' = v9 \ {v4[i]}
          /\ UNCHANGED <<v1, v6, v7>>
        BY <1>2 DEF Boot!CloseTab
    <2>2. AnswersAgree'
        BY <2>1 DEF OwedInv, AnswersAgree
    <2>3. \A n \in v9' : Shows(v4, n) => Shows(v4', n)
        BY <2>1 DEF Shows
    <2> QED
        BY <1>0, <2>1, <2>2, <2>3, StandsStill
<1>3. ASSUME NEW i \in Ids, Boot!CloseAnswered(i) PROVE OwedInv'
    BY <1>0, <1>s, <1>3 DEF Boot!CloseAnswered
<1>4. ASSUME NEW i \in Ids, NEW n, NEW how, Boot!Request(i, how, n),
             how = "plain" \/ (how \in {"create", "attach"} /\ n \in Tmux)
      PROVE  OwedInv'
    <2>1. UNCHANGED <<v4, v6, v9>> /\ v7 = {} /\ Boot!Asks(i, how, n)
        BY <1>4 DEF Boot!Request
    <2>2. v1' \subseteq Tmux
        BY <1>0, <1>4, <2>1 DEF Boot!Asks
    <2>3. AnswersAgree'
        BY <1>4, <2>1, AsksAgree DEF OwedInv
    <2> QED
        BY <2>1, <2>2, <2>3, StandsStill
<1>5. ASSUME NEW a \in v7, Boot!Answer(a) PROVE OwedInv'
    <2>1. /\ v7' = v7 \ {a} /\ UNCHANGED <<v1, v6, v9>>
          /\ \/ v4' = v4
             \/ /\ a.how # "attach" \/ a.id \notin DOMAIN v4
                /\ v4' = Boot!With(v4, a.id, a.tmux)
        BY <1>5 DEF Boot!Answer, Boot!SwitchTab, Boot!AddTab, Boot!AddTabSaved
    <2>2. a.how # "attach" /\ a.id \in DOMAIN v4 /\ v4[a.id] \in Tmux => v4[a.id] = a.tmux
        BY <1>5 DEF OwedInv, AnswersAgree
    <2>3. \A j \in DOMAIN v4 : v4[j] \in Tmux => j \in DOMAIN v4' /\ v4'[j] = v4[j]
        BY <2>1, <2>2 DEF Boot!With
    <2>4. \A n \in v9' : Shows(v4, n) => Shows(v4', n)
        BY <1>0, <2>1, <2>3 DEF Shows
    <2>5. ASSUME NEW b \in v7' PROVE b \in v7 /\ b.id # a.id
        BY <2>1 DEF OwedInv, AnswersAgree
    <2>6. \A j \in DOMAIN v4' : j = a.id \/ (j \in DOMAIN v4 /\ v4'[j] = v4[j])
        BY <2>1 DEF Boot!With
    <2>7. AnswersAgree'
        BY <2>5, <2>6 DEF OwedInv, AnswersAgree
    <2> QED
        BY <1>0, <2>1, <2>4, <2>7, StandsStill
<1>6. ASSUME NEW k, NEW l, Boot!DragTab(k, l) PROVE OwedInv'
    BY <1>0, <1>s, <1>6 DEF Boot!DragTab
<1>7. ASSUME NEW n \in Tmux, Boot!TmuxStarts(n) \/ Boot!TmuxEnds(n) PROVE OwedInv'
    BY <1>0, <1>s, <1>7 DEF Boot!TmuxStarts, Boot!TmuxEnds
<1>8. CASE Boot!ServerRestarts
    BY <1>0, <1>s, <1>8 DEF Boot!ServerRestarts
<1>9. ASSUME NEW a \in v7, Boot!AnswerLost(a) PROVE OwedInv'
    <2>1. v7' \subseteq v7 /\ UNCHANGED <<v1, v4, v6, v9>>
        BY <1>9 DEF Boot!AnswerLost
    <2>2. AnswersAgree'
        BY <2>1 DEF OwedInv, AnswersAgree
    <2> QED
        BY <1>0, <2>1, <2>2, StandsStill
<1> QED
    BY <1>1, <1>2, <1>3, <1>4, <1>5, <1>6, <1>7, <1>8, <1>9

(* What is owed is shown or waits, in every state of the tabs.             *)
LEMMA OwedAlways == PageSpec => [](part = "sessions" => OwedInv)
<1> DEFINE Names == part = "sessions" => NamesInv
           Inv == part = "sessions" => OwedInv
<1>1. PageInit => Inv
    <2>1. SUFFICES ASSUME PageInit, part = "sessions" PROVE OwedInv
        OBVIOUS
    <2>2. Boot!SessionsInit
        BY <2>1 DEF PageInit
    <2>3. v1 \subseteq Tmux /\ v7 = {} /\ v9 = {} /\ v6.step = "sessions"
        BY <2>2 DEF Boot!SessionsInit, Boot!Idle
    <2> QED
        BY <2>3 DEF OwedInv, AnswersAgree, Promised
<1>2. Names /\ Names' /\ Inv /\ [PageNext]_pageVars => Inv'
    <2>1. SUFFICES ASSUME Names, Names', Inv, [PageNext]_pageVars, part' = "sessions"
                   PROVE  OwedInv'
        OBVIOUS
    <2>2. /\ NamesInv /\ NamesInv' /\ OwedInv
          /\ [Boot!SessionsNext]_<<v1, v2, v3, v4, v5, v6, v7, v8, v9>>
        BY <2>1, TerminalPartSteps
    <2>3. CASE UNCHANGED <<v1, v2, v3, v4, v5, v6, v7, v8, v9>>
        BY <2>2, <2>3 DEF OwedInv, AnswersAgree
    <2>4. CASE Boot!SessionsNext
        BY <2>2, <2>4, FirstStepsOwe, LoopsOwe, OthersOwe DEF Boot!SessionsNext
    <2> QED
        BY <2>2, <2>3, <2>4
<1>3. PageSpec => []Names
    BY NamesAlways
<1> HIDE DEF Names
<1> QED
    BY <1>1, <1>2, <1>3, PTL DEF PageSpec

(* workspace.js:111, boot.js:163: of the tmux sessions that the server had *)
(* listed, booting leaves behind none but those that were refused, those   *)
(* that ended or were closed, and those whose turn had not passed when a   *)
(* request was rejected: BootShowsAllTmux, for any finitely many of them   *)
(* and whatever happens meanwhile.                                         *)
THEOREM BootLeavesNone == PageSpec => []BootShowsAllTmux
<1>1. OwedInv => Boot!BootShowsAllTmux
    BY DEF OwedInv, Promised, Shows, Boot!BootShowsAllTmux, Boot!NamesShown
<1>2. (part = "sessions" => OwedInv) => BootShowsAllTmux
    BY <1>1 DEF BootShowsAllTmux
<1> QED
    BY <1>2, OwedAlways, PTL

-----------------------------------------------------------------------------
(* A size is none or that of a box in some font.                           *)
Sized ==
    /\ v5 \in [cols : Screen!Widths, cell : Cells]
    /\ v7 \in Screen!Widths /\ v10 \in Screen!Widths /\ v4 \in BOOLEAN /\ v8 \in BOOLEAN

(* fitAndResize leaves the terminal with a size it can have.               *)
LEMMA FitSized ==
    ASSUME ScreenTypes, Sized, NEW cs, NEW last, NEW known \in Screen!Widths,
           NEW size \in Screen!Widths, NEW cell \in Cells,
           Screen!FitAndResize(cs, last, known, size, cell)
    PROVE  /\ v5' \in [cols : Screen!Widths, cell : Cells]
           /\ v7' \in Screen!Widths /\ v10' \in Screen!Widths
<1> DEFINE cols == v9.box \div cell
<1>1. cols \in Screen!Widths
    BY DEF ScreenTypes, Screen!Widths
<1>2. CASE ~v9.shown \/ v9.box = 0 \/ last = v9.box
    BY <1>2 DEF Screen!FitAndResize, Sized
<1>3. CASE v9.shown /\ v9.box # 0 /\ last # v9.box
    <2>1. v5' = [cols |-> cols, cell |-> cell] /\ Screen!SendResize(cs, cols, known, size)
        BY <1>3 DEF Screen!FitAndResize
    <2> HIDE DEF cols
    <2>2. v7' \in {known, cols} /\ v10' \in {size, cols}
        BY <2>1 DEF Screen!SendResize
    <2> QED
        BY <1>1, <2>1, <2>2
<1> QED
    BY <1>2, <1>3 DEF ScreenTypes

(* Sizes stay sizes.                                                       *)
LEMMA SizedStep ==
    ScreenInv /\ Sized /\ [Screen!Next]_<<v1, v2, v3, v4, v5, v6, v7, v8, v9, v10, v11>>
        => Sized'
<1> SUFFICES ASSUME ScreenInv, Sized,
                    [Screen!Next]_<<v1, v2, v3, v4, v5, v6, v7, v8, v9, v10, v11>>
             PROVE  Sized'
    OBVIOUS
<1>1. ScreenTypes /\ v5.cell \in Cells /\ 0 \in Screen!Widths
    BY DEF ScreenInv, ScreenTypes, Screen!Widths
<1>2. /\ v5 \in [cols : Screen!Widths, cell : Cells]
      /\ v7 \in Screen!Widths /\ v10 \in Screen!Widths /\ v4 \in BOOLEAN /\ v8 \in BOOLEAN
    BY DEF Sized
<1>3. ASSUME UNCHANGED <<v5, v7, v10>>, v4' \in BOOLEAN, v8' \in BOOLEAN PROVE Sized'
    BY <1>2, <1>3 DEF Sized
<1>4. ASSUME NEW n, Screen!Connect(n) \/ Screen!HelloRefused(n) \/ Screen!CloseSocket(n)
                    \/ Screen!ScrollbackEnd(n) \/ Screen!Guard(n)
      PROVE  Sized'
    BY <1>2, <1>3, <1>4 DEF Screen!Connect, Screen!HelloRefused, Screen!CloseSocket,
                            Screen!ScrollbackEnd, Screen!Guard, Screen!EndReplay
<1>5. ASSUME NEW n, Screen!OpenSocket(n) PROVE Sized'
    <2> DEFINE cs == [v1 EXCEPT ![n].state = "open"]
    <2>1. PICK size \in {v10, 0} :
             IF v3 THEN v7' = 0 /\ v10' = size /\ v5' = v5
             ELSE Screen!FitAndResize(cs, 0, 0, size, v5.cell)
        BY <1>5 DEF Screen!OpenSocket, Screen!FittedAfterOpen
    <2>2. v4' = TRUE /\ v8' = v8
        BY <1>5 DEF Screen!OpenSocket
    <2>3. size \in Screen!Widths
        BY <1>1, <1>2
    <2> HIDE DEF cs
    <2> QED
        BY <1>1, <1>2, <2>1, <2>2, <2>3, FitSized DEF Sized
<1>6. ASSUME NEW n, Screen!HelloAccepted(n) PROVE Sized'
    BY <1>1, <1>2, <1>6, FitSized DEF Screen!HelloAccepted, Sized
<1>7. ASSUME NEW box, Screen!Resize(box) PROVE Sized'
    BY <1>2, <1>3, <1>7 DEF Screen!Resize
<1>8. CASE Screen!Show \/ Screen!Hide
    BY <1>2, <1>3, <1>8 DEF Screen!Show, Screen!Hide
<1>9. CASE Screen!FitDue
    BY <1>1, <1>2, <1>9, FitSized DEF Screen!FitDue, Sized
<1>10. ASSUME NEW cell \in Cells, Screen!SettingsFont(cell) \/ Screen!PinchElsewhere(cell)
       PROVE  Sized'
    BY <1>2, <1>10 DEF Screen!SettingsFont, Screen!PinchElsewhere, Sized
<1>11. ASSUME NEW cell \in Cells, Screen!PinchFont(cell) PROVE Sized'
    BY <1>1, <1>2, <1>11, FitSized DEF Screen!PinchFont, Sized
<1>12. ASSUME NEW cell \in Cells, Screen!Refit(cell) PROVE Sized'
    <2> DEFINE cols == IF v9.shown /\ v9.box # 0 THEN v9.box \div cell ELSE v5.cols
    <2>1. cols \in Screen!Widths
        BY <1>1, <1>2 DEF ScreenTypes, Screen!Widths
    <2>2. v5' = [cols |-> cols, cell |-> cell] /\ UNCHANGED <<v4, v7, v8, v10>>
        BY <1>12 DEF Screen!Refit
    <2> HIDE DEF cols
    <2> QED
        BY <1>2, <2>1, <2>2 DEF Sized
<1>13. CASE UNCHANGED <<v1, v2, v3, v4, v5, v6, v7, v8, v9, v10, v11>>
    BY <1>2, <1>3, <1>13
<1> QED
    BY <1>4, <1>5, <1>6, <1>7, <1>8, <1>9, <1>10, <1>11, <1>12, <1>13 DEF Screen!Next

(* The active session, and no more retries than the delay grows with.      *)
FrontTyped ==
    /\ v6 \in Sessions \cup {None}
    /\ \A s \in Sessions : v2[s].retries \in 0..RetryCap

(* Changing one chain of connections leaves the number of its retries      *)
(* within the cap.                                                         *)
LEMMA CapKept ==
    ASSUME SocketsInv, FrontTyped, NEW s, NEW c, v2' = [v2 EXCEPT ![s] = c],
           s \in Sessions => c.retries \in 0..RetryCap
    PROVE  \A t \in Sessions : v2'[t].retries \in 0..RetryCap
<1>1. \A t \in Sessions : v2'[t] = IF t = s THEN c ELSE v2[t]
    BY DEF SocketsInv
<1> QED
    BY <1>1 DEF FrontTyped

(* What is in front stays a session or none, and no chain exceeds its      *)
(* retries.                                                                *)
LEMMA FrontStep ==
    SocketsInv /\ FrontTyped /\ [Sockets!Next]_<<v1, v2, v3, v4, v5, v6>> => FrontTyped'
<1> SUFFICES ASSUME SocketsInv, FrontTyped, [Sockets!Next]_<<v1, v2, v3, v4, v5, v6>>
             PROVE  FrontTyped'
    OBVIOUS
<1>1. RetryCap \in Nat /\ \A s \in Sessions : v2[s].retries \in 0..RetryCap
    BY PageAssumption DEF FrontTyped
<1>2. ASSUME v2' = v2, v6' \in Sessions \cup {None} PROVE FrontTyped'
    BY <1>2 DEF FrontTyped
<1>3. ASSUME NEW s, v2' = [v2 EXCEPT ![s] = Sockets!Untimed(v2[s])], v6' = v6 PROVE FrontTyped'
    <2>1. s \in Sessions => Sockets!Untimed(v2[s]).retries = v2[s].retries
        BY UntimedFits DEF SocketsInv, SessionFine
    <2>2. s \in Sessions => Sockets!Untimed(v2[s]).retries \in 0..RetryCap
        BY <1>1, <2>1
    <2> QED
        BY <1>3, <2>2, CapKept DEF FrontTyped
<1>4. ASSUME NEW s \in Sessions, Sockets!TimerFires(s) PROVE FrontTyped'
    <2> DEFINE c == [v2[s] EXCEPT !.timers = v2[s].timers - 1]
    <2>1. c.retries = v2[s].retries
        BY DEF SocketsInv, Chain
    <2>2. /\ v2' = [v2 EXCEPT ![s] = Sockets!Untimed(v2[s])] \/ v2' = [v2 EXCEPT ![s] = c]
          /\ v6' = v6
        BY <1>4 DEF Sockets!TimerFires
    <2> HIDE DEF c
    <2>3. c.retries \in 0..RetryCap
        BY <1>1, <2>1
    <2> QED
        BY <1>3, <2>2, <2>3, CapKept DEF FrontTyped
<1>5. ASSUME NEW s \in Sessions, Sockets!Stable(s) PROVE FrontTyped'
    <2> DEFINE c == [v2[s] EXCEPT !.stable = FALSE, !.retries = 0]
    <2>1. v2' = [v2 EXCEPT ![s] = c] /\ v6' = v6
        BY <1>5 DEF Sockets!Stable, SocketsInv
    <2>2. c.retries \in 0..RetryCap
        BY <1>1 DEF SocketsInv, Chain
    <2> HIDE DEF c
    <2> QED
        BY <2>1, <2>2, CapKept DEF FrontTyped
<1>6. ASSUME NEW n \in Sockets!SocketIds, Sockets!OpenSocket(n) PROVE FrontTyped'
    <2> DEFINE s == v3[n].of
               c == IF Sockets!Open(s) THEN Sockets!ChainOpened(v2[s]) ELSE v2[s]
    <2>1. v2' = [v2 EXCEPT ![s] = c] /\ v6' = v6
        BY <1>6 DEF Sockets!OpenSocket
    <2>2. s \in Sessions => c.retries = v2[s].retries
        BY DEF SocketsInv, Chain, Sockets!ChainOpened
    <2> HIDE DEF c
    <2>3. s \in Sessions => c.retries \in 0..RetryCap
        BY <1>1, <2>2
    <2> QED
        BY <2>1, <2>3, CapKept DEF FrontTyped
<1>7. ASSUME NEW n \in Sockets!SocketIds, NEW refused \in BOOLEAN,
             Sockets!CloseSocket(n, refused)
      PROVE  FrontTyped'
    <2> DEFINE s == v3[n].of
               c == [v2[s] EXCEPT !.stable = FALSE]
               more == IF c.retries < RetryCap THEN c.retries + 1 ELSE c.retries
               retried == [c EXCEPT !.retries = more]
               later == [retried EXCEPT !.timers = @ + 1, !.tracked = TRUE]
               never == [c EXCEPT !.refused = TRUE]
    <2>1. /\ v2' = [v2 EXCEPT ![s] = c] \/ v2' = [v2 EXCEPT ![s] = never]
             \/ v2' = [v2 EXCEPT ![s] = retried] \/ v2' = [v2 EXCEPT ![s] = later]
          /\ v6' = v6
        BY <1>7 DEF Sockets!CloseSocket
    <2>2. ASSUME s \in Sessions
          PROVE  /\ c.retries = v2[s].retries /\ never.retries = v2[s].retries
                 /\ retried.retries = more /\ later.retries = more
        BY <2>2 DEF SocketsInv, Chain
    <2>3. ASSUME s \in Sessions PROVE more \in 0..RetryCap
        BY <1>1, <2>2, <2>3
    <2> HIDE DEF c, more, retried, later, never
    <2> QED
        BY <1>1, <2>1, <2>2, <2>3, CapKept DEF FrontTyped
<1>8. CASE Sockets!ReconnectNow \/ Sockets!GraceEnds
    BY <1>2, <1>8 DEF Sockets!ReconnectNow, Sockets!GraceEnds, FrontTyped
<1>9. CASE Sockets!StopRetries
    BY <1>3, <1>9 DEF Sockets!StopRetries
<1>10. ASSUME NEW s \in Sessions,
              Sockets!AddSession(s) \/ Sockets!SwitchTo(s) \/ Sockets!RemoveAnswered(s)
       PROVE  FrontTyped'
    <2>1. v2' = v2 /\ v6' \in Sessions \cup {None}
        BY <1>10 DEF Sockets!AddSession, Sockets!SwitchTo, Sockets!RemoveAnswered
    <2> QED
        BY <1>2, <2>1
<1>11. ASSUME NEW s \in Sessions, Sockets!RemoveSession(s) PROVE FrontTyped'
    BY <1>3, <1>11 DEF Sockets!RemoveSession
<1>12. CASE UNCHANGED <<v1, v2, v3, v4, v5, v6>>
    BY <1>2, <1>12 DEF FrontTyped
<1> QED
    BY <1>4, <1>5, <1>6, <1>7, <1>8, <1>9, <1>10, <1>11, <1>12 DEF Sockets!Next
-----------------------------------------------------------------------------
(* Of some places one is the first.                                        *)
LEMMA FirstOfAll ==
    ASSUME NEW D, D \subseteq Nat, D # {}
    PROVE  \E m \in D : \A j \in D : m <= j
<1> DEFINE T == {1..m : m \in D}
<1>1. \A m \in D : IsFiniteSet(1..m)
    BY FS_Interval
<1>2. T \subseteq FiniteSubsetsOf(Nat) /\ T # {}
    <2>1. \A m \in D : 1..m \in SUBSET Nat
        OBVIOUS
    <2>2. \A m \in D : 1..m \in FiniteSubsetsOf(Nat)
        BY <1>1, <2>1 DEF FiniteSubsetsOf
    <2> QED
        BY <2>2
<1>3. IsWellFoundedOn(StrictSubsetOrdering(Nat), FiniteSubsetsOf(Nat))
    BY FS_StrictSubsetOrderingWellFounded
<1>4. PICK x \in T : \A y \in T : ~(<<y, x>> \in StrictSubsetOrdering(Nat))
    BY <1>2, <1>3, WFMin
<1>5. PICK m \in D : x = 1..m
    OBVIOUS
<1>6. ASSUME NEW j \in D, ~(m <= j) PROVE FALSE
    <2>1. 1..j \subseteq 1..m /\ m \in 1..m /\ m \notin 1..j
        BY <1>6
    <2>2. <<1..j, x>> \in StrictSubsetOrdering(Nat)
        <3>1. 1..j \in SUBSET Nat /\ x \in SUBSET Nat /\ 1..j \subseteq x /\ 1..j # x
            BY <1>5, <2>1
        <3> HIDE DEF T
        <3> QED
            BY <3>1 DEF StrictSubsetOrdering
    <2> QED
        BY <1>4, <2>2
<1> QED
    BY <1>5, <1>6

(* Nothing is in a list twice, but what is empty.                          *)
Unshared(ls) == \A j, k \in 1..Len(ls) : ls[j] = ls[k] /\ ls[j] # Empty => j = k

(* A sequence without one of its elements.                                 *)
LEMMA RemovedAt ==
    ASSUME NEW S, NEW s \in Seq(S), NEW k \in 1..Len(s)
    PROVE  LET out == Persist!RemoveAt(s, k)
           IN  /\ out \in Seq(S) /\ Len(out) = Len(s) - 1
               /\ \A m \in 1..(Len(s) - 1) : out[m] = IF m < k THEN s[m] ELSE s[m + 1]
               /\ Unshared(s) => Unshared(out)
<1> DEFINE a == SubSeq(s, 1, k - 1)
           b == SubSeq(s, k + 1, Len(s))
           out == a \o b
<1>1. Len(s) \in Nat /\ k \in Nat /\ \A m \in 1..Len(s) : s[m] \in S
    BY LenProperties, ElementOfSeq
<1>2. a \in Seq(S) /\ Len(a) = k - 1 /\ \A m \in 1..(k - 1) : a[m] = s[m]
    <2>1. 1 \in Int /\ k - 1 \in Int /\ \A m \in 1..(k - 1) : s[m] \in S
        BY <1>1
    <2>2. /\ a \in Seq(S) /\ Len(a) = IF 1 <= k - 1 THEN (k - 1) - 1 + 1 ELSE 0
          /\ \A m \in 1..((k - 1) - 1 + 1) : a[m] = s[1 + m - 1]
        BY <2>1, SubSeqProperties
    <2> HIDE DEF a
    <2> QED
        BY <1>1, <2>2
<1>3. /\ b \in Seq(S) /\ Len(b) = Len(s) - k
      /\ \A m \in 1..(Len(s) - k) : b[m] = s[k + m]
    <2>1. k + 1 \in Int /\ Len(s) \in Int /\ \A m \in (k + 1)..Len(s) : s[m] \in S
        BY <1>1
    <2>2. /\ b \in Seq(S) /\ Len(b) = IF k + 1 <= Len(s) THEN Len(s) - (k + 1) + 1 ELSE 0
          /\ \A m \in 1..(Len(s) - (k + 1) + 1) : b[m] = s[k + 1 + m - 1]
        BY <2>1, SubSeqProperties
    <2> HIDE DEF b
    <2> QED
        BY <1>1, <2>2
<1>4. Persist!RemoveAt(s, k) = out
    BY DEF Persist!RemoveAt
<1> HIDE DEF a, b
<1>5. /\ out \in Seq(S) /\ Len(out) = Len(a) + Len(b)
      /\ \A m \in 1..(Len(a) + Len(b)) : out[m] = IF m <= Len(a) THEN a[m] ELSE b[m - Len(a)]
    BY <1>2, <1>3, ConcatProperties
<1> HIDE DEF out
<1>6. Len(out) = Len(s) - 1
    BY <1>1, <1>2, <1>3, <1>5
<1>7. ASSUME NEW m \in 1..(Len(s) - 1) PROVE out[m] = IF m < k THEN s[m] ELSE s[m + 1]
    <2>1. m \in 1..(Len(a) + Len(b))
        BY <1>1, <1>2, <1>3
    <2>2. CASE m < k
        <3>1. m <= Len(a) /\ m \in 1..(k - 1)
            BY <1>1, <1>2, <2>2
        <3> QED
            BY <1>2, <1>5, <2>1, <2>2, <3>1
    <2>3. CASE ~(m < k)
        <3>1. ~(m <= Len(a)) /\ m - Len(a) \in 1..(Len(s) - k) /\ k + (m - Len(a)) = m + 1
            BY <1>1, <1>2, <2>3
        <3>2. out[m] = b[m - Len(a)]
            BY <1>5, <2>1, <3>1
        <3> QED
            BY <1>3, <2>3, <3>1, <3>2
    <2> QED
        BY <2>2, <2>3
<1>8. ASSUME Unshared(s), NEW i \in 1..Len(out), NEW m \in 1..Len(out),
             out[i] = out[m], out[i] # Empty
      PROVE  i = m
    <2> DEFINE at(j) == IF j < k THEN j ELSE j + 1
    <2>1. ASSUME NEW j \in 1..Len(out) PROVE at(j) \in 1..Len(s) /\ out[j] = s[at(j)]
        <3>1. at(j) \in 1..Len(s) /\ j \in 1..(Len(s) - 1)
            BY <1>1, <1>6
        <3> QED
            BY <1>7, <3>1
    <2>2. i \in Int /\ m \in Int
        BY <1>1, <1>6
    <2> HIDE DEF at
    <2>3. at(i) = at(m)
        BY <1>8, <2>1 DEF Unshared
    <2> QED
        BY <1>1, <2>2, <2>3 DEF at
<1> QED
    BY <1>4, <1>5, <1>6, <1>7, <1>8 DEF Unshared

(* The tabs.  A list of tabs, and what is in it.                           *)
Listing(ts) == ts \in Seq(Ids) /\ Len(ts) <= MaxTabs
HasTab(ts, i) == \E k \in 1..Len(ts) : ts[k] = i
Name == Tmux \cup {Nothing}
Answers == [id : Ids, how : {"plain", "create", "attach"}, tmux : Name]

(* What NamesInv and OwedInv leave open.                                   *)
SessionsRest ==
    /\ v2 \in [Ids -> Tmux \cup {Plain, Nothing}]
    /\ Listing(v3)
    /\ \A i \in DOMAIN v4 : HasTab(v3, i) /\ v4[i] \in Name
    /\ v5 \in Seq(Boot!Entry) /\ Len(v5) <= MaxTabs
    /\ v6.step \in Boot!Steps
    /\ v7 \in SUBSET Answers /\ v8 \in SUBSET Ids

(* The types of tabs and booting follow from what is owed, what is on its  *)
(* way, and the rest.                                                      *)
LEMMA TabsTyped == OwedInv /\ SessionsRest => Boot!SessionsTypeOK
<1> SUFFICES ASSUME OwedInv, SessionsRest PROVE Boot!SessionsTypeOK
    OBVIOUS
<1>1. /\ Len(v3) \in Nat /\ v3 \in [1..Len(v3) -> Ids] /\ Len(v3) <= MaxTabs /\ MaxTabs \in Nat
    BY PageAssumption, LenProperties DEF SessionsRest, Listing
<1>2. v3 \in Boot!BoundedSeq(Ids, MaxTabs)
    <2>1. Len(v3) \in 0..MaxTabs
        BY <1>1
    <2> QED
        BY <1>1, <2>1 DEF Boot!BoundedSeq, Boot!SeqOf
<1>3. DOMAIN v4 \subseteq Boot!ToSet(v3)
    BY <1>1 DEF SessionsRest, HasTab, Boot!ToSet
<1>4. Boot!ToSet(v5) \subseteq Boot!Entry
    <2>1. DOMAIN v5 = 1..Len(v5) /\ \A k \in 1..Len(v5) : v5[k] \in Boot!Entry
        BY LenProperties, ElementOfSeq DEF SessionsRest
    <2> QED
        BY <2>1 DEF Boot!ToSet
<1>5. v1 \subseteq Tmux /\ v9 \subseteq Tmux
    BY DEF OwedInv
<1> QED
    BY <1>2, <1>3, <1>4, <1>5 DEF SessionsRest, Boot!SessionsTypeOK, Name, Answers

(* The page finds a tab of a session that has one.                         *)
LEMMA FirstIs ==
    ASSUME NEW ts \in Seq(Ids), NEW i, HasTab(ts, i)
    PROVE  Boot!FirstOf(ts, i) \in 1..Len(ts) /\ ts[Boot!FirstOf(ts, i)] = i
<1> DEFINE D == {k \in 1..Len(ts) : ts[k] = i}
<1>1. D \subseteq Nat /\ D # {}
    BY LenProperties DEF HasTab
<1>2. PICK m \in D : \A j \in D : m <= j
    BY <1>1, FirstOfAll
<1>3. Len(ts) \in Nat /\ DOMAIN ts = 1..Len(ts)
    BY LenProperties
<1>4. \A j \in 1..(m - 1) : ts[j] # i
    <2>1. SUFFICES ASSUME NEW j \in 1..(m - 1), ts[j] = i PROVE FALSE
        OBVIOUS
    <2>2. j \in D /\ ~(m <= j)
        BY <1>1, <1>2, <1>3, <2>1
    <2> QED
        BY <1>2, <2>2
<1>5. \E k \in DOMAIN ts : ts[k] = i /\ \A j \in 1..(k - 1) : ts[j] # i
    BY <1>2, <1>3, <1>4
<1> QED
    BY <1>3, <1>5 DEF Boot!FirstOf

(* A tab is put in: all that were there still are.                         *)
LEMMA PutIn ==
    ASSUME NEW ts \in Seq(Ids), NEW n \in 1..(Len(ts) + 1), NEW i \in Ids
    PROVE  LET out == Boot!InsertAt(ts, n, i)
           IN  /\ out \in Seq(Ids) /\ Len(out) = Len(ts) + 1 /\ HasTab(out, i)
               /\ \A j : HasTab(ts, j) => HasTab(out, j)
<1> DEFINE a == SubSeq(ts, 1, n - 1)
           c == SubSeq(ts, n, Len(ts))
           out == (a \o <<i>>) \o c
<1>1. Len(ts) \in Nat /\ n \in Nat /\ \A m \in 1..Len(ts) : ts[m] \in Ids
    BY LenProperties, ElementOfSeq
<1>2. a \in Seq(Ids) /\ Len(a) = n - 1 /\ \A m \in 1..(n - 1) : a[m] = ts[m]
    <2>1. 1 \in Int /\ n - 1 \in Int /\ \A m \in 1..(n - 1) : ts[m] \in Ids
        BY <1>1
    <2>2. /\ a \in Seq(Ids) /\ Len(a) = IF 1 <= n - 1 THEN (n - 1) - 1 + 1 ELSE 0
          /\ \A m \in 1..((n - 1) - 1 + 1) : a[m] = ts[1 + m - 1]
        BY <2>1, SubSeqProperties
    <2> HIDE DEF a
    <2> QED
        BY <1>1, <2>2
<1>3. /\ c \in Seq(Ids) /\ Len(c) = Len(ts) - n + 1
      /\ \A m \in 1..(Len(ts) - n + 1) : c[m] = ts[n + m - 1]
    <2>1. n \in Int /\ Len(ts) \in Int /\ \A m \in n..Len(ts) : ts[m] \in Ids
        BY <1>1
    <2>2. /\ c \in Seq(Ids) /\ Len(c) = IF n <= Len(ts) THEN Len(ts) - n + 1 ELSE 0
          /\ \A m \in 1..(Len(ts) - n + 1) : c[m] = ts[n + m - 1]
        BY <2>1, SubSeqProperties
    <2> HIDE DEF c
    <2>3. n <= Len(ts) \/ Len(ts) - n + 1 = 0
        BY <1>1
    <2>4. Len(c) = Len(ts) - n + 1
        BY <2>2, <2>3
    <2> QED
        BY <2>2, <2>4
<1>4. Boot!InsertAt(ts, n, i) = out
    BY DEF Boot!InsertAt
<1> DEFINE b == a \o <<i>>
<1>5. <<i>> \in Seq(Ids) /\ Len(<<i>>) = 1 /\ <<i>>[1] = i
    OBVIOUS
<1> HIDE DEF a, c
<1>6. /\ b \in Seq(Ids) /\ Len(b) = n /\ b[n] = i
      /\ \A m \in 1..(n - 1) : b[m] = ts[m]
    <2>1. /\ b \in Seq(Ids) /\ Len(b) = Len(a) + 1
          /\ \A m \in 1..(Len(a) + 1) : b[m] = IF m <= Len(a) THEN a[m] ELSE <<i>>[m - Len(a)]
        BY <1>2, <1>5, ConcatProperties
    <2> HIDE DEF b
    <2>2. Len(b) = n
        BY <1>1, <1>2, <2>1
    <2>3. n \in 1..(Len(a) + 1) /\ ~(n <= Len(a)) /\ n - Len(a) = 1
        BY <1>1, <1>2
    <2>4. b[n] = i
        BY <1>5, <2>1, <2>3
    <2>5. ASSUME NEW m \in 1..(n - 1) PROVE b[m] = ts[m]
        <3>1. m \in 1..(Len(a) + 1) /\ m <= Len(a)
            BY <1>1, <1>2
        <3> QED
            BY <1>2, <2>1, <3>1
    <2> QED
        BY <2>1, <2>2, <2>4, <2>5
<1>7. out = b \o c
    OBVIOUS
<1> HIDE DEF b, out
<1>8. /\ out \in Seq(Ids) /\ Len(out) = Len(b) + Len(c)
      /\ \A m \in 1..(Len(b) + Len(c)) : out[m] = IF m <= Len(b) THEN b[m] ELSE c[m - Len(b)]
    BY <1>3, <1>6, <1>7, ConcatProperties
<1>9. Len(out) = Len(ts) + 1
    BY <1>1, <1>3, <1>6, <1>8
<1>10. HasTab(out, i)
    <2>1. n \in 1..(Len(b) + Len(c)) /\ n <= Len(b)
        BY <1>1, <1>3, <1>6
    <2>2. out[n] = i /\ n \in 1..Len(out)
        BY <1>6, <1>8, <2>1
    <2> QED
        BY <2>2 DEF HasTab
<1>11. ASSUME NEW m \in 1..Len(ts) PROVE HasTab(out, ts[m])
    <2>1. CASE m < n
        <3>1. m \in 1..(n - 1) /\ m \in 1..(Len(b) + Len(c)) /\ m <= Len(b)
            BY <1>1, <1>3, <1>6, <2>1
        <3>2. out[m] = ts[m] /\ m \in 1..Len(out)
            BY <1>6, <1>8, <3>1
        <3> QED
            BY <3>2 DEF HasTab
    <2>2. CASE ~(m < n)
        <3>1. /\ m + 1 \in 1..(Len(b) + Len(c)) /\ ~(m + 1 <= Len(b))
              /\ m + 1 - Len(b) \in 1..(Len(ts) - n + 1) /\ n + (m + 1 - Len(b)) - 1 = m
            BY <1>1, <1>3, <1>6, <2>2
        <3>2. c[m + 1 - Len(b)] = ts[m]
            BY <1>3, <3>1
        <3>3. out[m + 1] = ts[m] /\ m + 1 \in 1..Len(out)
            BY <1>8, <3>1, <3>2
        <3> QED
            BY <3>3 DEF HasTab
    <2> QED
        BY <2>1, <2>2
<1> QED
    BY <1>4, <1>8, <1>9, <1>10, <1>11 DEF HasTab

(* A tab is taken away: those of the other sessions are still there.       *)
LEMMA TakenAway ==
    ASSUME NEW ts \in Seq(Ids), NEW k \in 1..Len(ts)
    PROVE  LET out == Boot!RemoveAt(ts, k)
           IN  /\ out \in Seq(Ids) /\ Len(out) = Len(ts) - 1
               /\ \A j : HasTab(ts, j) /\ j # ts[k] => HasTab(out, j)
<1> DEFINE out == Boot!RemoveAt(ts, k)
<1>1. out = Persist!RemoveAt(ts, k)
    BY DEF Boot!RemoveAt, Persist!RemoveAt
<1>2. /\ out \in Seq(Ids) /\ Len(out) = Len(ts) - 1
      /\ \A m \in 1..(Len(ts) - 1) : out[m] = IF m < k THEN ts[m] ELSE ts[m + 1]
    BY <1>1, RemovedAt
<1> HIDE DEF out
<1>3. ASSUME NEW m \in 1..Len(ts), ts[m] # ts[k] PROVE HasTab(out, ts[m])
    <2>1. Len(ts) \in Nat /\ m # k
        BY <1>3, LenProperties
    <2>2. CASE m < k
        <3>1. m \in 1..(Len(ts) - 1)
            BY <2>1, <2>2
        <3> QED
            BY <1>2, <2>2, <3>1 DEF HasTab
    <2>3. CASE m > k
        <3>1. m - 1 \in 1..(Len(ts) - 1) /\ ~(m - 1 < k) /\ m - 1 + 1 = m
            BY <2>1, <2>3
        <3>2. out[m - 1] = ts[m]
            BY <1>2, <3>1
        <3> QED
            BY <1>2, <3>1, <3>2 DEF HasTab
    <2> QED
        BY <2>1, <2>2, <2>3
<1> QED
    BY <1>2, <1>3 DEF HasTab, out

(* What is saved of a list of tabs is as long as the list.                 *)
LEMMA SnapshotTyped ==
    ASSUME NEW ts, Listing(ts), NEW r, \A i \in DOMAIN r : r[i] \in Name
    PROVE  Boot!Snapshot(ts, r) \in Seq(Boot!Entry) /\ Len(Boot!Snapshot(ts, r)) <= MaxTabs
<1> DEFINE out == Boot!Snapshot(ts, r)
<1>1. Len(ts) \in Nat /\ DOMAIN ts = 1..Len(ts) /\ \A k \in 1..Len(ts) : ts[k] \in Ids
    BY LenProperties, ElementOfSeq DEF Listing
<1>2. out \in [1..Len(ts) -> Boot!Entry]
    BY <1>1 DEF Boot!Snapshot, Boot!Entry, Name
<1> HIDE DEF out
<1>3. out \in Seq(Boot!Entry) /\ Len(out) = Len(ts)
    BY <1>1, <1>2, LenProperties
<1> QED
    BY <1>3 DEF out, Listing

(* The steps of the tabs: the list of tabs grows by one tab, or by many at *)
(* once; and what is saved of it.                                          *)
LEMMA TabAdded ==
    ASSUME SessionsRest, NEW i \in Ids, NEW before, NEW n \in Name,
           Boot!AddTab(i, before, n) \/ Boot!AddTabSaved(i, n)
    PROVE  /\ Listing(v3)' /\ \A j \in DOMAIN v4' : HasTab(v3', j) /\ v4'[j] \in Name
           /\ v5' \in Seq(Boot!Entry) /\ Len(v5') <= MaxTabs
<1>1. /\ v3 \in Seq(Ids) /\ Len(v3) < MaxTabs /\ v4' = Boot!With(v4, i, n)
      /\ \/ v3' = Boot!InsertTab(v3, i, before) /\ v5' = Boot!Snapshot(v3', Boot!With(v4, i, Nothing))
         \/ v3' = Append(v3, i) /\ v5' = Boot!Snapshot(v3', v4')
    BY DEF SessionsRest, Listing, Boot!AddTab, Boot!AddTabSaved
<1>2. Len(v3) \in Nat /\ MaxTabs \in Nat
    BY <1>1, LenProperties, PageAssumption
<1>3. /\ v3' \in Seq(Ids) /\ Len(v3') = Len(v3) + 1 /\ HasTab(v3', i)
      /\ \A j : HasTab(v3, j) => HasTab(v3', j)
    <2>1. CASE v3' = Append(v3, i)
        <3>1. /\ v3' \in Seq(Ids) /\ Len(v3') = Len(v3) + 1
              /\ \A k \in 1..Len(v3) : v3'[k] = v3[k]
              /\ v3'[Len(v3) + 1] = i
            BY <1>1, <2>1, AppendProperties
        <3>2. Len(v3) + 1 \in 1..Len(v3') /\ \A k \in 1..Len(v3) : k \in 1..Len(v3')
            BY <1>2, <3>1
        <3> QED
            BY <3>1, <3>2 DEF HasTab
    <2>2. CASE v3' = Boot!InsertTab(v3, i, before) /\ before \in Boot!ToSet(v3)
        <3>1. DOMAIN v3 = 1..Len(v3)
            BY <1>1, LenProperties
        <3>2. HasTab(v3, before)
            BY <2>2, <3>1 DEF HasTab, Boot!ToSet
        <3>3. Boot!FirstOf(v3, before) \in 1..(Len(v3) + 1)
            BY <1>1, <1>2, <3>2, FirstIs
        <3>4. v3' = Boot!InsertAt(v3, Boot!FirstOf(v3, before), i)
            BY <2>2 DEF Boot!InsertTab
        <3> QED
            BY <1>1, <3>3, <3>4, PutIn
    <2> QED
        BY <1>1, <2>1, <2>2 DEF Boot!InsertTab
<1>4. Listing(v3')
    BY <1>1, <1>2, <1>3 DEF Listing
<1>5. \A x \in Name : \A j \in DOMAIN Boot!With(v4, i, x) :
          (j = i \/ j \in DOMAIN v4) /\ Boot!With(v4, i, x)[j] \in Name
    BY DEF SessionsRest, Boot!With
<1>6. Nothing \in Name
    BY DEF Name
<1>7. v5' \in Seq(Boot!Entry) /\ Len(v5') <= MaxTabs
    BY <1>1, <1>4, <1>5, <1>6, SnapshotTyped
<1>8. \A j \in DOMAIN v4' : HasTab(v3', j) /\ v4'[j] \in Name
    BY <1>1, <1>3, <1>5 DEF SessionsRest
<1> QED
    BY <1>4, <1>7, <1>8 DEF Listing

(* A switch from one tab to another changes no tab.                        *)
LEMMA TabsSame ==
    ASSUME SessionsRest, Boot!SameTabs \/ \E i : Boot!SwitchTab(i)
    PROVE  /\ Listing(v3)' /\ \A j \in DOMAIN v4' : HasTab(v3', j) /\ v4'[j] \in Name
           /\ v5' \in Seq(Boot!Entry) /\ Len(v5') <= MaxTabs
<1>1. v3' = v3 /\ v4' = v4 /\ v5' \in {v5, Boot!Snapshot(v3, v4)}
    BY DEF Boot!SameTabs, Boot!SwitchTab
<1>2. Boot!Snapshot(v3, v4) \in Seq(Boot!Entry) /\ Len(Boot!Snapshot(v3, v4)) <= MaxTabs
    BY SnapshotTyped DEF SessionsRest
<1> QED
    BY <1>1, <1>2 DEF SessionsRest, Listing

(* The rest of a step that leaves the types as they are.                   *)
LEMMA RestFrom ==
    ASSUME v2' \in [Ids -> Tmux \cup {Plain, Nothing}], v6'.step \in Boot!Steps,
           v7' \in SUBSET Answers, v8' \in SUBSET Ids,
           Listing(v3)', \A j \in DOMAIN v4' : HasTab(v3', j) /\ v4'[j] \in Name,
           v5' \in Seq(Boot!Entry), Len(v5') <= MaxTabs
    PROVE  SessionsRest'
BY DEF SessionsRest, HasTab

(* Booting.                                                                *)
LEMMA StepNames ==
    /\ Boot!Idle.step \in Boot!Steps
    /\ \A x \in Boot!Steps : /\ [Boot!Idle EXCEPT !.step = x].step = x
                            /\ \A y : [Boot!Idle EXCEPT !.step = x, !.todo = y].step = x
    /\ \A b : b.step \in Boot!Steps /\ DOMAIN b = {"step", "todo", "first", "restored", "live"} =>
          /\ \A y : [b EXCEPT !.todo = y].step = b.step
          /\ \A x : [b EXCEPT !.step = x].step = x
          /\ \A x, y : [b EXCEPT !.step = x, !.todo = y].step = x
          /\ \A x, y : [b EXCEPT !.step = x, !.live = y].step = x
          /\ \A x, y : [b EXCEPT !.todo = x, !.restored = y].step = b.step
          /\ \A x, y, z : [b EXCEPT !.todo = x, !.restored = y, !.first = z].step = b.step
BY DEF Boot!Idle, Boot!Steps

(* What a request makes of the web sessions and of the answers on the way. *)
LEMMA LostTyped ==
    ASSUME OwedInv, SessionsRest, NEW n, Boot!MayAttach(n)
    PROVE  v2' \in [Ids -> Tmux \cup {Plain, Nothing}]
<1>1. CASE UNCHANGED v2
    BY <1>1 DEF SessionsRest
<1>2. ASSUME NEW i \in Boot!AttachIds(n), Boot!Attach(i, n)
      PROVE  v2' \in [Ids -> Tmux \cup {Plain, Nothing}]
    <2>1. n \in Tmux
        BY DEF Boot!AttachIds, OwedInv
    <2> QED
        BY <1>2, <2>1 DEF Boot!Attach, SessionsRest
<1> QED
    BY <1>1, <1>2 DEF Boot!MayAttach

LEMMA AsksTyped ==
    ASSUME SessionsRest, NEW i \in Ids, NEW how \in {"plain", "create", "attach"},
           NEW n \in Tmux \cup {Plain}, Boot!Asks(i, how, n)
    PROVE  v2' \in [Ids -> Tmux \cup {Plain, Nothing}] /\ v7' \in SUBSET Answers
<1>1. /\ v7' = v7 \cup {[id |-> i, how |-> how, tmux |-> IF n = Plain THEN Nothing ELSE n]}
      /\ v2' = [v2 EXCEPT ![i] = n]
    BY DEF Boot!Asks, Boot!Attach
<1>2. v7' \in SUBSET Answers
    BY <1>1 DEF SessionsRest, Answers, Name
<1>3. v2' \in [Ids -> Tmux \cup {Plain, Nothing}]
    BY <1>1 DEF SessionsRest
<1> QED
    BY <1>2, <1>3

(* Booting asks and lists only what there is.                              *)
LEMMA BootTyped ==
    ASSUME NamesInv, OwedInv, SessionsRest,
           \/ Boot!Load \/ Boot!FetchLive \/ Boot!RestoreFails \/ Boot!RestoreEnds
           \/ Boot!FetchTmux \/ Boot!AttachRefused \/ Boot!AttachRejected \/ Boot!FillEnds
           \/ Boot!NoWebSessions \/ Boot!ListTmux \/ Boot!AttachEnds
           \/ Boot!ListRejected \/ Boot!CreateSession
    PROVE  SessionsRest'
<1>1. /\ v2 \in [Ids -> Tmux \cup {Plain, Nothing}] /\ v6.step \in Boot!Steps
      /\ DOMAIN v6 = {"step", "todo", "first", "restored", "live"}
      /\ v7 \in SUBSET Answers /\ v8 \in SUBSET Ids
    BY DEF SessionsRest, NamesInv, NamesTyped
<1>2. {"live", "restore", "reconcile", "fill", "sessions", "tmux", "attach", "failed", "ready"}
          = Boot!Steps
    BY DEF Boot!Steps
<1>3. ASSUME UNCHANGED <<v2, v7, v8>>, v6'.step \in Boot!Steps,
             Boot!SameTabs \/ \E i : Boot!SwitchTab(i)
      PROVE  SessionsRest'
    BY <1>1, <1>3, TabsSame, RestFrom
<1>4. CASE Boot!Load
    <2>1. /\ v2' = v2 /\ v3' = <<>> /\ v4' = <<>> /\ v5' = v5 /\ v7' = {} /\ v8' = {}
          /\ v6'.step \in {"sessions", "live"}
        BY <1>4 DEF Boot!Load, Boot!Idle
    <2>2. Listing(v3)' /\ DOMAIN v4' = {}
        BY <2>1, PageAssumption DEF Listing
    <2> QED
        BY <1>1, <1>2, <2>1, <2>2, RestFrom DEF SessionsRest
<1> USE DEF Boot!SameTabs
<1>5. CASE Boot!FetchLive
    <2>1. v6'.step = "restore"
        BY <1>1, <1>5, StepNames DEF Boot!FetchLive
    <2> QED
        BY <1>2, <1>3, <1>5, <2>1 DEF Boot!FetchLive
<1>r. ASSUME UNCHANGED <<v3, v4, v5, v7, v8>>, v6'.step \in Boot!Steps,
             NEW n, Boot!MayAttach(n)
      PROVE  SessionsRest'
    <2>1. v2' \in [Ids -> Tmux \cup {Plain, Nothing}]
        BY <1>r, LostTyped
    <2> QED
        BY <1>1, <1>r, <2>1, TabsSame, RestFrom
<1>6. CASE Boot!RestoreFails
    <2>1. v6'.step = v6.step
        BY <1>1, <1>6, StepNames DEF Boot!RestoreFails
    <2>2. /\ UNCHANGED <<v3, v4, v5, v7, v8>>
          /\ UNCHANGED v2 \/ Boot!MayAttach(Head(v6.todo).tmux)
        BY <1>6 DEF Boot!RestoreFails
    <2> QED
        BY <1>1, <1>3, <1>r, <2>1, <2>2
<1>13. CASE Boot!AttachRefused
    <2>1. v6'.step = v6.step
        BY <1>1, <1>13, StepNames DEF Boot!AttachRefused
    <2> QED
        BY <1>1, <1>3, <1>13, <2>1 DEF Boot!AttachRefused
<1>14. CASE Boot!AttachRejected
    <2>1. v6'.step \in {"ready", "failed"}
        BY <1>14 DEF Boot!AttachRejected, Boot!Idle
    <2>2. UNCHANGED <<v3, v4, v5, v7, v8>> /\ Boot!MayAttach(Head(v6.todo).tmux)
        BY <1>14 DEF Boot!AttachRejected
    <2> QED
        BY <1>2, <1>r, <2>1, <2>2
<1>15. CASE Boot!ListRejected
    <2>1. v6'.step = "failed"
        BY <1>1, <1>15, StepNames, <1>2 DEF Boot!ListRejected
    <2> QED
        BY <1>2, <1>3, <1>15, <2>1 DEF Boot!ListRejected
<1>16. CASE Boot!CreateSession
    <2>1. /\ UNCHANGED <<v3, v4, v5, v8>> /\ v6'.step = "ready"
          /\ \/ UNCHANGED <<v2, v7>>
             \/ \E i \in Ids : \/ Boot!Asks(i, "plain", Plain)
                               \/ \E n \in Tmux : Boot!Asks(i, "create", n)
        BY <1>16 DEF Boot!CreateSession, Boot!Idle
    <2>2. /\ Plain \in Tmux \cup {Plain} /\ \A n \in Tmux : n \in Tmux \cup {Plain}
          /\ "plain" \in {"plain", "create", "attach"} /\ "create" \in {"plain", "create", "attach"}
        OBVIOUS
    <2>3. v2' \in [Ids -> Tmux \cup {Plain, Nothing}] /\ v7' \in SUBSET Answers
        <3>1. CASE UNCHANGED <<v2, v7>>
            BY <1>1, <3>1
        <3>2. ASSUME NEW i \in Ids, Boot!Asks(i, "plain", Plain)
              PROVE  v2' \in [Ids -> Tmux \cup {Plain, Nothing}] /\ v7' \in SUBSET Answers
            BY <2>2, <3>2, AsksTyped
        <3>3. ASSUME NEW i \in Ids, NEW n \in Tmux, Boot!Asks(i, "create", n)
              PROVE  v2' \in [Ids -> Tmux \cup {Plain, Nothing}] /\ v7' \in SUBSET Answers
            BY <2>2, <3>3, AsksTyped
        <3> QED
            BY <2>1, <3>1, <3>2, <3>3
    <2> QED
        BY <1>1, <1>2, <2>1, <2>3, TabsSame, RestFrom
<1>7. CASE Boot!RestoreEnds
    <2>1. v6'.step \in {"reconcile", "sessions"}
        BY <1>7 DEF Boot!RestoreEnds, Boot!Idle
    <2> QED
        BY <1>2, <1>3, <1>7, <2>1 DEF Boot!RestoreEnds
<1>8. CASE Boot!FetchTmux
    <2>1. v6' = Boot!Idle \/ \E todo : v6' = [v6 EXCEPT !.step = "fill", !.todo = todo]
        BY <1>8 DEF Boot!FetchTmux
    <2>2. v6'.step \in {"fill", "ready"}
        <3>1. Boot!Idle.step = "ready"
            BY DEF Boot!Idle
        <3> QED
            BY <1>1, <2>1, <3>1
    <2> QED
        BY <1>2, <1>3, <1>8, <2>2 DEF Boot!FetchTmux
<1>9. CASE Boot!FillEnds
    <2>1. v6'.step = "ready"
        BY <1>9 DEF Boot!FillEnds, Boot!Idle
    <2> QED
        BY <1>2, <1>3, <1>9, <2>1 DEF Boot!FillEnds
<1>10. CASE Boot!NoWebSessions
    <2>1. v6'.step = "tmux"
        BY <1>1, <1>10, StepNames DEF Boot!NoWebSessions
    <2> QED
        BY <1>2, <1>3, <1>10, <2>1 DEF Boot!NoWebSessions
<1>11. CASE Boot!ListTmux
    <2>1. v6' = Boot!Idle \/ \E todo : v6' = [Boot!Idle EXCEPT !.step = "attach", !.todo = todo]
        BY <1>11 DEF Boot!ListTmux
    <2>2. v6'.step \in {"attach", "ready"}
        <3>1. Boot!Idle.step = "ready"
            BY DEF Boot!Idle
        <3>2. \A todo : [Boot!Idle EXCEPT !.step = "attach", !.todo = todo].step = "attach"
            BY DEF Boot!Idle
        <3> QED
            BY <2>1, <3>1, <3>2
    <2> QED
        BY <1>2, <1>3, <1>11, <2>2 DEF Boot!ListTmux
<1>12. CASE Boot!AttachEnds
    <2>1. v6'.step = "ready"
        BY <1>12 DEF Boot!AttachEnds, Boot!Idle
    <2> QED
        BY <1>2, <1>3, <1>12, <2>1 DEF Boot!AttachEnds
<1> QED
    BY <1>4, <1>5, <1>6, <1>7, <1>8, <1>9, <1>10, <1>11, <1>12, <1>13, <1>14, <1>15, <1>16

(* The ways in which a tab comes.                                          *)
LEMMA ComingTyped ==
    ASSUME NamesInv, OwedInv, SessionsRest,
           \/ \E i \in Ids : Boot!RestoreTmux(i) \/ Boot!FillTmux(i) \/ Boot!AttachNext(i)
           \/ Boot!RestorePlain \/ Boot!OpenWebSessions
           \/ \E a \in v7 : Boot!Answer(a)
    PROVE  SessionsRest'
<1>1. /\ v2 \in [Ids -> Tmux \cup {Plain, Nothing}] /\ v6.step \in Boot!Steps
      /\ DOMAIN v6 = {"step", "todo", "first", "restored", "live"} /\ v6.live \subseteq Ids
      /\ v7 \in SUBSET Answers /\ v8 \in SUBSET Ids /\ v1 \subseteq Tmux
      /\ \A i \in DOMAIN v4 : HasTab(v3, i) /\ v4[i] \in Name
    BY DEF SessionsRest, NamesInv, NamesTyped, OwedInv
<1>2. /\ \A y : [v6 EXCEPT !.todo = y].step = v6.step
      /\ \A x, y : [v6 EXCEPT !.todo = x, !.restored = y].step = v6.step
      /\ \A x, y, z : [v6 EXCEPT !.todo = x, !.restored = y, !.first = z].step = v6.step
    BY <1>1
<1>3. ASSUME NEW i \in Ids, NEW n, i \in Boot!AttachIds(n), Boot!Attach(i, n),
             UNCHANGED <<v7, v8>>, v6'.step = v6.step,
             \/ Boot!SameTabs \/ Boot!SwitchTab(i)
             \/ \E before : Boot!AddTab(i, before, n) \/ Boot!AddTabSaved(i, n)
      PROVE  SessionsRest'
    <2>1. n \in Tmux /\ n \in Name
        BY <1>1, <1>3 DEF Boot!AttachIds, Name
    <2>2. v2' \in [Ids -> Tmux \cup {Plain, Nothing}]
        BY <1>1, <1>3, <2>1 DEF Boot!Attach
    <2>3. /\ Listing(v3)' /\ \A j \in DOMAIN v4' : HasTab(v3', j) /\ v4'[j] \in Name
          /\ v5' \in Seq(Boot!Entry) /\ Len(v5') <= MaxTabs
        BY <1>3, <2>1, TabsSame, TabAdded
    <2>4. v6'.step \in Boot!Steps /\ v7' \in SUBSET Answers /\ v8' \in SUBSET Ids
        BY <1>1, <1>3
    <2> QED
        BY <2>2, <2>3, <2>4, RestFrom
<1>4. ASSUME NEW i \in Ids, Boot!RestoreTmux(i) PROVE SessionsRest'
    <2>1. v6'.step = v6.step
        <3>1. v6' = Boot!Restored(i)
            BY <1>4 DEF Boot!RestoreTmux
        <3> QED
            BY <1>2, <3>1 DEF Boot!Restored
    <2> QED
        BY <1>3, <1>4, <2>1 DEF Boot!RestoreTmux
<1>5. ASSUME NEW i \in Ids, Boot!FillTmux(i) PROVE SessionsRest'
    <2>1. v6'.step = v6.step
        BY <1>2, <1>5 DEF Boot!FillTmux
    <2> QED
        BY <1>3, <1>5, <2>1 DEF Boot!FillTmux
<1>6. ASSUME NEW i \in Ids, Boot!AttachNext(i) PROVE SessionsRest'
    <2>1. v6'.step = v6.step
        BY <1>2, <1>6 DEF Boot!AttachNext
    <2> QED
        BY <1>3, <1>6, <2>1 DEF Boot!AttachNext
<1>7. CASE Boot!RestorePlain
    <2> DEFINE i == Head(v6.todo).id
    <2>1. /\ i \in Ids /\ UNCHANGED <<v2, v7, v8>>
          /\ \/ /\ v4' = [v4 EXCEPT ![i] = Boot!NameFor(i, @)] /\ UNCHANGED <<v3, v5>>
             \/ Boot!AddTab(i, Nothing, Boot!NameFor(i, Nothing))
        BY <1>1, <1>7 DEF Boot!RestorePlain
    <2>2. v6'.step = v6.step
        BY <1>2, <1>7 DEF Boot!RestorePlain, Boot!Restored
    <2>3. \A known \in Name : Boot!NameFor(i, known) \in Name
        BY DEF Boot!NameFor, Name
    <2>4. Nothing \in Name
        BY DEF Name
    <2> HIDE DEF i
    <2>5. CASE v4' = [v4 EXCEPT ![i] = Boot!NameFor(i, @)] /\ UNCHANGED <<v3, v5>>
        <3>1. DOMAIN v4' = DOMAIN v4 /\ \A j \in DOMAIN v4 : v4'[j] \in Name
            BY <1>1, <2>3, <2>5
        <3> QED
            BY <1>1, <2>1, <2>2, <2>5, <3>1 DEF SessionsRest, Listing, HasTab
    <2>6. CASE Boot!AddTab(i, Nothing, Boot!NameFor(i, Nothing))
        <3>1. /\ Listing(v3)' /\ \A j \in DOMAIN v4' : HasTab(v3', j) /\ v4'[j] \in Name
              /\ v5' \in Seq(Boot!Entry) /\ Len(v5') <= MaxTabs
            BY <2>1, <2>3, <2>4, <2>6, TabAdded
        <3> QED
            BY <1>1, <2>1, <2>2, <3>1, RestFrom
    <2> QED
        BY <2>1, <2>5, <2>6
<1>8. ASSUME NEW a \in v7, Boot!Answer(a) PROVE SessionsRest'
    <2>1. a.id \in Ids /\ a.tmux \in Name
        BY <1>1, <1>8 DEF Answers
    <2>2. /\ v7' \in SUBSET v7 /\ UNCHANGED <<v2, v6, v8>>
          /\ \/ Boot!SwitchTab(a.id) \/ Boot!AddTabSaved(a.id, a.tmux)
             \/ Boot!AddTab(a.id, Nothing, a.tmux)
        BY <1>8 DEF Boot!Answer
    <2>3. /\ Listing(v3)' /\ \A j \in DOMAIN v4' : HasTab(v3', j) /\ v4'[j] \in Name
          /\ v5' \in Seq(Boot!Entry) /\ Len(v5') <= MaxTabs
        BY <2>1, <2>2, TabsSame, TabAdded
    <2> QED
        BY <1>1, <2>2, <2>3, RestFrom
<1>9. CASE Boot!OpenWebSessions
    <2> DEFINE L == Boot!Live
               c == Boot!Cardinality(L)
    <2>1. PICK o \in Boot!SetToSeqs(L) :
              /\ v3' = v3 \o o
              /\ v4' = [i \in DOMAIN v4 \cup L |->
                            IF i \in L /\ v2[i] \in Tmux THEN v2[i]
                            ELSE IF i \in DOMAIN v4 THEN v4[i] ELSE Nothing]
              /\ v5' = Boot!Snapshot(v3', Boot!With(v4', Boot!Last(o), Nothing))
        BY <1>9 DEF Boot!OpenWebSessions
    <2>2. /\ L \subseteq Ids /\ c = Cardinality(L) /\ IsFiniteSet(L) /\ c \in Nat
          /\ Len(v3) + c <= MaxTabs /\ UNCHANGED <<v2, v7, v8>> /\ v6' = Boot!Idle
        <3>1. L \subseteq Ids
            BY DEF Boot!Live
        <3>2. c = Cardinality(L) /\ IsFiniteSet(L) /\ c \in Nat
            BY <3>1, PageAssumption, FS_Subset, FS_CardinalityType DEF Boot!Cardinality, Cardinality
        <3> QED
            BY <1>9, <3>1, <3>2 DEF Boot!OpenWebSessions
    <2>3. o \in [1..c -> L] /\ \A i, j \in 1..c : i # j => o[i] # o[j]
        BY DEF Boot!SetToSeqs
    <2> HIDE DEF L, c
    <2>4. o \in Seq(Ids) /\ Len(o) = c /\ \A i \in L : HasTab(o, i)
        <3>1. o \in [1..c -> Ids]
            BY <2>2, <2>3
        <3>2. o \in Seq(Ids) /\ Len(o) = c
            BY <2>2, <3>1, LenProperties
        <3>3. o \in Injection(1..c, L)
            BY <2>3 DEF Injection, IsInjective
        <3>4. Cardinality(1..c) = Cardinality(L)
            BY <2>2, FS_Interval
        <3>5. o \in Surjection(1..c, L)
            BY <2>2, <3>3, <3>4, FS_Injection
        <3> QED
            BY <3>2, <3>5 DEF Surjection, HasTab
    <2>5. /\ v3' \in Seq(Ids) /\ Len(v3') = Len(v3) + c
          /\ \A j : HasTab(v3, j) \/ HasTab(o, j) => HasTab(v3', j)
        <3>1. v3 \in Seq(Ids) /\ Len(v3) \in Nat
            BY LenProperties DEF SessionsRest, Listing
        <3>2. /\ v3' \in Seq(Ids) /\ Len(v3') = Len(v3) + Len(o)
              /\ \A m \in 1..(Len(v3) + Len(o)) :
                    v3'[m] = IF m <= Len(v3) THEN v3[m] ELSE o[m - Len(v3)]
            BY <2>1, <2>4, <3>1, ConcatProperties
        <3>3. ASSUME NEW m \in 1..Len(v3) PROVE HasTab(v3', v3[m])
            <4>1. m \in 1..(Len(v3) + Len(o)) /\ m <= Len(v3)
                BY <2>2, <2>4, <3>1
            <4> QED
                BY <3>2, <4>1 DEF HasTab
        <3>4. ASSUME NEW m \in 1..Len(o) PROVE HasTab(v3', o[m])
            <4>1. /\ Len(v3) + m \in 1..(Len(v3) + Len(o)) /\ ~(Len(v3) + m <= Len(v3))
                  /\ Len(v3) + m - Len(v3) = m
                BY <2>2, <2>4, <3>1
            <4>2. v3'[Len(v3) + m] = o[m]
                BY <3>2, <4>1
            <4> QED
                BY <3>2, <4>1, <4>2 DEF HasTab
        <3> QED
            BY <2>4, <3>2, <3>3, <3>4 DEF HasTab
    <2>6. Listing(v3') /\ Listing(v3)'
        BY <2>2, <2>5 DEF Listing
    <2>7. \A j \in DOMAIN v4' : HasTab(v3', j) /\ v4'[j] \in Name
        BY <1>1, <2>1, <2>4, <2>5 DEF Name
    <2>8. \A j \in DOMAIN Boot!With(v4', Boot!Last(o), Nothing) :
              Boot!With(v4', Boot!Last(o), Nothing)[j] \in Name
        BY <2>7 DEF Boot!With, Name
    <2>9. v5' \in Seq(Boot!Entry) /\ Len(v5') <= MaxTabs
        BY <2>1, <2>6, <2>8, SnapshotTyped
    <2>10. v6'.step \in Boot!Steps
        BY <2>2, StepNames
    <2>11. v2' = v2 /\ v7' = v7 /\ v8' = v8
        BY <2>2
    <2> QED
        BY <1>1, <2>6, <2>7, <2>9, <2>10, <2>11, RestFrom
<1> QED
    BY <1>4, <1>5, <1>6, <1>7, <1>8, <1>9

(* The user's steps, and sessions that come and go by other hands.         *)
LEMMA OthersTyped ==
    ASSUME NamesInv, OwedInv, SessionsRest,
           \/ \E i \in Ids : \/ Boot!ClickTab(i) \/ Boot!CloseTab(i) \/ Boot!CloseAnswered(i)
                             \/ Boot!Request(i, "plain", Plain)
                             \/ \E n \in Tmux : \/ Boot!Request(i, "create", n)
                                                \/ Boot!Request(i, "attach", n)
           \/ \E a \in v7 : Boot!AnswerLost(a)
           \/ \E k, l \in DOMAIN v3 : Boot!DragTab(k, l)
           \/ \E n \in Tmux : Boot!TmuxStarts(n) \/ Boot!TmuxEnds(n)
           \/ Boot!ServerRestarts
    PROVE  SessionsRest'
<1>1. /\ v2 \in [Ids -> Tmux \cup {Plain, Nothing}] /\ v6.step \in Boot!Steps
      /\ DOMAIN v4 \subseteq Ids
      /\ v7 \in SUBSET Answers /\ v8 \in SUBSET Ids /\ Listing(v3)
      /\ \A i \in DOMAIN v4 : HasTab(v3, i) /\ v4[i] \in Name
      /\ v5 \in Seq(Boot!Entry) /\ Len(v5) <= MaxTabs
    BY DEF SessionsRest, NamesInv, NamesTyped
<1>2. /\ Boot!Snapshot(v3, v4) \in Seq(Boot!Entry) /\ Len(Boot!Snapshot(v3, v4)) <= MaxTabs
      /\ v3 \in Seq(Ids) /\ Len(v3) \in Nat /\ DOMAIN v3 = 1..Len(v3) /\ Len(v3) <= MaxTabs
      /\ MaxTabs \in Nat
    BY <1>1, SnapshotTyped, LenProperties, PageAssumption DEF Listing
<1>3. ASSUME UNCHANGED <<v3, v4, v6>>, v5' \in {v5, Boot!Snapshot(v3, v4)},
             v2' \in [Ids -> Tmux \cup {Plain, Nothing}],
             v7' \in SUBSET Answers, v8' \in SUBSET Ids
      PROVE  SessionsRest'
    BY <1>1, <1>2, <1>3 DEF SessionsRest, Listing
<1>4. ASSUME NEW i \in Ids, NEW how \in {"plain", "create", "attach"},
             NEW n \in Tmux \cup {Plain}, Boot!Request(i, how, n)
      PROVE  SessionsRest'
    <2>1. Boot!Asks(i, how, n) /\ UNCHANGED <<v3, v4, v5, v6, v8>>
        BY <1>4 DEF Boot!Request
    <2>2. v7' \in SUBSET Answers /\ v2' \in [Ids -> Tmux \cup {Plain, Nothing}]
        BY <1>4, <2>1, AsksTyped
    <2> QED
        BY <1>1, <1>3, <2>1, <2>2
<1>5. ASSUME NEW i \in Ids, Boot!ClickTab(i) PROVE SessionsRest'
    BY <1>1, <1>3, <1>5 DEF Boot!ClickTab, Boot!SwitchTab
<1>6. ASSUME NEW i \in Ids, Boot!CloseTab(i) PROVE SessionsRest'
    <2>1. PICK k \in 1..Len(v3) : v3[k] = i /\ v3' = Boot!RemoveAt(v3, k)
        BY <1>2, <1>6 DEF Boot!CloseTab
    <2>2. /\ v3' \in Seq(Ids) /\ Len(v3') = Len(v3) - 1
          /\ \A j : HasTab(v3, j) /\ j # i => HasTab(v3', j)
        BY <1>2, <2>1, TakenAway
    <2>3. /\ v4' = [j \in DOMAIN v4 \ {i} |-> v4[j]] /\ v8' = v8 \cup {i}
          /\ UNCHANGED <<v2, v5, v6, v7>>
        BY <1>6 DEF Boot!CloseTab
    <2>4. Listing(v3)'
        BY <1>2, <2>2 DEF Listing
    <2>5. \A j \in DOMAIN v4' : HasTab(v3', j) /\ v4'[j] \in Name
        BY <1>1, <2>2, <2>3
    <2>6. /\ v8' \in SUBSET Ids /\ v2' \in [Ids -> Tmux \cup {Plain, Nothing}]
          /\ v5' \in Seq(Boot!Entry) /\ Len(v5') <= MaxTabs /\ v6'.step \in Boot!Steps
          /\ v7' \in SUBSET Answers
        BY <1>1, <2>3
    <2> QED
        BY <2>4, <2>5, <2>6, RestFrom
<1>7. ASSUME NEW i \in Ids, Boot!CloseAnswered(i) PROVE SessionsRest'
    <2>1. v2' \in [Ids -> Tmux \cup {Plain, Nothing}] /\ v8' \in SUBSET Ids
        BY <1>1, <1>7 DEF Boot!CloseAnswered
    <2> QED
        BY <1>1, <1>3, <1>7, <2>1 DEF Boot!CloseAnswered
<1>8. ASSUME NEW k \in DOMAIN v3, NEW l \in DOMAIN v3, Boot!DragTab(k, l) PROVE SessionsRest'
    <2> DEFINE cut == Boot!RemoveAt(v3, k)
               i == v3[k]
    <2>1. /\ k \in 1..Len(v3) /\ l \in 1..Len(v3) /\ v3' = Boot!InsertAt(cut, l, i)
          /\ v5' = Boot!Snapshot(v3', v4) /\ UNCHANGED <<v2, v4, v6, v7, v8>>
        BY <1>2, <1>8 DEF Boot!DragTab
    <2>2. /\ cut \in Seq(Ids) /\ Len(cut) = Len(v3) - 1
          /\ \A j : HasTab(v3, j) /\ j # i => HasTab(cut, j)
        BY <1>2, <2>1, TakenAway
    <2>3. i \in Ids
        BY <1>2, <2>1, ElementOfSeq
    <2> HIDE DEF cut, i
    <2>4. l \in 1..(Len(cut) + 1)
        BY <1>2, <2>1, <2>2
    <2>5. /\ v3' \in Seq(Ids) /\ Len(v3') = Len(cut) + 1 /\ HasTab(v3', i)
          /\ \A j : HasTab(cut, j) => HasTab(v3', j)
        BY <2>1, <2>2, <2>3, <2>4, PutIn
    <2>6. Listing(v3') /\ Listing(v3)'
        BY <1>2, <2>2, <2>5 DEF Listing
    <2>7. \A j \in DOMAIN v4' : HasTab(v3', j) /\ v4'[j] \in Name
        BY <1>1, <2>1, <2>2, <2>5
    <2>8. v5' \in Seq(Boot!Entry) /\ Len(v5') <= MaxTabs
        BY <1>1, <2>1, <2>6, SnapshotTyped
    <2>9. /\ v8' \in SUBSET Ids /\ v2' \in [Ids -> Tmux \cup {Plain, Nothing}]
          /\ v6'.step \in Boot!Steps /\ v7' \in SUBSET Answers
        BY <1>1, <2>1
    <2> QED
        BY <2>6, <2>7, <2>8, <2>9, RestFrom
<1>9. ASSUME NEW n \in Tmux, Boot!TmuxStarts(n) PROVE SessionsRest'
    BY <1>1, <1>3, <1>9 DEF Boot!TmuxStarts
<1>10. ASSUME NEW n \in Tmux, Boot!TmuxEnds(n) PROVE SessionsRest'
    BY <1>1, <1>3, <1>10 DEF Boot!TmuxEnds
<1>11. CASE Boot!ServerRestarts
    BY <1>1, <1>3, <1>11 DEF Boot!ServerRestarts
<1>13. ASSUME NEW a \in v7, Boot!AnswerLost(a) PROVE SessionsRest'
    BY <1>1, <1>3, <1>13 DEF Boot!AnswerLost
<1>12. "plain" \in {"plain", "create", "attach"} /\ Plain \in Tmux \cup {Plain}
    OBVIOUS
<1> QED
    BY <1>4, <1>5, <1>6, <1>7, <1>8, <1>9, <1>10, <1>11, <1>12, <1>13

(* Every step of tabs, booting and the server leaves the rest of their     *)
(* types true.                                                             *)
LEMMA SessionsTyped ==
    NamesInv /\ OwedInv /\ SessionsRest
        /\ [Boot!SessionsNext]_<<v1, v2, v3, v4, v5, v6, v7, v8, v9>> => SessionsRest'
<1> SUFFICES ASSUME NamesInv, OwedInv, SessionsRest,
                    [Boot!SessionsNext]_<<v1, v2, v3, v4, v5, v6, v7, v8, v9>>
             PROVE  SessionsRest'
    OBVIOUS
<1>1. CASE UNCHANGED <<v1, v2, v3, v4, v5, v6, v7, v8, v9>>
    BY <1>1 DEF SessionsRest, Listing, HasTab
<1>2. CASE Boot!SessionsNext
    BY <1>2, BootTyped, ComingTyped, OthersTyped DEF Boot!SessionsNext
<1> QED
    BY <1>1, <1>2

(* And they are true before the page is loaded.                            *)
LEMMA SessionsTypedAtStart == Boot!SessionsInit => SessionsRest
<1> SUFFICES ASSUME Boot!SessionsInit PROVE SessionsRest
    OBVIOUS
<1>1. /\ v2 = [i \in Ids |-> Nothing] /\ v3 = <<>> /\ v4 = <<>> /\ v5 = <<>>
      /\ v6 = [Boot!Idle EXCEPT !.step = "sessions"] /\ v7 = {} /\ v8 = {}
    BY DEF Boot!SessionsInit
<1>2. v6.step = "sessions" /\ DOMAIN v4 = {} /\ MaxTabs \in Nat
    BY <1>1, PageAssumption DEF Boot!Idle
<1>3. <<>> \in Seq(Ids) /\ <<>> \in Seq(Boot!Entry) /\ Len(<<>>) = 0
    BY EmptySeq
<1> QED
    BY <1>1, <1>2, <1>3 DEF SessionsRest, Listing, Boot!Steps

-----------------------------------------------------------------------------
(* Counting up to a place.                                                 *)
LEMMA RankIs ==
    ASSUME NEW n \in Nat, NEW S, \A x \in S : x \in 1..n, NEW k \in S
    PROVE  /\ Persist!Rank(S, k) = Cardinality({j \in S : j <= k})
           /\ IsFiniteSet({j \in S : j <= k}) /\ Persist!Rank(S, k) \in Nat \ {0}
<1> DEFINE T == {j \in S : j <= k}
<1>1. IsFiniteSet(1..n)
    BY FS_Interval
<1>2. T \subseteq 1..n /\ k \in T
    OBVIOUS
<1>3. Persist!Rank(S, k) = Cardinality(T)
    BY DEF Persist!Rank, Persist!Cardinality, Cardinality
<1> HIDE DEF T
<1>4. IsFiniteSet(T) /\ Cardinality(T) \in Nat
    BY <1>1, <1>2, FS_Subset, FS_CardinalityType
<1>5. Cardinality(T) # 0
    BY <1>2, <1>4, FS_EmptySet
<1> QED
    BY <1>3, <1>4, <1>5 DEF T

(* A later place has a higher rank.                                        *)
LEMMA RankOrder ==
    ASSUME NEW n \in Nat, NEW S, \A x \in S : x \in 1..n, NEW j \in S, NEW k \in S, j < k
    PROVE  Persist!Rank(S, j) < Persist!Rank(S, k)
<1> DEFINE A == {i \in S : i <= j}
           B == {i \in S : i <= k}
<1>1. A \subseteq B /\ k \in B /\ k \notin A
    BY SMT
<1>2. /\ IsFiniteSet(B) /\ Persist!Rank(S, j) = Cardinality(A)
      /\ Persist!Rank(S, k) = Cardinality(B)
      /\ Cardinality(A) \in Nat /\ Cardinality(B) \in Nat
    BY RankIs
<1> HIDE DEF A, B
<1>3. Cardinality(A) <= Cardinality(B) /\ (Cardinality(A) = Cardinality(B) => A = B)
    BY <1>1, <1>2, FS_Subset
<1> QED
    BY <1>1, <1>2, <1>3

(* So that no two places have the same rank.                               *)
LEMMA RankOne ==
    ASSUME NEW n \in Nat, NEW S, \A x \in S : x \in 1..n, NEW j \in S, NEW k \in S,
           Persist!Rank(S, j) = Persist!Rank(S, k)
    PROVE  j = k
<1>1. j \in 1..n /\ k \in 1..n
    OBVIOUS
<1>2. j \in Int /\ k \in Int
    BY <1>1
<1>3. Persist!Rank(S, j) \in Nat
    BY RankIs
<1>4. ~(j < k)
    BY <1>3, RankOrder
<1>5. ~(k < j)
    BY <1>3, RankOrder
<1> QED
    BY <1>2, <1>4, <1>5

(* And no rank is left out.                                                *)
LEMMA RankOnto ==
    ASSUME NEW n \in Nat, NEW S, \A x \in S : x \in 1..n, NEW k \in S,
           NEW r \in 1..Persist!Rank(S, k)
    PROVE  \E j \in S : Persist!Rank(S, j) = r
<1> DEFINE T == {j \in S : Persist!Rank(S, j) >= r}
<1>1. ASSUME NEW j \in S PROVE j \in Nat /\ Persist!Rank(S, j) \in Nat \ {0}
    <2>1. j \in 1..n
        OBVIOUS
    <2>2. Persist!Rank(S, j) \in Nat \ {0}
        BY RankIs
    <2> QED
        BY <2>1, <2>2
<1>2. PICK m \in T : \A j \in T : m <= j
    <2>1. k \in T
        BY <1>1
    <2>2. T \subseteq Nat
        BY <1>1
    <2> HIDE DEF T
    <2> QED
        BY <2>1, <2>2, FirstOfAll
<1>3. m \in S /\ m \in Nat /\ Persist!Rank(S, m) >= r /\ Persist!Rank(S, m) \in Nat
    BY <1>1
<1>4. r \in Nat \ {0}
    BY <1>1
<1> DEFINE B == {j \in S : j < m}
<1>5. CASE B = {}
    <2>1. ASSUME NEW j \in S, j <= m PROVE j = m
        <3>1. ~(j < m)
            BY <1>5
        <3> QED
            BY <1>1, <1>3, <2>1, <3>1
    <2>2. m <= m
        BY <1>3
    <2> DEFINE only == {j \in S : j <= m}
    <2>3. only = {m}
        BY <1>3, <2>1, <2>2
    <2>4. Persist!Rank(S, m) = Cardinality(only)
        BY <1>3, RankIs
    <2> HIDE DEF only
    <2>5. Persist!Rank(S, m) = 1
        BY <2>3, <2>4, FS_Singleton
    <2> QED
        BY <1>3, <1>4, <2>5
<1>6. CASE B # {}
    <2>1. PICK p \in B : \A j \in B : j <= p
        <3> DEFINE G == {m - j : j \in B}
        <3>1. G # {}
            BY <1>6
        <3>2. ASSUME NEW j \in B PROVE m - j \in Nat /\ j \in Nat
            <4>1. j \in Nat /\ j < m
                BY <1>1
            <4> QED
                BY <1>3, <4>1
        <3>3. G \subseteq Nat
            BY <3>2
        <3>4. PICK g \in G : \A h \in G : g <= h
            <4> HIDE DEF G
            <4> QED
                BY <3>1, <3>3, FirstOfAll
        <3>5. PICK p \in B : g = m - p
            OBVIOUS
        <3>6. ASSUME NEW j \in B PROVE j <= p
            <4>1. m - p <= m - j
                BY <3>4, <3>5
            <4>2. j \in Nat /\ p \in Nat
                BY <3>2
            <4> QED
                BY <1>3, <4>1, <4>2
        <3> QED
            BY <3>6
    <2>2. p \in S /\ p < m /\ p \in Nat
        BY <1>1
    <2> DEFINE P == {j \in S : j <= p}
               M == {j \in S : j <= m}
    <2>3. M = P \cup {m} /\ m \notin P
        <3>1. ASSUME NEW j \in S, j <= m PROVE j <= p \/ j = m
            <4>1. j \in Nat
                BY <1>1
            <4>2. CASE j < m
                BY <2>1, <3>1, <4>2
            <4> QED
                BY <1>3, <3>1, <4>1, <4>2
        <3>2. ASSUME NEW j \in S, j <= p PROVE j <= m
            <4>1. j \in Nat
                BY <1>1
            <4> QED
                BY <1>3, <2>2, <3>2, <4>1
        <3>3. m <= m /\ ~(m <= p)
            BY <1>3, <2>2
        <3> QED
            BY <1>3, <3>1, <3>2, <3>3
    <2>4. /\ IsFiniteSet(P) /\ Persist!Rank(S, p) = Cardinality(P)
          /\ Persist!Rank(S, m) = Cardinality(M)
        BY <1>3, <2>2, RankIs
    <2> HIDE DEF P, M
    <2>5. Cardinality(M) = Cardinality(P) + 1
        BY <2>3, <2>4, FS_AddElement
    <2>6. ~(Persist!Rank(S, p) >= r)
        <3>1. ~(m <= p)
            BY <1>3, <2>2
        <3> QED
            BY <1>2, <2>2, <3>1
    <2>7. Persist!Rank(S, p) \in Nat
        BY <1>1, <2>2
    <2> QED
        BY <1>3, <1>4, <2>4, <2>5, <2>6, <2>7
<1> QED
    BY <1>5, <1>6

-----------------------------------------------------------------------------
(* Panes, and panes as they are saved, with no session in two of them.     *)
LeafSeq == Seq(Persist!AllSessions \cup {Empty})
SavedSeq == Seq(Persist!Saved \cup {Empty})
SavedUnshared(c) ==
    \A j, k \in 1..Len(c) :
        c[j] # Empty /\ c[k] # Empty /\ c[j].session = c[k].session => j = k

(* Empty is no session.                                                    *)
LEMMA EmptyIsNone ==
    /\ Empty \notin Persist!AllSessions /\ Empty \notin Persist!Saved
    /\ Persist!AllSessions = TmuxSessions \cup PlainSessions
    /\ Persist!Saved = [session : Persist!AllSessions, tmux : BOOLEAN]
BY PageAssumption DEF Persist!AllSessions, Persist!Saved

(* What is saved of a pane names the session it was saved with, or none.   *)
LEMMA ResolveIs ==
    ASSUME v2 \in Seq(Persist!AllSessions), NEW info \in Persist!Saved \cup {Empty}
    PROVE  /\ Persist!Resolve(info) \in Persist!AllSessions \cup {Empty}
           /\ Persist!Resolve(info) # Empty
                 => info # Empty /\ info.session = Persist!Resolve(info)
           /\ info # Empty /\ info.tmux /\ info.session \in Persist!ToSet(v2)
                 => Persist!Resolve(info) = info.session /\ Persist!Resolve(info) # Empty
<1>1. info # Empty => info.session \in Persist!AllSessions /\ info.session # Empty
    BY EmptyIsNone
<1> QED
    BY <1>1 DEF Persist!Resolve

(* Panes as they are read back.                                            *)
LEMMA DeserializeIs ==
    ASSUME v2 \in Seq(Persist!AllSessions), NEW c \in SavedSeq, SavedUnshared(c)
    PROVE  LET ls == Persist!Deserialize(c)
           IN  /\ ls \in LeafSeq /\ Len(ls) = Len(c) /\ Unshared(ls)
               /\ \A k \in 1..Len(c) : ls[k] = Persist!Resolve(c[k])
<1> DEFINE ls == Persist!Deserialize(c)
           R(k) == Persist!Resolve(c[k])
<1>1. Len(c) \in Nat /\ DOMAIN c = 1..Len(c)
    BY LenProperties DEF SavedSeq
<1>2. ASSUME NEW k \in 1..Len(c)
      PROVE  /\ R(k) \in Persist!AllSessions \cup {Empty}
             /\ R(k) # Empty => c[k] # Empty /\ c[k].session = R(k)
    <2>1. c[k] \in Persist!Saved \cup {Empty}
        BY ElementOfSeq DEF SavedSeq
    <2> QED
        BY <2>1, ResolveIs
<1>3. ls = [k \in 1..Len(c) |->
                IF \E j \in 1..(k - 1) : R(j) = R(k) THEN Empty ELSE R(k)]
    BY <1>1 DEF Persist!Deserialize
<1> HIDE DEF ls, R
<1>4. ASSUME NEW k \in 1..Len(c) PROVE ls[k] = R(k)
    <2>1. ASSUME NEW j \in 1..(k - 1), R(j) = R(k) PROVE R(k) = Empty
        <3>1. j \in 1..Len(c) /\ j # k
            BY <1>1
        <3> QED
            BY <1>2, <2>1, <3>1 DEF SavedUnshared
    <2> QED
        BY <1>3, <2>1
<1>5. ls = [k \in 1..Len(c) |-> R(k)]
    BY <1>3, <1>4
<1>6. ls \in [1..Len(c) -> Persist!AllSessions \cup {Empty}]
    BY <1>2, <1>5
<1>7. ls \in LeafSeq /\ Len(ls) = Len(c)
    BY <1>1, <1>6 DEF LeafSeq
<1>8. Unshared(ls)
    <2> SUFFICES ASSUME NEW j \in 1..Len(c), NEW k \in 1..Len(c), ls[j] = ls[k], ls[j] # Empty
                 PROVE  j = k
        BY <1>7 DEF Unshared
    <2> QED
        BY <1>2, <1>4 DEF SavedUnshared
<1> QED
    BY <1>4, <1>7, <1>8 DEF ls, R

(* The empty panes filled: the rest stays, no session gets a second pane,  *)
(* and a pane is left empty only if every open session has one.            *)
LEMMA FillIs ==
    ASSUME v2 \in Seq(Persist!AllSessions), Unshared(v2), NEW ls \in LeafSeq, Unshared(ls)
    PROVE  LET out == Persist!Fill(ls)
           IN  /\ out \in LeafSeq /\ Len(out) = Len(ls) /\ Unshared(out)
               /\ \A k \in 1..Len(ls) : ls[k] # Empty => out[k] = ls[k]
               /\ Empty \in Persist!ToSet(out) => Persist!ToSet(v2) \subseteq Persist!ToSet(out)
<1> DEFINE out == Persist!Fill(ls)
           empties == {k \in 1..Len(ls) : ls[k] = Empty}
           spare == {i \in 1..Len(v2) : v2[i] \notin Persist!ToSet(ls)}
           for(k) == {i \in spare : Persist!Rank(spare, i) = Persist!Rank(empties, k)}
           got(k) == CHOOSE i \in for(k) : TRUE
<1>1. /\ Len(ls) \in Nat /\ DOMAIN ls = 1..Len(ls) /\ Len(v2) \in Nat /\ DOMAIN v2 = 1..Len(v2)
    BY LenProperties DEF LeafSeq
<1>2. /\ \A k \in 1..Len(ls) : ls[k] \in Persist!AllSessions \cup {Empty}
      /\ \A i \in 1..Len(v2) : v2[i] \in Persist!AllSessions /\ v2[i] # Empty
    BY ElementOfSeq, EmptyIsNone DEF LeafSeq
<1>3. spare = Persist!Spare(ls)
    BY <1>1 DEF Persist!Spare
<1>4. out = [k \in 1..Len(ls) |->
                IF k \in empties /\ for(k) # {} THEN v2[got(k)] ELSE ls[k]]
    <2> DEFINE E == {k \in DOMAIN ls : ls[k] = Empty}
               F(k) == {i \in Persist!Spare(ls) :
                            Persist!Rank(Persist!Spare(ls), i) = Persist!Rank(E, k)}
    <2>1. out = [k \in DOMAIN ls |->
                    IF k \in E /\ F(k) # {} THEN v2[CHOOSE i \in F(k) : TRUE] ELSE ls[k]]
        BY DEF Persist!Fill
    <2>2. E = empties
        BY <1>1
    <2> HIDE DEF E, empties, spare, out
    <2>3. \A k : F(k) = for(k)
        BY <1>3, <2>2
    <2> HIDE DEF F, for
    <2> QED
        BY <1>1, <2>1, <2>2, <2>3
<1>5. \A k \in 1..Len(ls) : k \in empties <=> ls[k] = Empty
    OBVIOUS
<1>6. /\ \A x \in empties : x \in 1..Len(ls)
      /\ \A x \in spare : x \in 1..Len(v2) /\ v2[x] \notin Persist!ToSet(ls)
      /\ \A x \in 1..Len(v2) : x \notin spare => v2[x] \in Persist!ToSet(ls)
    OBVIOUS
<1>7. \A k : for(k) # {} => /\ got(k) \in spare
                            /\ Persist!Rank(spare, got(k)) = Persist!Rank(empties, k)
    OBVIOUS
<1>8. \A k, i : i \in spare /\ Persist!Rank(spare, i) = Persist!Rank(empties, k) => for(k) # {}
    OBVIOUS
<1> HIDE DEF out, empties, spare, for, got
<1>9. ASSUME NEW k \in 1..Len(ls)
      PROVE  out[k] = IF k \in empties /\ for(k) # {} THEN v2[got(k)] ELSE ls[k]
    BY <1>4
<1>10. ASSUME NEW k \in 1..Len(ls) PROVE out[k] \in Persist!AllSessions \cup {Empty}
    BY <1>2, <1>6, <1>7, <1>9
<1>11. out \in [1..Len(ls) -> Persist!AllSessions \cup {Empty}]
    BY <1>4, <1>10
<1>12. out \in LeafSeq /\ Len(out) = Len(ls) /\ DOMAIN out = 1..Len(ls)
    BY <1>1, <1>11 DEF LeafSeq
<1>13. \A k \in 1..Len(ls) : ls[k] # Empty => out[k] = ls[k]
    BY <1>5, <1>9
<1>14. \A k \in 1..Len(ls) : ls[k] \in Persist!ToSet(ls)
    BY <1>1 DEF Persist!ToSet
<1>15. ASSUME NEW j \in 1..Len(ls), NEW k \in 1..Len(ls), out[j] = out[k], out[j] # Empty
       PROVE  j = k
    <2>1. CASE out[j] \in Persist!ToSet(ls)
        <3>1. out[j] = ls[j] /\ out[k] = ls[k]
            BY <1>6, <1>7, <1>9, <1>15, <2>1
        <3> QED
            BY <1>15, <3>1 DEF Unshared
    <2>2. CASE out[j] \notin Persist!ToSet(ls)
        <3>1. /\ j \in empties /\ for(j) # {} /\ out[j] = v2[got(j)]
              /\ k \in empties /\ for(k) # {} /\ out[k] = v2[got(k)]
            BY <1>9, <1>14, <1>15, <2>2
        <3>2. got(j) = got(k)
            BY <1>6, <1>7, <1>15, <3>1 DEF Unshared
        <3>3. Persist!Rank(empties, j) = Persist!Rank(empties, k)
            BY <1>7, <3>1, <3>2
        <3> QED
            BY <1>1, <1>6, <3>1, <3>3, RankOne
    <2> QED
        BY <2>1, <2>2
<1>16. Unshared(out)
    BY <1>12, <1>15 DEF Unshared
<1>17. ASSUME Empty \in Persist!ToSet(out), NEW i \in 1..Len(v2)
       PROVE  v2[i] \in Persist!ToSet(out)
    <2>1. PICK k \in 1..Len(ls) : out[k] = Empty
        BY <1>12, <1>17 DEF Persist!ToSet
    <2>2. k \in empties /\ for(k) = {}
        BY <1>2, <1>5, <1>6, <1>7, <1>9, <2>1
    <2>3. CASE i \notin spare
        <3>1. PICK m \in 1..Len(ls) : v2[i] = ls[m]
            BY <1>1, <1>6, <2>3 DEF Persist!ToSet
        <3>2. out[m] = v2[i]
            BY <1>2, <1>13, <3>1
        <3> QED
            BY <1>12, <3>2 DEF Persist!ToSet
    <2>4. CASE i \in spare
        <3> DEFINE q == Persist!Rank(empties, k)
                   r == Persist!Rank(spare, i)
        <3>1. q \in Nat \ {0} /\ r \in Nat \ {0}
            BY <1>1, <1>6, <2>2, <2>4, RankIs
        <3>2. ~(q \in 1..r)
            <4>1. ASSUME q \in 1..r PROVE \E m \in spare : Persist!Rank(spare, m) = q
                BY <1>1, <1>6, <2>4, <4>1, RankOnto
            <4> QED
                BY <1>8, <2>2, <4>1
        <3> HIDE DEF q, r
        <3>3. r \in 1..q
            BY <3>1, <3>2
        <3>4. PICK m \in empties : Persist!Rank(empties, m) = r
            <4>1. Len(ls) \in Nat /\ k \in empties /\ \A x \in empties : x \in 1..Len(ls)
                BY <1>1, <1>6, <2>2
            <4>2. \A t \in 1..Persist!Rank(empties, k) :
                     \E m \in empties : Persist!Rank(empties, m) = t
                BY <4>1, RankOnto
            <4> QED
                BY <3>3, <4>2 DEF q
        <3>5. for(m) # {}
            BY <1>8, <2>4, <3>4 DEF r
        <3>6. got(m) \in spare /\ Persist!Rank(spare, got(m)) = Persist!Rank(spare, i)
            BY <1>7, <3>4, <3>5 DEF r
        <3>7. got(m) = i
            BY <1>1, <1>6, <2>4, <3>6, RankOne
        <3>8. m \in 1..Len(ls) /\ out[m] = v2[i]
            BY <1>6, <1>9, <3>4, <3>5, <3>7
        <3> QED
            BY <1>12, <3>8 DEF Persist!ToSet
    <2> QED
        BY <2>3, <2>4
<1>18. Empty \in Persist!ToSet(out) => Persist!ToSet(v2) \subseteq Persist!ToSet(out)
    <2>1. \A s \in Persist!ToSet(v2) : \E i \in 1..Len(v2) : s = v2[i]
        BY <1>1 DEF Persist!ToSet
    <2> QED
        BY <1>17, <2>1
<1> QED
    BY <1>12, <1>13, <1>16, <1>18 DEF out

-----------------------------------------------------------------------------
(* A copy gives every session one pane, and is of some panes.              *)
CopyGood(copy) == /\ SavedUnshared(copy.leaves)
                  /\ copy.at # 0 => Len(copy.leaves) \in 1..MaxLeaves
Copy == [leaves : SavedSeq, at : 0..MaxSaves]

(* The state of the saving: typed, no session opened twice, none in two    *)
(* panes, and good copies.                                                 *)
PersistInv == /\ Persist!PersistTypeOK
              /\ Unshared(v2) /\ Unshared(v3) /\ CopyGood(v8) /\ CopyGood(v9)

(* The types of the two copies, part by part.                              *)
LEMMA PersistTyped ==
    Persist!PersistTypeOK <=>
        /\ v1 \subseteq Persist!AllSessions /\ v2 \in Seq(Persist!AllSessions)
        /\ v3 \in LeafSeq /\ Len(v3) \in 1..MaxLeaves
        /\ v4 \in {"booting", "asking", "on", "off"}
        /\ v5 \in BOOLEAN /\ v6 \in BOOLEAN /\ v7 \in 0..MaxSaves
        /\ v8 \in Copy /\ v9 \in Copy
BY DEF Persist!PersistTypeOK, LeafSeq, SavedSeq, Copy

(* What a copy is read back as.                                            *)
LEMMA RestoredIs ==
    ASSUME v2 \in Seq(Persist!AllSessions), Unshared(v2), NEW copy \in Copy, CopyGood(copy)
    PROVE  LET ls == Persist!Fill(Persist!Deserialize(copy.leaves))
           IN  /\ ls \in LeafSeq /\ Len(ls) = Len(copy.leaves) /\ Unshared(ls)
               /\ Persist!KeepsPlace(copy, ls) /\ Persist!Full(ls)
<1> DEFINE c == copy.leaves
           ds == Persist!Deserialize(c)
           ls == Persist!Fill(ds)
<1>1. c \in SavedSeq /\ SavedUnshared(c)
    BY DEF Copy, CopyGood
<1> HIDE DEF c
<1>2. /\ ds \in LeafSeq /\ Len(ds) = Len(c) /\ Unshared(ds)
      /\ \A k \in 1..Len(c) : ds[k] = Persist!Resolve(c[k])
    BY <1>1, DeserializeIs
<1> HIDE DEF ds
<1>3. /\ ls \in LeafSeq /\ Len(ls) = Len(ds) /\ Unshared(ls)
      /\ \A k \in 1..Len(ds) : ds[k] # Empty => ls[k] = ds[k]
      /\ Empty \in Persist!ToSet(ls) => Persist!ToSet(v2) \subseteq Persist!ToSet(ls)
    BY <1>2, FillIs
<1> HIDE DEF ls
<1>4. DOMAIN ls = 1..Len(c)
    BY <1>2, <1>3, LenProperties DEF LeafSeq
<1>5. ASSUME NEW k \in 1..Len(c), c[k] # Empty, c[k].tmux, c[k].session \in Persist!ToSet(v2)
      PROVE  ls[k] = c[k].session
    <2>1. c[k] \in Persist!Saved \cup {Empty}
        BY <1>1, ElementOfSeq DEF SavedSeq
    <2>2. Persist!Resolve(c[k]) = c[k].session /\ Persist!Resolve(c[k]) # Empty
        BY <1>5, <2>1, ResolveIs
    <2> QED
        BY <1>2, <1>3, <2>2
<1>6. Persist!KeepsPlace(copy, ls)
    BY <1>4, <1>5 DEF Persist!KeepsPlace, c
<1>7. Persist!Full(ls)
    BY <1>2, <1>3, <1>4 DEF Persist!Full, Unshared
<1> QED
    BY <1>2, <1>3, <1>6, <1>7 DEF ls, ds, c

(* Panes with an empty one put in.                                         *)
LEMMA SplitPanes ==
    ASSUME NEW ls \in LeafSeq, Unshared(ls), NEW k \in 1..Len(ls)
    PROVE  LET out == Persist!InsertAt(ls, k + 1, Empty)
           IN  out \in LeafSeq /\ Len(out) = Len(ls) + 1 /\ Unshared(out)
<1> DEFINE S == Persist!AllSessions \cup {Empty}
           a == SubSeq(ls, 1, k)
           b == SubSeq(ls, k + 1, Len(ls))
           ae == a \o <<Empty>>
           out == ae \o b
<1>1. Len(ls) \in Nat /\ k \in Nat /\ \A m \in 1..Len(ls) : ls[m] \in S
    BY LenProperties, ElementOfSeq DEF LeafSeq
<1>2. a \in Seq(S) /\ Len(a) = k /\ \A m \in 1..k : a[m] = ls[m]
    <2>1. 1 \in Int /\ k \in Int /\ \A m \in 1..k : ls[m] \in S
        BY <1>1
    <2>2. /\ a \in Seq(S) /\ Len(a) = IF 1 <= k THEN k - 1 + 1 ELSE 0
          /\ \A m \in 1..(k - 1 + 1) : a[m] = ls[1 + m - 1]
        BY <2>1, SubSeqProperties
    <2> HIDE DEF a
    <2> QED
        BY <1>1, <2>2
<1>3. /\ b \in Seq(S) /\ Len(b) = Len(ls) - k
      /\ \A m \in 1..(Len(ls) - k) : b[m] = ls[k + m]
    <2>1. k + 1 \in Int /\ Len(ls) \in Int /\ \A m \in (k + 1)..Len(ls) : ls[m] \in S
        BY <1>1
    <2>2. /\ b \in Seq(S) /\ Len(b) = IF k + 1 <= Len(ls) THEN Len(ls) - (k + 1) + 1 ELSE 0
          /\ \A m \in 1..(Len(ls) - (k + 1) + 1) : b[m] = ls[k + 1 + m - 1]
        BY <2>1, SubSeqProperties
    <2> HIDE DEF b
    <2> QED
        BY <1>1, <2>2
<1>4. Persist!InsertAt(ls, k + 1, Empty) = out
    <2>1. (k + 1) - 1 = k
        BY <1>1
    <2> QED
        BY <2>1 DEF Persist!InsertAt
<1>5. /\ ae \in Seq(S) /\ Len(ae) = k + 1
      /\ \A m \in 1..(k + 1) : ae[m] = IF m <= k THEN a[m] ELSE Empty
    <2>1. a \in Seq(S) /\ Empty \in S
        BY <1>2
    <2> DEFINE one == <<Empty>>
    <2>2. one \in Seq(S) /\ Len(one) = 1 /\ one[1] = Empty
        BY <2>1
    <2> HIDE DEF a, one, S
    <2>3. /\ a \o one \in Seq(S) /\ Len(a \o one) = Len(a) + Len(one)
          /\ \A m \in 1..(Len(a) + Len(one)) :
                (a \o one)[m] = IF m <= Len(a) THEN a[m] ELSE one[m - Len(a)]
        BY <2>1, <2>2, ConcatProperties
    <2>4. ASSUME NEW m \in 1..(k + 1) PROVE (a \o one)[m] = IF m <= k THEN a[m] ELSE Empty
        <3>1. m \in 1..(Len(a) + Len(one)) /\ (~(m <= k) => m - k = 1)
            BY <1>1, <1>2, <2>2
        <3> QED
            BY <1>2, <2>2, <2>3, <3>1
    <2> QED
        BY <1>1, <1>2, <2>2, <2>3, <2>4 DEF one
<1> HIDE DEF a, b, ae
<1>6. /\ out \in Seq(S) /\ Len(out) = Len(ae) + Len(b)
      /\ \A m \in 1..(Len(ae) + Len(b)) : out[m] = IF m <= Len(ae) THEN ae[m] ELSE b[m - Len(ae)]
    BY <1>3, <1>5, ConcatProperties
<1> HIDE DEF out, S
<1>7. Len(out) = Len(ls) + 1
    BY <1>1, <1>3, <1>5, <1>6
<1> DEFINE at(j) == IF j <= k THEN j ELSE j - 1
<1>8. ASSUME NEW m \in 1..Len(out), out[m] # Empty
      PROVE  m # k + 1 /\ at(m) \in 1..Len(ls) /\ out[m] = ls[at(m)]
    <2>1. m \in 1..(Len(ae) + Len(b)) /\ m \in Nat
        BY <1>6
    <2>2. CASE m <= k
        <3>1. m <= Len(ae) /\ m \in 1..(k + 1) /\ m \in 1..k
            BY <1>1, <1>5, <2>1, <2>2
        <3>2. out[m] = ls[m]
            BY <1>2, <1>5, <1>6, <2>1, <2>2, <3>1
        <3> QED
            BY <1>1, <2>1, <2>2, <3>2
    <2>3. CASE m = k + 1
        <3>1. m <= Len(ae) /\ m \in 1..(k + 1) /\ ~(m <= k)
            BY <1>1, <1>5, <2>3
        <3>2. out[m] = Empty
            BY <1>5, <1>6, <2>1, <3>1
        <3> QED
            BY <1>8, <3>2
    <2>4. CASE m > k + 1
        <3>1. /\ ~(m <= Len(ae)) /\ m - Len(ae) \in 1..(Len(ls) - k)
              /\ k + (m - Len(ae)) = m - 1 /\ m - 1 \in 1..Len(ls)
            <4>1. m \in Nat /\ m <= Len(ls) + 1 /\ Len(ae) = k + 1
                BY <1>1, <1>5, <1>7
            <4> HIDE DEF at
            <4> QED
                BY <1>1, <2>4, <4>1
        <3>2. out[m] = b[m - Len(ae)]
            BY <1>6, <2>1, <3>1
        <3>3. out[m] = ls[m - 1]
            BY <1>3, <3>1, <3>2
        <3> QED
            BY <1>1, <2>1, <2>4, <3>1, <3>3
    <2> QED
        BY <1>1, <2>1, <2>2, <2>3, <2>4
<1>9. ASSUME NEW i \in 1..Len(out), NEW m \in 1..Len(out), out[i] = out[m], out[i] # Empty
      PROVE  i = m
    <2>1. at(i) = at(m) /\ i # k + 1 /\ m # k + 1
        <3> HIDE DEF at
        <3> QED
            BY <1>8, <1>9 DEF Unshared
    <2>2. i \in Int /\ m \in Int
        BY <1>1, <1>7
    <2> QED
        BY <1>1, <2>1, <2>2
<1>10. out \in LeafSeq /\ Unshared(out)
    BY <1>6, <1>9 DEF Unshared, LeafSeq, S
<1> QED
    BY <1>4, <1>7, <1>10

(* Panes with a session shown in one of them, and no longer in another.    *)
LEMMA ShownPanes ==
    ASSUME NEW ls \in LeafSeq, Unshared(ls), NEW k \in 1..Len(ls),
           NEW s \in Persist!AllSessions
    PROVE  LET out == [j \in DOMAIN ls |->
                          IF j = k THEN s ELSE IF ls[j] = s THEN Empty ELSE ls[j]]
           IN  out \in LeafSeq /\ Len(out) = Len(ls) /\ Unshared(out)
<1> DEFINE out == [j \in DOMAIN ls |->
                      IF j = k THEN s ELSE IF ls[j] = s THEN Empty ELSE ls[j]]
<1>1. /\ Len(ls) \in Nat /\ DOMAIN ls = 1..Len(ls)
      /\ \A m \in 1..Len(ls) : ls[m] \in Persist!AllSessions \cup {Empty}
    BY LenProperties, ElementOfSeq DEF LeafSeq
<1>2. \A j \in 1..Len(ls) :
         out[j] = IF j = k THEN s ELSE IF ls[j] = s THEN Empty ELSE ls[j]
    BY <1>1
<1>3. out \in [1..Len(ls) -> Persist!AllSessions \cup {Empty}]
    BY <1>1
<1> HIDE DEF out
<1>4. out \in LeafSeq /\ Len(out) = Len(ls)
    BY <1>1, <1>3 DEF LeafSeq
<1>5. Unshared(out)
    BY <1>2, <1>4 DEF Unshared
<1> QED
    BY <1>4, <1>5 DEF out

(* One pane, of whatever.                                                  *)
LEMMA OnePane ==
    ASSUME NEW x \in Persist!AllSessions \cup {Empty}
    PROVE  <<x>> \in LeafSeq /\ Len(<<x>>) = 1 /\ Unshared(<<x>>)
<1> DEFINE one == <<x>>
<1>1. one \in LeafSeq /\ Len(one) = 1
    BY DEF LeafSeq
<1> HIDE DEF one
<1>2. Unshared(one)
    BY <1>1 DEF Unshared
<1> QED
    BY <1>1, <1>2 DEF one

(* Panes as they are saved.                                                *)
LEMMA SavedIs ==
    ASSUME NEW ls \in LeafSeq, Unshared(ls), NEW c, c = [k \in 1..Len(ls) |-> c[k]],
           \A k \in 1..Len(ls) :
              IF ls[k] = Empty THEN c[k] = Empty
              ELSE c[k] \in Persist!Saved /\ c[k].session = ls[k]
    PROVE  c \in SavedSeq /\ Len(c) = Len(ls) /\ SavedUnshared(c)
<1>1. Len(ls) \in Nat
    BY LenProperties DEF LeafSeq
<1>2. c \in [1..Len(ls) -> Persist!Saved \cup {Empty}]
    OBVIOUS
<1>3. c \in SavedSeq /\ Len(c) = Len(ls)
    BY <1>1, <1>2 DEF SavedSeq
<1>4. SavedUnshared(c)
    BY <1>3 DEF SavedUnshared, Unshared
<1> QED
    BY <1>3, <1>4

-----------------------------------------------------------------------------
(* A save: its time is a later one, within the bound.                      *)
LEMMA NowIs ==
    ASSUME v8 \in Copy, v9 \in Copy, Persist!Now <= MaxSaves
    PROVE  Persist!Now \in 1..MaxSaves
<1>1. MaxSaves \in Nat
    BY PageAssumption
<1>2. v8.at \in 0..MaxSaves /\ v9.at \in 0..MaxSaves
    BY DEF Copy
<1> DEFINE P(n) == /\ n \in {c.at : c \in {v8, v9}}
                   /\ \A c \in {v8, v9} : c.at <= n
<1>3. \E n \in 0..MaxSaves : P(n)
    <2>1. CASE v8.at <= v9.at
        BY <1>1, <1>2, <2>1
    <2>2. CASE ~(v8.at <= v9.at)
        BY <1>1, <1>2, <2>2
    <2> QED
        BY <2>1, <2>2
<1>4. Persist!Now = 1 + CHOOSE n \in 0..MaxSaves : P(n)
    BY DEF Persist!Now
<1> HIDE DEF P
<1>5. (CHOOSE n \in 0..MaxSaves : P(n)) \in 0..MaxSaves
    BY <1>3
<1> QED
    BY <1>1, <1>4, <1>5

(* Loading the page opens sessions, each once, in some order.              *)
LEMMA OpenedIs ==
    ASSUME v1 \subseteq Persist!AllSessions, NEW S \in SUBSET v1, NEW o \in Persist!SetToSeqs(S)
    PROVE  o \in Seq(Persist!AllSessions) /\ Unshared(o)
<1>1. IsFiniteSet(S)
    BY PageAssumption, EmptyIsNone, FS_Subset
<1>2. Persist!Cardinality(S) = Cardinality(S)
    BY DEF Persist!Cardinality, Cardinality
<1>3. Cardinality(S) \in Nat
    BY <1>1, FS_CardinalityType
<1>4. /\ o \in [1..Cardinality(S) -> S]
      /\ \A i, j \in 1..Cardinality(S) : i # j => o[i] # o[j]
    BY <1>2 DEF Persist!SetToSeqs
<1>5. o \in [1..Cardinality(S) -> Persist!AllSessions]
    BY <1>4
<1>6. o \in Seq(Persist!AllSessions) /\ Len(o) = Cardinality(S)
    BY <1>3, <1>5
<1> QED
    BY <1>4, <1>6 DEF Unshared

(* No step of the saving breaks its invariant, and reading a copy back     *)
(* gives every tmux session its pane and leaves none without one.          *)
LEMMA PersistStep ==
    ASSUME PersistInv, [Persist!PersistNext]_<<v1, v2, v3, v4, v5, v6, v7, v8, v9>>
    PROVE  PersistInv' /\ Persist!RestoresPanes
<1>1. /\ v1 \subseteq Persist!AllSessions /\ v2 \in Seq(Persist!AllSessions)
      /\ v3 \in LeafSeq /\ Len(v3) \in 1..MaxLeaves
      /\ v4 \in {"booting", "asking", "on", "off"}
      /\ v5 \in BOOLEAN /\ v6 \in BOOLEAN /\ v7 \in 0..MaxSaves
      /\ v8 \in Copy /\ v9 \in Copy
      /\ Unshared(v2) /\ Unshared(v3) /\ CopyGood(v8) /\ CopyGood(v9)
    BY PersistTyped DEF PersistInv
<1>2. MaxLeaves \in Nat \ {0} /\ MaxSaves \in Nat
    BY PageAssumption
<1> DEFINE Next1 ==
        /\ v1' \subseteq Persist!AllSessions /\ v2' \in Seq(Persist!AllSessions)
        /\ v3' \in LeafSeq /\ Len(v3') \in 1..MaxLeaves
        /\ v4' \in {"booting", "asking", "on", "off"}
        /\ v5' \in BOOLEAN /\ v6' \in BOOLEAN /\ v7' \in 0..MaxSaves
        /\ v8' \in Copy /\ v9' \in Copy
        /\ Unshared(v2') /\ Unshared(v3') /\ CopyGood(v8') /\ CopyGood(v9')
<1>3. Persist!RestoresPanes
    <2>1. ASSUME Persist!RestoreLocal, v8.at # 0
          PROVE  Persist!KeepsPlace(v8, v3') /\ Persist!Full(v3')
        <3>1. v3' = Persist!Fill(Persist!Deserialize(v8.leaves))
            BY <2>1 DEF Persist!RestoreLocal, Persist!Apply
        <3> QED
            BY <1>1, <3>1, RestoredIs
    <2>2. ASSUME Persist!RestoreRemote, v9.at > v7
          PROVE  Persist!KeepsPlace(v9, v3') /\ Persist!Full(v3')
        <3>1. v3' = Persist!Fill(Persist!Deserialize(v9.leaves))
            BY <2>2 DEF Persist!RestoreRemote, Persist!Apply
        <3> QED
            BY <1>1, <3>1, RestoredIs
    <2> QED
        BY <2>1, <2>2 DEF Persist!RestoresPanes
<1>4. ASSUME NEW copy \in Copy, CopyGood(copy), copy.at # 0, Persist!Apply(copy)
      PROVE  /\ v3' \in LeafSeq /\ Len(v3') \in 1..MaxLeaves /\ Unshared(v3')
             /\ v6' \in BOOLEAN
    <2>1. v3' = Persist!Fill(Persist!Deserialize(copy.leaves)) /\ v6' = TRUE
        BY <1>4 DEF Persist!Apply
    <2> QED
        BY <1>1, <1>4, <2>1, RestoredIs DEF CopyGood
<1>5. ASSUME NEW ls \in LeafSeq, Len(ls) \in 1..MaxLeaves, Unshared(ls), Persist!Change(ls)
      PROVE  Next1
    BY <1>1, <1>5 DEF Persist!Change
<1>6. Next1
    <2>1. CASE UNCHANGED <<v1, v2, v3, v4, v5, v6, v7, v8, v9>>
        BY <1>1, <2>1
    <2>2. CASE Persist!StartRestore
        <3>1. v2' \in Seq(Persist!AllSessions) /\ Unshared(v2')
            BY <1>1, <2>2, OpenedIs DEF Persist!StartRestore
        <3>2. v3' = <<Empty>> \/ (v2' # <<>> /\ v3' = <<Persist!Last(v2')>>)
            BY <2>2 DEF Persist!StartRestore
        <3>3. v2' # <<>> => Persist!Last(v2') \in Persist!AllSessions
            <4> DEFINE o == v2'
            <4> SUFFICES ASSUME o # <<>> PROVE o[Len(o)] \in Persist!AllSessions
                BY DEF Persist!Last
            <4>1. o \in Seq(Persist!AllSessions)
                BY <3>1
            <4> HIDE DEF o
            <4>2. Len(o) \in Nat \ {0}
                BY <4>1, EmptySeq
            <4> QED
                BY <4>1, <4>2, ElementOfSeq
        <3>4. v3' \in LeafSeq /\ Len(v3') = 1 /\ Unshared(v3')
            BY <3>2, <3>3, OnePane
        <3>5. /\ v4' = "booting" /\ v5' = FALSE /\ v6' = FALSE /\ v7' = 0
              /\ UNCHANGED <<v1, v8, v9>>
            BY <2>2 DEF Persist!StartRestore
        <3>6. Len(v3') \in 1..MaxLeaves
            BY <1>2, <3>4
        <3>7. /\ v1' \subseteq Persist!AllSessions /\ v8' \in Copy /\ v9' \in Copy
              /\ CopyGood(v8') /\ CopyGood(v9')
            BY <1>1, <3>5
        <3>8. v7' \in 0..MaxSaves
            BY <1>2, <3>5
        <3> QED
            BY <3>1, <3>4, <3>5, <3>6, <3>7, <3>8
    <2>3. CASE Persist!RestoreLocal
        <3>1. /\ v7' = v8.at /\ v5' = TRUE /\ v4' = "asking" /\ UNCHANGED <<v1, v2, v8, v9>>
              /\ IF v8.at # 0 THEN Persist!Apply(v8) ELSE UNCHANGED <<v3, v6>>
            BY <2>3 DEF Persist!RestoreLocal, Persist!Unapplied
        <3>2. /\ v3' \in LeafSeq /\ Len(v3') \in 1..MaxLeaves /\ Unshared(v3')
              /\ v6' \in BOOLEAN
            BY <1>1, <1>4, <3>1
        <3>3. v8.at \in 0..MaxSaves
            BY <1>1 DEF Copy
        <3> QED
            BY <1>1, <3>1, <3>2, <3>3
    <2>4. CASE Persist!SkipRestore \/ Persist!RestoreUnanswered \/ Persist!ServerStarts
        BY <1>1, <1>2, <2>4
           DEF Persist!SkipRestore, Persist!RestoreUnanswered, Persist!ServerStarts
    <2>5. CASE Persist!RestoreRemote
        <3>1. /\ v7' = 0 /\ v4' = "on" /\ UNCHANGED <<v1, v2, v5, v8, v9>>
              /\ IF v9.at > v7 THEN Persist!Apply(v9) ELSE UNCHANGED <<v3, v6>>
            BY <2>5 DEF Persist!RestoreRemote, Persist!Unapplied
        <3>2. v9.at > v7 => v9.at # 0
            BY <1>1, <1>2 DEF Copy
        <3>3. /\ v3' \in LeafSeq /\ Len(v3') \in 1..MaxLeaves /\ Unshared(v3')
              /\ v6' \in BOOLEAN
            BY <1>1, <1>4, <3>1, <3>2
        <3> QED
            BY <1>1, <1>2, <3>1, <3>3
    <2>6. ASSUME NEW k \in DOMAIN v3, NEW s \in Persist!AllSessions, Persist!ShowIn(k, s)
          PROVE  Next1
        <3> DEFINE out == [j \in DOMAIN v3 |->
                              IF j = k THEN s ELSE IF v3[j] = s THEN Empty ELSE v3[j]]
        <3>1. k \in 1..Len(v3)
            BY <1>1, LenProperties DEF LeafSeq
        <3>2. out \in LeafSeq /\ Len(out) = Len(v3) /\ Unshared(out)
            BY <1>1, <3>1, ShownPanes
        <3>3. Persist!Change(out)
            BY <2>6 DEF Persist!ShowIn
        <3> HIDE DEF out
        <3> QED
            BY <1>1, <1>5, <3>2, <3>3
    <2>7. ASSUME NEW k \in DOMAIN v3, Persist!SplitAt(k) PROVE Next1
        <3> DEFINE out == Persist!InsertAt(v3, k + 1, Empty)
        <3>1. k \in 1..Len(v3)
            BY <1>1, LenProperties DEF LeafSeq
        <3>2. out \in LeafSeq /\ Len(out) = Len(v3) + 1 /\ Unshared(out)
            BY <1>1, <3>1, SplitPanes
        <3>3. Persist!Change(out) /\ Len(v3) < MaxLeaves
            BY <2>7 DEF Persist!SplitAt
        <3> HIDE DEF out
        <3>4. Len(out) \in 1..MaxLeaves
            BY <1>1, <1>2, <3>2, <3>3
        <3> QED
            BY <1>5, <3>2, <3>3, <3>4
    <2>8. ASSUME NEW k \in DOMAIN v3, Persist!CloseLeaf(k) PROVE Next1
        <3> DEFINE out == IF Len(v3) = 1 THEN <<Empty>> ELSE Persist!RemoveAt(v3, k)
        <3>1. k \in 1..Len(v3)
            BY <1>1, LenProperties DEF LeafSeq
        <3>2. Persist!Change(out)
            BY <2>8 DEF Persist!CloseLeaf
        <3>3. CASE Len(v3) = 1
            <4>1. out = <<Empty>>
                BY <3>3
            <4> HIDE DEF out
            <4>2. out \in LeafSeq /\ Len(out) = 1 /\ Unshared(out)
                BY <4>1, OnePane
            <4>3. Len(out) \in 1..MaxLeaves
                BY <1>2, <4>2
            <4> QED
                BY <1>5, <3>2, <4>2, <4>3
        <3>4. CASE Len(v3) # 1
            <4>1. out = Persist!RemoveAt(v3, k)
                BY <3>4
            <4> HIDE DEF out
            <4>2. out \in LeafSeq /\ Len(out) = Len(v3) - 1 /\ Unshared(out)
                BY <1>1, <3>1, <4>1, RemovedAt DEF LeafSeq
            <4>3. Len(out) \in 1..MaxLeaves
                BY <1>1, <1>2, <3>4, <4>2
            <4> QED
                BY <1>5, <3>2, <4>2, <4>3
        <3> QED
            BY <3>3, <3>4
    <2>9. ASSUME NEW k \in DOMAIN v2, Persist!CloseSession(k) PROVE Next1
        <3>1. k \in 1..Len(v2)
            BY <1>1, LenProperties
        <3>2. /\ v2' = Persist!RemoveAt(v2, k) /\ v1' \subseteq v1
              /\ UNCHANGED <<v3, v4, v5, v6, v7, v8, v9>>
            BY <2>9 DEF Persist!CloseSession
        <3>3. v2' \in Seq(Persist!AllSessions) /\ Unshared(v2')
            BY <1>1, <3>1, <3>2, RemovedAt
        <3> QED
            BY <1>1, <3>2, <3>3
    <2>10. CASE Persist!TimerFires
        <3>1. v6' = FALSE /\ UNCHANGED <<v1, v2, v3, v4, v5, v7>>
            BY <2>10 DEF Persist!TimerFires
        <3>2. CASE v5 /\ Persist!Now <= MaxSaves
            <4> DEFINE c == Persist!Serialize(v3)
                       copy == [leaves |-> c, at |-> Persist!Now]
            <4>1. v8' = copy /\ v9' \in {v8', v9}
                BY <2>10, <3>2 DEF Persist!TimerFires
            <4>2. DOMAIN v3 = 1..Len(v3) /\ \A k \in 1..Len(v3) : v3[k] \in Persist!AllSessions \cup {Empty}
                BY <1>1, LenProperties, ElementOfSeq DEF LeafSeq
            <4>3. c = [k \in 1..Len(v3) |-> c[k]]
                BY <4>2 DEF Persist!Serialize
            <4>4. ASSUME NEW k \in 1..Len(v3)
                  PROVE  IF v3[k] = Empty THEN c[k] = Empty
                         ELSE c[k] \in Persist!Saved /\ c[k].session = v3[k]
                BY <4>2, EmptyIsNone DEF Persist!Serialize
            <4> HIDE DEF c
            <4>5. c \in SavedSeq /\ Len(c) = Len(v3) /\ SavedUnshared(c)
                BY <1>1, <4>3, <4>4, SavedIs
            <4>6. Persist!Now \in 0..MaxSaves
                BY <1>1, <1>2, <3>2, NowIs
            <4>7. copy \in Copy /\ copy.leaves = c
                BY <4>5, <4>6 DEF Copy
            <4> HIDE DEF copy
            <4>8. CopyGood(copy)
                BY <1>1, <4>5, <4>7 DEF CopyGood
            <4>9. v8' \in Copy /\ CopyGood(v8') /\ v9' \in Copy /\ CopyGood(v9')
                <5>1. CASE v9' = v8'
                    BY <4>1, <4>7, <4>8, <5>1
                <5>2. CASE v9' = v9
                    BY <1>1, <4>1, <4>7, <4>8, <5>2
                <5> QED
                    BY <4>1, <5>1, <5>2
            <4> QED
                BY <1>1, <3>1, <4>9
        <3>3. CASE ~(v5 /\ Persist!Now <= MaxSaves)
            BY <1>1, <2>10, <3>1, <3>3 DEF Persist!TimerFires
        <3> QED
            BY <3>2, <3>3
    <2>11. CASE Persist!OtherSaves
        <3>1. UNCHANGED <<v1, v2, v3, v4, v5, v6, v7, v8>> /\ Persist!Now <= MaxSaves
            BY <2>11 DEF Persist!OtherSaves
        <3>2. PICK n \in 1..MaxLeaves :
                \E ls \in [1..n -> Persist!AllSessions \cup {Empty}] :
                  /\ \A j, k \in 1..n : ls[j] = ls[k] /\ ls[j] # Empty => j = k
                  /\ v9' = [at |-> Persist!Now, leaves |-> [k \in 1..n |->
                                IF ls[k] = Empty THEN Empty
                                ELSE [session |-> ls[k], tmux |-> ls[k] \in TmuxSessions]]]
            BY <2>11 DEF Persist!OtherSaves
        <3>3. PICK ls \in [1..n -> Persist!AllSessions \cup {Empty}] :
                  /\ \A j, k \in 1..n : ls[j] = ls[k] /\ ls[j] # Empty => j = k
                  /\ v9' = [at |-> Persist!Now, leaves |-> [k \in 1..n |->
                                IF ls[k] = Empty THEN Empty
                                ELSE [session |-> ls[k], tmux |-> ls[k] \in TmuxSessions]]]
            BY <3>2
        <3> DEFINE c == [k \in 1..n |->
                                IF ls[k] = Empty THEN Empty
                                ELSE [session |-> ls[k], tmux |-> ls[k] \in TmuxSessions]]
        <3>4. ls \in LeafSeq /\ Len(ls) = n
            BY <1>2 DEF LeafSeq
        <3>5. Unshared(ls)
            BY <3>3, <3>4 DEF Unshared
        <3>6. ASSUME NEW k \in 1..Len(ls)
              PROVE  IF ls[k] = Empty THEN c[k] = Empty
                     ELSE c[k] \in Persist!Saved /\ c[k].session = ls[k]
            BY <3>4, EmptyIsNone
        <3>7. c = [k \in 1..Len(ls) |-> c[k]]
            BY <3>4
        <3>8. v9' = [at |-> Persist!Now, leaves |-> c]
            BY <3>3
        <3> HIDE DEF c
        <3>9. c \in SavedSeq /\ Len(c) = Len(ls) /\ SavedUnshared(c)
            BY <3>4, <3>5, <3>6, <3>7, SavedIs
        <3>10. Persist!Now \in 0..MaxSaves
            BY <1>1, <1>2, <3>1, NowIs
        <3>11. v9' \in Copy /\ v9'.leaves = c
            BY <3>8, <3>9, <3>10 DEF Copy
        <3>12. CopyGood(v9')
            BY <3>4, <3>9, <3>11 DEF CopyGood
        <3> QED
            BY <1>1, <3>1, <3>11, <3>12
    <2> QED
        BY <2>1, <2>2, <2>3, <2>4, <2>5, <2>6, <2>7, <2>8, <2>9, <2>10, <2>11
           DEF Persist!PersistNext
<1>7. PersistInv'
    BY <1>6 DEF PersistInv, Persist!PersistTypeOK, LeafSeq, SavedSeq, Copy, Unshared, CopyGood,
                SavedUnshared
<1> QED
    BY <1>3, <1>7

(* The copies and the panes are good as long as the page is about them.    *)
LEMMA PersistAlways == PageSpec => [](part = "persist" => PersistInv)
<1> DEFINE Inv == part = "persist" => PersistInv
<1>1. PageInit => Inv
    <2>1. SUFFICES ASSUME PageInit, part = "persist" PROVE PersistInv
        OBVIOUS
    <2>2. Persist!PersistInit
        BY <2>1 DEF PageInit
    <2>3. /\ v1 = Persist!AllSessions /\ v2 = <<>> /\ v3 = <<Empty>> /\ v4 = "booting"
          /\ v5 = FALSE /\ v6 = FALSE /\ v7 = 0
          /\ v8 = [leaves |-> <<>>, at |-> 0] /\ v9 = [leaves |-> <<>>, at |-> 0]
        BY <2>2 DEF Persist!PersistInit, Persist!NoCopy
    <2>4. MaxLeaves \in Nat \ {0} /\ MaxSaves \in Nat
        BY PageAssumption
    <2>5. v2 \in Seq(Persist!AllSessions) /\ Len(v2) = 0 /\ Unshared(v2)
        BY <2>3, EmptySeq DEF Unshared
    <2>6. v3 \in LeafSeq /\ Len(v3) = 1 /\ Unshared(v3)
        BY <2>3, OnePane
    <2>7. v8 \in Copy /\ v9 \in Copy /\ CopyGood(v8) /\ CopyGood(v9)
        <3> DEFINE none == <<>>
        <3>1. none \in SavedSeq /\ Len(none) = 0
            BY EmptySeq DEF SavedSeq
        <3>2. v8 = [leaves |-> none, at |-> 0] /\ v9 = [leaves |-> none, at |-> 0]
            BY <2>3
        <3> HIDE DEF none
        <3>3. v8 \in Copy /\ v9 \in Copy
            BY <2>4, <3>1, <3>2 DEF Copy
        <3> QED
            BY <3>1, <3>2, <3>3 DEF CopyGood, SavedUnshared
    <2>8. Persist!PersistTypeOK
        <3>1. Len(v3) \in 1..MaxLeaves /\ v7 \in 0..MaxSaves
            BY <2>3, <2>4, <2>6
        <3> QED
            BY <2>3, <2>5, <2>6, <2>7, <3>1, PersistTyped
    <2> QED
        BY <2>5, <2>6, <2>7, <2>8 DEF PersistInv
<1>2. Inv /\ [PageNext]_pageVars => Inv'
    BY TerminalPartSteps, PersistStep
<1> QED
    BY <1>1, <1>2, PTL DEF PageSpec

(* persist.js: a layout that is read back gives every tmux session its     *)
(* pane, no session two, and leaves no pane empty that could have one; for *)
(* any sessions, and whatever else changed the panes and the copies.       *)
THEOREM LayoutIsRestored == PageSpec => LayoutRestored
<1>1. (part = "persist" => PersistInv) /\ [PageNext]_pageVars
          => [part = "persist" => Persist!RestoresPanes]_pageVars
    BY TerminalPartSteps, PersistStep
<1> QED
    BY <1>1, PersistAlways, PTL DEF PageSpec, LayoutRestored
=============================================================================
