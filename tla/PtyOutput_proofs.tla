--------------------------- MODULE PtyOutput_proofs ---------------------------
(***************************************************************************)
(* Terminal output, for any number of viewers, any bounds of the queues    *)
(* and the scrollback, and any length of the output.                       *)
(***************************************************************************)
EXTENDS PtyOutput, SequenceTheorems, FiniteSetTheorems, TLAPS

-----------------------------------------------------------------------------
(* The operators on queues and connections.                                *)

(* The bounds are numbers. *)
LEMMA Bounds ==
    /\ QueueMax \in Nat /\ QueueMax >= 4 /\ QueueMax = 2 * High
    /\ High \in Nat /\ High >= 2 /\ Low \in Nat /\ Low <= High
    /\ MaxPerSession \in Nat /\ MaxScroll \in Nat /\ MaxScroll > 0
BY PtyOutputAssumption DEF QueueMax

(* Last cuts a list to its last n elements. *)
LEMMA LastProperties ==
    ASSUME NEW T, NEW s \in Seq(T), NEW n \in Nat, n > 0
    PROVE  /\ Last(s, n) \in Seq(T)
           /\ Len(Last(s, n)) = IF Len(s) > n THEN n ELSE Len(s)
           /\ \A i \in 1 .. Len(Last(s, n)) :
                 Last(s, n)[i] = s[i + (Len(s) - Len(Last(s, n)))]
<1>1. Len(s) \in Nat /\ \A i \in 1 .. Len(s) : s[i] \in T
    BY LenProperties, ElementOfSeq
<1>2. CASE Len(s) > n
    <2> DEFINE r == SubSeq(s, Len(s) - n + 1, Len(s))
    <2>1. /\ r \in Seq(T) /\ Len(r) = n
          /\ \A i \in 1 .. n : r[i] = s[i + (Len(s) - n)]
        <3>1. \A i \in (Len(s) - n + 1) .. Len(s) : s[i] \in T
            BY <1>1, <1>2
        <3>2. /\ r \in Seq(T) /\ Len(r) = Len(s) - (Len(s) - n + 1) + 1
              /\ \A i \in 1 .. Len(s) - (Len(s) - n + 1) + 1 : r[i] = s[(Len(s) - n + 1) + i - 1]
            BY <1>1, <1>2, <3>1, SubSeqProperties
        <3> HIDE DEF r
        <3>3. \A i \in 1 .. n : (Len(s) - n + 1) + i - 1 = i + (Len(s) - n)
            BY <1>1
        <3>4. Len(s) - (Len(s) - n + 1) + 1 = n
            BY <1>1
        <3> QED
            BY <3>2, <3>3, <3>4
    <2>2. Last(s, n) = r
        BY <1>2 DEF Last
    <2> HIDE DEF r
    <2> QED
        BY <1>1, <1>2, <2>1, <2>2
<1>3. CASE ~(Len(s) > n)
    <2>1. Last(s, n) = s
        BY <1>3 DEF Last
    <2> QED
        BY <1>1, <1>3, <2>1
<1> QED
    BY <1>2, <1>3

(* A list without its first element. *)
LEMMA TailProperties ==
    ASSUME NEW T, NEW s \in Seq(T), s # <<>>
    PROVE  /\ Len(s) \in Nat /\ Len(s) > 0
           /\ Tail(s) \in Seq(T) /\ Len(Tail(s)) = Len(s) - 1
           /\ \A i \in 1 .. Len(s) - 1 : Tail(s)[i] = s[i + 1]
           /\ Head(s) = s[1] /\ Head(s) \in T
<1>1. Len(s) \in Nat /\ Len(s) # 0
    BY LenProperties, EmptySeq
<1>2. /\ Head(s) \in T
      /\ Tail(s) \in Seq(T) /\ Len(Tail(s)) = Len(s) - 1
      /\ \A i \in 1 .. Len(Tail(s)) : Tail(s)[i] = s[i + 1]
    BY HeadTailProperties
<1>3. Head(s) = s[1]
    OBVIOUS
<1> QED
    BY <1>1, <1>2, <1>3

(* A connection with another queue is one. *)
LEMMA Requeued ==
    ASSUME NEW c \in Connection, NEW q \in Seq(Frame), NEW l \in BOOLEAN
    PROVE  LET d == [c EXCEPT !.queue = q, !.lossy = l] IN
           /\ d \in Connection
           /\ d.phase = c.phase /\ d.worker = c.worker /\ d.render = c.render
           /\ d.seen = c.seen /\ d.ended = c.ended /\ d.paused = c.paused
           /\ d.queue = q /\ d.lossy = l
BY DEF Connection

(* What the callback of a viewer does to its connection: the frame is at   *)
(* the end of the queue, over the oldest one when the queue is full, and   *)
(* the pause follows the length of the queue.                              *)
LEMMA OnDataProperties ==
    ASSUME NEW c \in Connection, Len(c.queue) <= QueueMax, NEW f \in Frame
    PROVE  /\ OnData(c, f) \in Connection
           /\ Len(OnData(c, f).queue) <= QueueMax
           /\ OnData(c, f).phase = c.phase /\ OnData(c, f).worker = c.worker
           /\ OnData(c, f).render = c.render /\ OnData(c, f).seen = c.seen
           /\ OnData(c, f).ended = c.ended
           /\ \/ /\ Len(c.queue) < QueueMax /\ OnData(c, f).queue = Append(c.queue, f)
                 /\ OnData(c, f).lossy = c.lossy
              \/ /\ Len(c.queue) = QueueMax /\ OnData(c, f).queue = Append(Tail(c.queue), f)
                 /\ OnData(c, f).lossy = TRUE
           /\ Len(OnData(c, f).queue) > High => OnData(c, f).paused
           /\ Len(OnData(c, f).queue) <= High /\ ~c.paused => ~OnData(c, f).paused
<1> DEFINE d == Put(c, f)
           p == Len(d.queue) > High \/ (c.paused /\ Len(d.queue) >= Low)
<1>1. c.queue \in Seq(Frame) /\ Len(c.queue) \in Nat
    <2>1. c.queue \in Seq(Frame)
        BY DEF Connection
    <2> QED
        BY <2>1, LenProperties
<1>2. /\ d \in Connection
      /\ d.phase = c.phase /\ d.worker = c.worker /\ d.render = c.render
      /\ d.seen = c.seen /\ d.ended = c.ended /\ d.paused = c.paused
      /\ Len(d.queue) \in Nat /\ Len(d.queue) <= QueueMax
      /\ \/ Len(c.queue) < QueueMax /\ d.queue = Append(c.queue, f) /\ d.lossy = c.lossy
         \/ Len(c.queue) = QueueMax /\ d.queue = Append(Tail(c.queue), f) /\ d.lossy = TRUE
    <2>1. CASE Len(c.queue) < QueueMax
        <3> DEFINE q == Append(c.queue, f)
        <3>1. d = [c EXCEPT !.queue = q]
            BY <2>1 DEF Put
        <3>2. q \in Seq(Frame) /\ Len(q) = Len(c.queue) + 1
            BY <1>1, AppendProperties
        <3> HIDE DEF d, q
        <3>3. /\ d \in Connection
              /\ d.phase = c.phase /\ d.worker = c.worker /\ d.render = c.render
              /\ d.seen = c.seen /\ d.ended = c.ended /\ d.paused = c.paused
              /\ d.queue = q /\ d.lossy = c.lossy
            BY <3>1, <3>2 DEF Connection
        <3> QED
            BY <1>1, <2>1, <3>2, <3>3, Bounds DEF q
    <2>2. CASE ~(Len(c.queue) < QueueMax)
        <3> DEFINE q == Append(Tail(c.queue), f)
        <3>1. d = [c EXCEPT !.queue = q, !.lossy = TRUE]
            BY <2>2 DEF Put, Lost, Connection
        <3>2. c.queue # <<>> /\ Len(c.queue) = QueueMax
            BY <1>1, <2>2, Bounds, EmptySeq
        <3>3. Tail(c.queue) \in Seq(Frame) /\ Len(Tail(c.queue)) = Len(c.queue) - 1
            BY <1>1, <3>2, TailProperties
        <3>4. q \in Seq(Frame) /\ Len(q) = Len(Tail(c.queue)) + 1
            BY <3>3, AppendProperties
        <3> HIDE DEF d, q
        <3>5. /\ d \in Connection
              /\ d.phase = c.phase /\ d.worker = c.worker /\ d.render = c.render
              /\ d.seen = c.seen /\ d.ended = c.ended /\ d.paused = c.paused
              /\ d.queue = q /\ d.lossy = TRUE
            BY <3>1, <3>4 DEF Connection
        <3>6. Len(d.queue) = Len(c.queue)
            BY <1>1, <3>3, <3>4, <3>5
        <3>7. Len(d.queue) \in Nat /\ Len(d.queue) <= QueueMax
            BY <1>1, <3>2, <3>6
        <3> QED
            BY <3>2, <3>5, <3>7 DEF q
    <2> QED
        BY <2>1, <2>2
<1>3. OnData(c, f) = [d EXCEPT !.paused = p]
    BY DEF OnData
<1>4. /\ p \in BOOLEAN
      /\ Len(d.queue) > High => p
      /\ Len(d.queue) <= High /\ ~c.paused => ~p
    <2>1. c.paused \in BOOLEAN
        BY DEF Connection
    <2>2. Len(d.queue) \in Nat
        BY <1>2
    <2> HIDE DEF d
    <2> QED
        BY <2>1, <2>2, Bounds
<1> HIDE DEF d, p
<1>5. /\ OnData(c, f) \in Connection
      /\ OnData(c, f).phase = d.phase /\ OnData(c, f).worker = d.worker
      /\ OnData(c, f).render = d.render /\ OnData(c, f).seen = d.seen
      /\ OnData(c, f).ended = d.ended /\ OnData(c, f).queue = d.queue
      /\ OnData(c, f).lossy = d.lossy /\ OnData(c, f).paused = p
    BY <1>2, <1>3, <1>4 DEF Connection
<1> QED
    BY <1>2, <1>4, <1>5

(* What the send worker does to its connection: the first frame goes.      *)
LEMMA SentProperties ==
    ASSUME NEW c \in Connection, c.queue # <<>>
    PROVE  /\ Sent(c) \in Connection
           /\ Sent(c).queue = Tail(c.queue)
           /\ Sent(c).phase = c.phase /\ Sent(c).worker = c.worker
           /\ Sent(c).paused = c.paused /\ Sent(c).render = c.render
           /\ Sent(c).lossy = c.lossy
           /\ Sent(c).seen = IF Head(c.queue).kind = "out" THEN Head(c.queue).to ELSE c.seen
           /\ Sent(c).ended <=> c.ended \/ Head(c.queue) = End
<1> DEFINE f == Head(c.queue)
           t == Tail(c.queue)
           s == IF f.kind = "out" THEN f.to ELSE c.seen
<1>1. f \in Frame /\ t \in Seq(Frame)
    <2>1. c.queue \in Seq(Frame)
        BY DEF Connection
    <2> QED
        BY <2>1, TailProperties
<1>2. Sent(c) = [c EXCEPT !.queue = t, !.seen = s, !.ended = (c.ended \/ f = End)]
    BY DEF Sent, Connection
<1>3. s \in Nat
    BY <1>1 DEF Frame, Connection
<1> HIDE DEF f, t, s
<1>4. /\ Sent(c) \in Connection
      /\ Sent(c).queue = t
      /\ Sent(c).phase = c.phase /\ Sent(c).worker = c.worker
      /\ Sent(c).paused = c.paused /\ Sent(c).render = c.render
      /\ Sent(c).lossy = c.lossy
      /\ Sent(c).seen = s
      /\ Sent(c).ended <=> c.ended \/ f = End
    BY <1>1, <1>2, <1>3 DEF Connection
<1> QED
    BY <1>4 DEF f, t, s

(* What a broadcast does to a connection.                                  *)
LEMMA BroadcastProperties ==
    ASSUME NEW conns \in [Viewers -> Connection], \A w \in Viewers : Len(conns[w].queue) <= QueueMax,
           NEW f \in Frame
    PROVE  /\ Broadcast(conns, f) \in [Viewers -> Connection]
           /\ \A w \in Viewers :
                 /\ Len(Broadcast(conns, f)[w].queue) <= QueueMax
                 /\ w \in subs => Broadcast(conns, f)[w] = OnData(conns[w], f)
                 /\ w \notin subs /\ conns[w].phase = "marking"
                       => Broadcast(conns, f)[w] = [conns[w] EXCEPT !.lossy = TRUE]
                 /\ w \notin subs /\ conns[w].phase # "marking"
                       => Broadcast(conns, f)[w] = conns[w]
                 /\ Broadcast(conns, f)[w].phase = conns[w].phase
                 /\ Broadcast(conns, f)[w].render = conns[w].render
                 /\ w \notin subs => Broadcast(conns, f)[w].paused = conns[w].paused
<1>1. ASSUME NEW w \in Viewers, w \in subs
      PROVE  /\ Broadcast(conns, f)[w] = OnData(conns[w], f)
             /\ Broadcast(conns, f)[w] \in Connection
             /\ Len(Broadcast(conns, f)[w].queue) <= QueueMax
             /\ Broadcast(conns, f)[w].phase = conns[w].phase
             /\ Broadcast(conns, f)[w].render = conns[w].render
    <2>1. Broadcast(conns, f)[w] = OnData(conns[w], f)
        BY <1>1 DEF Broadcast
    <2>2. conns[w] \in Connection /\ Len(conns[w].queue) <= QueueMax
        OBVIOUS
    <2>3. /\ OnData(conns[w], f) \in Connection
          /\ Len(OnData(conns[w], f).queue) <= QueueMax
          /\ OnData(conns[w], f).phase = conns[w].phase
          /\ OnData(conns[w], f).render = conns[w].render
        BY <2>2, OnDataProperties
    <2> QED
        BY <2>1, <2>3
<1>2. ASSUME NEW w \in Viewers, w \notin subs, conns[w].phase = "marking"
      PROVE  /\ Broadcast(conns, f)[w] = [conns[w] EXCEPT !.lossy = TRUE]
             /\ Broadcast(conns, f)[w] \in Connection
             /\ Len(Broadcast(conns, f)[w].queue) <= QueueMax
             /\ Broadcast(conns, f)[w].phase = conns[w].phase
             /\ Broadcast(conns, f)[w].render = conns[w].render
             /\ Broadcast(conns, f)[w].paused = conns[w].paused
    <2>1. Broadcast(conns, f)[w] = [conns[w] EXCEPT !.lossy = TRUE] /\ conns[w] \in Connection
        BY <1>2 DEF Broadcast, Lost
    <2> QED
        BY <2>1 DEF Connection
<1>3. ASSUME NEW w \in Viewers, w \notin subs, conns[w].phase # "marking"
      PROVE  /\ Broadcast(conns, f)[w] = conns[w]
             /\ Broadcast(conns, f)[w] \in Connection
             /\ Len(Broadcast(conns, f)[w].queue) <= QueueMax
    BY <1>3 DEF Broadcast
<1>4. \A w \in Viewers : Broadcast(conns, f)[w] \in Connection
    BY <1>1, <1>2, <1>3
<1>5. Broadcast(conns, f) \in [Viewers -> Connection]
    BY <1>4 DEF Broadcast
<1> QED
    BY <1>1, <1>2, <1>3, <1>5

-----------------------------------------------------------------------------
(* Types.                                                                  *)

(* The frames the manager and the handlers make. *)
LEMMA Frames ==
    /\ End \in Frame /\ Exit \in Frame /\ End.kind # "out" /\ Exit.kind # "out"
    /\ Exit # End
    /\ \A a, b \in Nat :
          /\ Output(a, b) \in Frame /\ Output(a, b) # End
          /\ Output(a, b).kind = "out" /\ Output(a, b).from = a /\ Output(a, b).to = b
BY DEF End, Exit, Output, Frame

(* Nobody's connection is a connection. *)
LEMMA OutProperties ==
    /\ Out \in Connection /\ Len(Out.queue) = 0 /\ Out.queue = <<>> /\ Out.phase = "out"
    /\ ~Out.paused /\ ~Out.render /\ Out.seen = 0 /\ ~Out.lossy
BY EmptySeq DEF Out, Connection

Connected ==
    /\ conn \in [Viewers -> Connection]
    /\ \A w \in Viewers : Len(conn[w].queue) <= QueueMax

(* The pauses of a broadcast are pauses. *)
LEMMA PauseTypes ==
    ASSUME TypeOK, PauseOrResume
    PROVE  requesters' \subseteq Viewers \X {"queue", "render"} /\ reader' \in BOOLEAN
<1> DEFINE pausing  == {w \in Viewers : ~conn[w].paused /\ conn'[w].paused}
           resuming == {w \in Viewers : conn[w].paused /\ ~conn'[w].paused}
<1>1. /\ requesters' = (requesters \cup {<<w, "queue">> : w \in pausing})
                           \ {<<w, "queue">> : w \in resuming}
      /\ reader' = IF requesters' = {} THEN reader \/ resuming # {} ELSE reader /\ pausing = {}
    BY Zenon DEF PauseOrResume
<1>2. pausing \subseteq Viewers
    OBVIOUS
<1> HIDE DEF pausing, resuming
<1>3. requesters \subseteq Viewers \X {"queue", "render"} /\ reader \in BOOLEAN
    BY DEF TypeOK
<1>4. reader' \in BOOLEAN
    <2>1. CASE requesters' = {}
        <3>1. reader' = (reader \/ resuming # {})
            BY <1>1, <2>1
        <3> QED
            BY <3>1
    <2>2. CASE requesters' # {}
        <3>1. reader' = (reader /\ pausing = {})
            BY <1>1, <2>2
        <3> QED
            BY <3>1
    <2> QED
        BY <2>1, <2>2
<1> QED
    BY <1>1, <1>2, <1>3, <1>4

(* A flush, seen from each viewer. *)
LEMMA FlushTypes ==
    ASSUME TypeOK, NEW n \in Nat, Flush(n)
    PROVE  /\ flushed' = n /\ Connected'
           /\ scrollback' \in Seq(Frame) /\ Len(scrollback') <= MaxScroll
           /\ requesters' \subseteq Viewers \X {"queue", "render"} /\ reader' \in BOOLEAN
           /\ Batch(n) = Output(flushed + 1, n) /\ Batch(n) \in Frame
           /\ conn' = Broadcast(conn, Batch(n))
           /\ scrollback' = Last(Append(scrollback, Batch(n)), MaxScroll)
<1>1. /\ flushed' = n /\ conn' = Broadcast(conn, Batch(n)) /\ PauseOrResume
      /\ scrollback' = Last(Append(scrollback, Batch(n)), MaxScroll)
    BY DEF Flush
<1>2. Batch(n) = Output(flushed + 1, n) /\ Batch(n) \in Frame
    <2>1. flushed + 1 \in Nat
        BY DEF TypeOK
    <2> QED
        BY <2>1, Frames DEF Batch
<1>3. scrollback' \in Seq(Frame) /\ Len(scrollback') <= MaxScroll
    <2>1. Append(scrollback, Batch(n)) \in Seq(Frame)
        BY <1>2, AppendProperties DEF TypeOK
    <2> DEFINE s == Append(scrollback, Batch(n))
    <2>2. s \in Seq(Frame) /\ Len(s) \in Nat
        BY <2>1, LenProperties
    <2> HIDE DEF s
    <2>3. /\ Last(s, MaxScroll) \in Seq(Frame)
          /\ Len(Last(s, MaxScroll)) = IF Len(s) > MaxScroll THEN MaxScroll ELSE Len(s)
        BY <2>2, Bounds, LastProperties
    <2>4. scrollback' = Last(s, MaxScroll)
        BY <1>1 DEF s
    <2> QED
        BY <2>2, <2>3, <2>4, Bounds
<1>4. Connected'
    <2>1. /\ Broadcast(conn, Batch(n)) \in [Viewers -> Connection]
          /\ \A w \in Viewers : Len(Broadcast(conn, Batch(n))[w].queue) <= QueueMax
        BY <1>2, BroadcastProperties DEF TypeOK
    <2> QED
        BY <1>1, <2>1 DEF Connected
<1> QED
    BY <1>1, <1>2, <1>3, <1>4, PauseTypes

-----------------------------------------------------------------------------
(* Steps of one viewer: its own connection changes, the others stay.       *)

Others(w) == \A v \in Viewers : v # w => conn'[v] = conn[v]

(* The connections after one of them was exchanged.                        *)
LEMMA Exchanged ==
    ASSUME Connected, NEW w \in Viewers, NEW d \in Connection, Len(d.queue) <= QueueMax,
           conn' = [conn EXCEPT ![w] = d]
    PROVE  conn'[w] = d /\ Others(w) /\ Connected'
<1>1. conn'[w] = d /\ \A v \in Viewers : v # w => conn'[v] = conn[v]
    BY DEF Connected
<1>2. conn' \in [Viewers -> Connection]
    BY DEF Connected
<1>3. \A v \in Viewers : Len(conn'[v].queue) <= QueueMax
    BY <1>1 DEF Connected
<1> QED
    BY <1>1, <1>2, <1>3 DEF Connected, Others

(* A viewer connects.                                                      *)
LEMMA ConnectStep ==
    ASSUME TypeOK, NEW w \in Viewers, Connect(w)
    PROVE  /\ Connected' /\ Others(w)
           /\ conn'[w].phase = "joining" /\ conn'[w].queue = conn[w].queue
           /\ conn'[w].worker = conn[w].worker /\ conn'[w].paused = conn[w].paused
           /\ conn'[w].render = conn[w].render /\ conn'[w].seen = conn[w].seen
           /\ conn'[w].ended = conn[w].ended /\ conn'[w].lossy = conn[w].lossy
<1> DEFINE d == [conn[w] EXCEPT !.phase = "joining"]
<1>1. Connected /\ conn[w] \in Connection /\ Len(conn[w].queue) <= QueueMax
    BY DEF TypeOK, Connected
<1>2. /\ d \in Connection /\ d.phase = "joining" /\ d.queue = conn[w].queue
      /\ d.worker = conn[w].worker /\ d.paused = conn[w].paused
      /\ d.render = conn[w].render /\ d.seen = conn[w].seen
      /\ d.ended = conn[w].ended /\ d.lossy = conn[w].lossy
    BY <1>1 DEF Connection
<1>3. conn' = [conn EXCEPT ![w] = d]
    BY DEF Connect
<1> HIDE DEF d
<1>4. conn'[w] = d /\ Others(w) /\ Connected'
    BY <1>1, <1>2, <1>3, Exchanged
<1> QED
    BY <1>2, <1>4

(* A viewer leaves, by itself or because its session is gone. *)
LEMMA CleanUpStep ==
    ASSUME TypeOK, NEW w \in Viewers, CleanUp(w)
    PROVE  Connected' /\ Others(w) /\ conn'[w] = Out
<1>1. Connected /\ Out \in Connection /\ Len(Out.queue) <= QueueMax
    BY OutProperties, Bounds DEF TypeOK, Connected
<1>2. conn' = [conn EXCEPT ![w] = Out]
    BY DEF CleanUp
<1> QED
    BY <1>1, <1>2, Exchanged

(* A viewer that leaves was there.                                         *)
LEMMA Leaving ==
    ASSUME NEW w \in Viewers, Leave(w) \/ JoinFails(w)
    PROVE  CleanUp(w) /\ conn[w].phase # "out"
BY DEF Leave, JoinFails

(* A viewer is opened with the end mark behind its queue.                  *)
LEMMA OpenStep ==
    ASSUME TypeOK, NEW w \in Viewers, NEW q \in Seq(Frame), Len(q) < QueueMax, Open(w, q)
    PROVE  /\ Connected' /\ Others(w) /\ subs' = subs \cup {w}
           /\ conn'[w].phase = "open" /\ conn'[w].queue = Append(q, End)
           /\ conn'[w].worker = conn[w].worker /\ conn'[w].paused = conn[w].paused
           /\ conn'[w].render = conn[w].render /\ conn'[w].seen = conn[w].seen
           /\ conn'[w].ended = conn[w].ended /\ conn'[w].lossy = conn[w].lossy
<1> DEFINE r == Append(q, End)
           d == [conn[w] EXCEPT !.queue = r, !.phase = "open"]
<1>1. Connected /\ conn[w] \in Connection
    BY DEF TypeOK, Connected
<1>2. r \in Seq(Frame) /\ Len(r) <= QueueMax
    <2>1. r \in Seq(Frame) /\ Len(r) = Len(q) + 1 /\ Len(q) \in Nat
        BY Frames, AppendProperties, LenProperties
    <2> HIDE DEF r
    <2> QED
        BY <2>1, Bounds
<1>3. conn' = [conn EXCEPT ![w] = d] /\ subs' = subs \cup {w}
    BY <1>1 DEF Open, Connected
<1> HIDE DEF r
<1>4. /\ d \in Connection /\ d.queue = r /\ d.phase = "open"
      /\ d.worker = conn[w].worker /\ d.render = conn[w].render
      /\ d.seen = conn[w].seen /\ d.ended = conn[w].ended /\ d.paused = conn[w].paused
      /\ d.lossy = conn[w].lossy
    BY <1>1, <1>2 DEF Connection
<1> HIDE DEF d
<1>5. conn'[w] = d /\ Others(w) /\ Connected'
    BY <1>1, <1>2, <1>3, <1>4, Exchanged
<1> QED
    BY <1>3, <1>4, <1>5 DEF r

(* The scrollback is replayed. *)
LEMMA ReplayStep ==
    ASSUME TypeOK, NEW w \in Viewers, Replay(w)
    PROVE  /\ Connected' /\ Others(w)
           /\ conn'[w].worker = conn[w].worker /\ conn'[w].paused = conn[w].paused
           /\ conn'[w].render = conn[w].render /\ conn'[w].seen = conn[w].seen
           /\ conn'[w].ended = conn[w].ended /\ conn'[w].lossy = conn[w].lossy
           /\ Last(scrollback, QueueMax) \in Seq(Frame)
           /\ \/ /\ subs' = subs \cup {w} /\ conn'[w].phase = "open"
                 /\ conn'[w].queue = Append(Last(scrollback, QueueMax), End)
              \/ /\ subs' = subs /\ conn'[w].phase = "marking"
                 /\ conn'[w].queue = Last(scrollback, QueueMax)
<1> DEFINE q == Last(scrollback, QueueMax)
           d == [conn[w] EXCEPT !.queue = q, !.phase = "marking"]
<1>1. Connected /\ conn[w] \in Connection /\ scrollback \in Seq(Frame)
    BY DEF TypeOK, Connected
<1>2. q \in Seq(Frame) /\ Len(q) \in Nat /\ Len(q) <= QueueMax
    <2>1. /\ q \in Seq(Frame) /\ Len(scrollback) \in Nat
          /\ Len(q) = IF Len(scrollback) > QueueMax THEN QueueMax ELSE Len(scrollback)
        BY <1>1, Bounds, LastProperties, LenProperties
    <2> HIDE DEF q
    <2> QED
        BY <2>1, Bounds
<1>3. IF Len(q) < QueueMax
      THEN Open(w, q)
      ELSE conn' = [conn EXCEPT ![w].queue = q, ![w].phase = "marking"] /\ subs' = subs
    BY DEF Replay
<1> HIDE DEF q
<1>4. CASE Len(q) < QueueMax
    <2>1. Open(w, q)
        BY <1>3, <1>4
    <2> QED
        BY <1>2, <1>4, <2>1, OpenStep DEF q
<1>5. CASE ~(Len(q) < QueueMax)
    <2>1. conn' = [conn EXCEPT ![w] = d] /\ subs' = subs
        BY <1>1, <1>3, <1>5 DEF Connected
    <2>2. /\ d \in Connection /\ d.queue = q /\ d.phase = "marking"
          /\ d.worker = conn[w].worker /\ d.render = conn[w].render
          /\ d.seen = conn[w].seen /\ d.ended = conn[w].ended /\ d.paused = conn[w].paused
          /\ d.lossy = conn[w].lossy
        BY <1>1, <1>2 DEF Connection
    <2> HIDE DEF d
    <2>3. conn'[w] = d /\ Others(w) /\ Connected'
        BY <1>1, <1>2, <2>1, <2>2, Exchanged
    <2> QED
        BY <1>2, <2>1, <2>2, <2>3 DEF q
<1> QED
    BY <1>4, <1>5

(* The end mark follows when there is room. *)
LEMMA PutEndStep ==
    ASSUME TypeOK, NEW w \in Viewers, PutEnd(w)
    PROVE  /\ Connected' /\ Others(w) /\ subs' = subs \cup {w}
           /\ conn'[w].phase = "open" /\ conn'[w].queue = Append(conn[w].queue, End)
           /\ conn'[w].worker = conn[w].worker /\ conn'[w].paused = conn[w].paused
           /\ conn'[w].render = conn[w].render /\ conn'[w].seen = conn[w].seen
           /\ conn'[w].ended = conn[w].ended /\ conn'[w].lossy = conn[w].lossy
<1>1. conn[w].queue \in Seq(Frame)
    BY DEF TypeOK, Connection
<1>2. Len(conn[w].queue) < QueueMax /\ Open(w, conn[w].queue)
    BY DEF PutEnd
<1> QED
    BY <1>1, <1>2, OpenStep

(* A frame is sent. *)
LEMMA SendStep ==
    ASSUME TypeOK, NEW w \in Viewers, SendWorker(w)
    PROVE  /\ Connected' /\ Others(w)
           /\ conn'[w] = Sent(conn[w]) /\ conn[w] \in Connection /\ conn[w].queue # <<>>
<1>1. Connected /\ conn[w] \in Connection /\ conn[w].queue # <<>> /\ Len(conn[w].queue) <= QueueMax
    BY DEF TypeOK, Connected, SendWorker
<1>2. Sent(conn[w]) \in Connection /\ Sent(conn[w]).queue = Tail(conn[w].queue)
    BY <1>1, SentProperties
<1>3. Len(Tail(conn[w].queue)) <= QueueMax
    <2>1. conn[w].queue \in Seq(Frame)
        BY <1>1 DEF Connection
    <2>2. Len(Tail(conn[w].queue)) = Len(conn[w].queue) - 1 /\ Len(conn[w].queue) \in Nat
        BY <1>1, <2>1, TailProperties
    <2> QED
        BY <1>1, <2>2, Bounds
<1>4. conn' = [conn EXCEPT ![w] = Sent(conn[w])]
    BY DEF SendWorker
<1> QED
    BY <1>1, <1>2, <1>3, <1>4, Exchanged

(* A send fails. *)
LEMMA SendFailsStep ==
    ASSUME TypeOK, NEW w \in Viewers, SendFails(w)
    PROVE  /\ Connected' /\ Others(w) /\ conn[w].queue # <<>>
           /\ conn'[w].phase = conn[w].phase /\ conn'[w].queue = Tail(conn[w].queue)
           /\ conn'[w].worker = FALSE /\ conn'[w].paused = conn[w].paused
           /\ conn'[w].render = conn[w].render /\ conn'[w].seen = conn[w].seen
           /\ conn'[w].ended = conn[w].ended /\ conn'[w].lossy = TRUE
<1> DEFINE q == Tail(conn[w].queue)
           d == [conn[w] EXCEPT !.queue = q, !.worker = FALSE, !.lossy = TRUE]
<1>1. /\ Connected /\ conn[w] \in Connection /\ conn[w].queue # <<>>
      /\ conn[w].queue \in Seq(Frame) /\ Len(conn[w].queue) <= QueueMax
    <2>1. Connected /\ conn[w] \in Connection /\ conn[w].queue # <<>> /\ Len(conn[w].queue) <= QueueMax
        BY DEF TypeOK, Connected, SendFails
    <2> QED
        BY <2>1 DEF Connection
<1>2. q \in Seq(Frame) /\ Len(q) <= QueueMax
    <2>1. q \in Seq(Frame) /\ Len(q) = Len(conn[w].queue) - 1 /\ Len(conn[w].queue) \in Nat
        BY <1>1, TailProperties
    <2> HIDE DEF q
    <2> QED
        BY <1>1, <2>1, Bounds
<1>3. conn' = [conn EXCEPT ![w] = d]
    <2>1. conn' = [conn EXCEPT ![w] = Unsent(conn[w])]
        BY DEF SendFails
    <2>2. Unsent(conn[w]) = d
        BY <1>1 DEF Unsent, Lost, Connection
    <2> QED
        BY <2>1, <2>2
<1> HIDE DEF q
<1>4. /\ d \in Connection /\ d.phase = conn[w].phase /\ d.queue = q
      /\ d.worker = FALSE /\ d.paused = conn[w].paused
      /\ d.render = conn[w].render /\ d.seen = conn[w].seen
      /\ d.ended = conn[w].ended /\ d.lossy = TRUE
    BY <1>1, <1>2 DEF Connection
<1> HIDE DEF d
<1>5. conn'[w] = d /\ Others(w) /\ Connected'
    BY <1>1, <1>2, <1>3, <1>4, Exchanged
<1> QED
    BY <1>1, <1>4, <1>5 DEF q

(* A renderer asks for a pause or takes it back. *)
LEMMA RenderStep ==
    ASSUME TypeOK, NEW w \in Viewers, RenderPause(w) \/ RenderResume(w)
    PROVE  /\ Connected' /\ Others(w)
           /\ conn'[w].phase = conn[w].phase /\ conn'[w].queue = conn[w].queue
           /\ conn'[w].worker = conn[w].worker /\ conn'[w].paused = conn[w].paused
           /\ conn'[w].seen = conn[w].seen
           /\ conn'[w].ended = conn[w].ended /\ conn'[w].lossy = conn[w].lossy
           /\ RenderPause(w) => conn'[w].render
           /\ RenderResume(w) => ~conn'[w].render
<1>1. Connected /\ conn[w] \in Connection /\ Len(conn[w].queue) <= QueueMax
    BY DEF TypeOK, Connected
<1>2. ASSUME NEW b \in BOOLEAN, conn' = [conn EXCEPT ![w].render = b]
      PROVE  /\ Connected' /\ Others(w)
             /\ conn'[w].phase = conn[w].phase /\ conn'[w].queue = conn[w].queue
             /\ conn'[w].worker = conn[w].worker /\ conn'[w].paused = conn[w].paused
             /\ conn'[w].seen = conn[w].seen
             /\ conn'[w].ended = conn[w].ended /\ conn'[w].lossy = conn[w].lossy
             /\ conn'[w].render = b
    <2> DEFINE d == [conn[w] EXCEPT !.render = b]
    <2>1. /\ d \in Connection /\ d.phase = conn[w].phase /\ d.queue = conn[w].queue
          /\ d.worker = conn[w].worker /\ d.paused = conn[w].paused
          /\ d.seen = conn[w].seen
          /\ d.ended = conn[w].ended /\ d.lossy = conn[w].lossy /\ d.render = b
        BY <1>1 DEF Connection
    <2>2. conn' = [conn EXCEPT ![w] = d]
        BY <1>2
    <2> HIDE DEF d
    <2>3. conn'[w] = d /\ Others(w) /\ Connected'
        BY <1>1, <2>1, <2>2, Exchanged
    <2> QED
        BY <2>1, <2>3
<1>3. CASE RenderPause(w)
    <2>1. conn' = [conn EXCEPT ![w].render = TRUE] /\ ~conn[w].render
        BY <1>3 DEF RenderPause
    <2>2. ~RenderResume(w)
        BY <2>1 DEF RenderResume
    <2> QED
        BY <1>2, <2>1, <2>2
<1>4. CASE RenderResume(w)
    <2>1. conn' = [conn EXCEPT ![w].render = FALSE] /\ conn[w].render
        BY <1>4 DEF RenderResume
    <2>2. ~RenderPause(w)
        BY <2>1 DEF RenderPause
    <2> QED
        BY <1>2, <2>1, <2>2
<1> QED
    BY <1>3, <1>4

-----------------------------------------------------------------------------
(* Steps of the manager.                                                   *)

(* The batch that is left at the end of file, and then the exit message.   *)
Rest == IF flushed < read THEN Broadcast(conn, Batch(read)) ELSE conn

(* The end of file, seen from each viewer. *)
LEMMA EndStep ==
    ASSUME TypeOK, EndOfFile
    PROVE  /\ Connected' /\ SessionGone /\ flushed' = read
           /\ Batch(read) = Output(flushed + 1, read) /\ Batch(read) \in Frame
           /\ Rest \in [Viewers -> Connection]
           /\ \A w \in Viewers :
                 /\ Len(Rest[w].queue) <= QueueMax
                 /\ Rest[w].phase = conn[w].phase /\ conn'[w].phase = conn[w].phase
                 /\ w \in subs => conn'[w] = OnData(Rest[w], Exit)
                 /\ w \notin subs => conn'[w] = Rest[w]
<1>1. Batch(read) = Output(flushed + 1, read) /\ Batch(read) \in Frame
    <2>1. flushed + 1 \in Nat /\ read \in Nat
        BY DEF TypeOK
    <2> QED
        BY <2>1, Frames DEF Batch
<1>2. /\ Rest \in [Viewers -> Connection]
      /\ \A w \in Viewers : Len(Rest[w].queue) <= QueueMax /\ Rest[w].phase = conn[w].phase
    <2>1. conn \in [Viewers -> Connection] /\ \A w \in Viewers : Len(conn[w].queue) <= QueueMax
        BY DEF TypeOK
    <2>2. CASE flushed < read
        <3>1. Rest = Broadcast(conn, Batch(read))
            BY <2>2 DEF Rest
        <3>2. /\ Broadcast(conn, Batch(read)) \in [Viewers -> Connection]
              /\ \A w \in Viewers :
                    /\ Len(Broadcast(conn, Batch(read))[w].queue) <= QueueMax
                    /\ Broadcast(conn, Batch(read))[w].phase = conn[w].phase
            BY <1>1, <2>1, BroadcastProperties
        <3> QED
            BY <3>1, <3>2
    <2>3. CASE ~(flushed < read)
        <3>1. Rest = conn
            BY <2>3 DEF Rest
        <3> QED
            BY <2>1, <3>1
    <2> QED
        BY <2>2, <2>3
<1>3. /\ conn' = [w \in Viewers |-> IF w \in subs THEN OnData(Rest[w], Exit) ELSE Rest[w]]
      /\ flushed' = read /\ SessionGone
    BY DEF EndOfFile, Rest
<1>4. ASSUME NEW w \in Viewers
      PROVE  /\ conn'[w].phase = conn[w].phase
             /\ w \in subs => conn'[w] = OnData(Rest[w], Exit)
             /\ w \notin subs => conn'[w] = Rest[w]
             /\ conn'[w] \in Connection /\ Len(conn'[w].queue) <= QueueMax
    <2>1. CASE w \in subs
        <3>1. conn'[w] = OnData(Rest[w], Exit)
            BY <1>3, <2>1
        <3>2. Rest[w] \in Connection /\ Len(Rest[w].queue) <= QueueMax /\ Exit \in Frame
            BY <1>2, Frames
        <3>3. /\ OnData(Rest[w], Exit) \in Connection
              /\ Len(OnData(Rest[w], Exit).queue) <= QueueMax
              /\ OnData(Rest[w], Exit).phase = Rest[w].phase
            BY <3>2, OnDataProperties
        <3> QED
            BY <1>2, <2>1, <3>1, <3>3
    <2>2. CASE w \notin subs
        <3>1. conn'[w] = Rest[w]
            BY <1>3, <2>2
        <3> QED
            BY <1>2, <2>2, <3>1
    <2> QED
        BY <2>1, <2>2
<1>5. Connected'
    <2>1. conn' \in [Viewers -> Connection]
        BY <1>3, <1>4
    <2> QED
        BY <1>4, <2>1 DEF Connected
<1> QED
    BY <1>1, <1>2, <1>3, <1>4, <1>5

-----------------------------------------------------------------------------
(* Types.                                                                  *)

(* The parts of TypeOK. *)
LEMMA Typed ==
    TypeOK <=> /\ alive \in BOOLEAN /\ reader \in BOOLEAN
               /\ requesters \subseteq Viewers \X {"queue", "render"}
               /\ read \in Nat /\ flushed \in Nat /\ flushed <= read
               /\ scrollback \in Seq(Frame) /\ Len(scrollback) <= MaxScroll
               /\ subs \subseteq Viewers
               /\ Connected /\ count \in Nat
<1>1. \A r \in Nat : flushed \in 0 .. r <=> flushed \in Nat /\ flushed <= r
    OBVIOUS
<1> QED
    BY <1>1 DEF TypeOK, Connected

(* The first state is of its type.                                         *)
LEMMA InitTypes == Init => TypeOK
<1> SUFFICES ASSUME Init PROVE TypeOK
    OBVIOUS
<1>1. Connected
    BY OutProperties, Bounds DEF Init, Connected
<1>2. <<>> \in Seq(Frame) /\ Len(<<>>) = 0
    BY EmptySeq
<1> QED
    BY <1>1, <1>2, Bounds, Typed DEF Init

(* A step of the manager keeps the types. *)
LEMMA ManagerTypes == TypeOK /\ Manager => TypeOK'
<1> SUFFICES ASSUME TypeOK, Manager PROVE TypeOK'
    OBVIOUS
<1>1. /\ alive \in BOOLEAN /\ reader \in BOOLEAN
      /\ requesters \subseteq Viewers \X {"queue", "render"}
      /\ read \in Nat /\ flushed \in Nat /\ flushed <= read
      /\ scrollback \in Seq(Frame) /\ Len(scrollback) <= MaxScroll
      /\ subs \subseteq Viewers
      /\ Connected /\ count \in Nat
    BY Typed
<1>2. ASSUME NEW n \in Nat, Flush(n), n = read', UNCHANGED <<alive, subs, count>>
      PROVE  TypeOK'
    <2>1. /\ flushed' = n /\ Connected'
          /\ scrollback' \in Seq(Frame) /\ Len(scrollback') <= MaxScroll
          /\ requesters' \subseteq Viewers \X {"queue", "render"} /\ reader' \in BOOLEAN
        BY <1>2, FlushTypes
    <2> QED
        BY <1>1, <1>2, <2>1 DEF TypeOK, Connected
<1>3. ASSUME OnReadable PROVE TypeOK'
    <2>1. read' = read + 1 /\ read' \in Nat /\ UNCHANGED <<alive, subs, count>>
        BY <1>1, <1>3 DEF OnReadable
    <2>2. CASE Flush(read')
        BY <1>2, <2>1, <2>2
    <2>3. CASE UNCHANGED <<flushed, scrollback, conn, requesters, reader>>
        BY <1>1, <2>1, <2>3 DEF TypeOK, Connected
    <2> QED
        BY <1>3, <2>2, <2>3 DEF OnReadable
<1>4. ASSUME FlushTimer PROVE TypeOK'
    <2>1. Flush(read) /\ read' = read /\ UNCHANGED <<alive, subs, count>>
        BY <1>4 DEF FlushTimer
    <2> QED
        BY <1>1, <1>2, <2>1
<1>5. SessionGone => /\ alive' \in BOOLEAN /\ reader' \in BOOLEAN /\ read' = read /\ count' = count
                     /\ requesters' = {} /\ subs' = {}
                     /\ scrollback' \in Seq(Frame) /\ Len(scrollback') <= MaxScroll
    <2>1. <<>> \in Seq(Frame) /\ Len(<<>>) = 0
        BY EmptySeq
    <2>2. SessionGone => /\ alive' = FALSE /\ reader' = FALSE /\ read' = read /\ count' = count
                         /\ requesters' = {} /\ subs' = {} /\ scrollback' = <<>>
        BY DEF SessionGone
    <2>3. 0 <= MaxScroll
        BY Bounds
    <2> QED
        BY <2>1, <2>2, <2>3
<1>6. ASSUME EndOfFile PROVE TypeOK'
    <2>1. Connected' /\ flushed' = read /\ SessionGone
        BY <1>6, EndStep
    <2> QED
        BY <1>1, <1>5, <2>1 DEF TypeOK, Connected
<1>7. ASSUME DestroySession PROVE TypeOK'
    <2>1. conn' = conn /\ flushed' = flushed /\ SessionGone
        BY <1>7 DEF DestroySession
    <2> QED
        BY <1>1, <1>5, <2>1 DEF TypeOK, Connected
<1> QED
    BY <1>3, <1>4, <1>6, <1>7 DEF Manager

(* A step of a viewer keeps the types. *)
LEMMA ViewerTypes ==
    ASSUME TypeOK, NEW w \in Viewers,
           \/ Connect(w) \/ Leave(w) \/ Handler(w) \/ SendWorker(w) \/ SendFails(w)
           \/ RenderPause(w) \/ RenderResume(w)
    PROVE  TypeOK'
<1>1. /\ alive \in BOOLEAN /\ reader \in BOOLEAN
      /\ requesters \subseteq Viewers \X {"queue", "render"}
      /\ read \in Nat /\ flushed \in Nat /\ flushed <= read
      /\ scrollback \in Seq(Frame) /\ Len(scrollback) <= MaxScroll
      /\ subs \subseteq Viewers
      /\ Connected /\ count \in Nat
    BY Typed
<1>2. ASSUME Connect(w) PROVE TypeOK'
    <2>1. Connected'
        BY <1>2, ConnectStep
    <2>2. /\ count' = count + 1
          /\ UNCHANGED <<alive, reader, requesters, read, flushed, scrollback, subs>>
        BY <1>2 DEF Connect
    <2> QED
        BY <1>1, <2>1, <2>2 DEF TypeOK, Connected
<1>3. ASSUME NEW who, Resume(who)
      PROVE  requesters' \subseteq Viewers \X {"queue", "render"} /\ reader' \in BOOLEAN
    BY <1>1, <1>3 DEF Resume
<1>4. ASSUME CleanUp(w) PROVE TypeOK'
    <2>1. Connected'
        BY <1>4, CleanUpStep
    <2>2. /\ subs' = subs \ {w} /\ Resume(OwnPauses(w))
          /\ count' = IF count > 0 THEN count - 1 ELSE 0
          /\ UNCHANGED <<alive, read, flushed, scrollback>>
        BY <1>4 DEF CleanUp
    <2>3. count' \in Nat
        BY <1>1, <2>2
    <2>4. requesters' \subseteq Viewers \X {"queue", "render"} /\ reader' \in BOOLEAN
        BY <1>3, <2>2
    <2> QED
        BY <1>1, <2>1, <2>2, <2>3, <2>4 DEF TypeOK, Connected
<1>5. ASSUME Leave(w) \/ JoinFails(w) PROVE TypeOK'
    BY <1>4, <1>5, Leaving
<1>6. ASSUME Replay(w) \/ PutEnd(w) PROVE TypeOK'
    <2>1. UNCHANGED <<alive, reader, requesters, read, flushed, scrollback, count>>
        BY <1>6 DEF Replay, PutEnd
    <2>2. Connected' /\ (subs' = subs \cup {w} \/ subs' = subs)
        BY <1>6, ReplayStep, PutEndStep
    <2>3. subs' \subseteq Viewers
        BY <1>1, <2>2
    <2> QED
        BY <1>1, <2>1, <2>2, <2>3 DEF TypeOK, Connected
<1>7. ASSUME SendWorker(w) \/ SendFails(w) PROVE TypeOK'
    <2>1. Connected'
        BY <1>7, SendStep, SendFailsStep
    <2>2. UNCHANGED <<alive, reader, requesters, read, flushed, scrollback, subs, count>>
        BY <1>7 DEF SendWorker, SendFails
    <2> QED
        BY <1>1, <2>1, <2>2 DEF TypeOK, Connected
<1>8. ASSUME RenderPause(w) \/ RenderResume(w) PROVE TypeOK'
    <2>1. Connected'
        BY <1>8, RenderStep
    <2>2. UNCHANGED <<alive, read, flushed, scrollback, subs, count>>
        BY <1>8 DEF RenderPause, RenderResume
    <2>3. requesters' \subseteq Viewers \X {"queue", "render"} /\ reader' \in BOOLEAN
        <3>1. CASE RenderPause(w)
            <4>1. IF alive THEN requesters' = requesters \cup {<<w, "render">>} /\ reader' = FALSE
                           ELSE requesters' = requesters /\ reader' = reader
                BY <3>1 DEF RenderPause
            <4>2. <<w, "render">> \in Viewers \X {"queue", "render"}
                OBVIOUS
            <4> QED
                BY <1>1, <4>1, <4>2
        <3>2. CASE RenderResume(w)
            BY <1>3, <3>2 DEF RenderResume
        <3> QED
            BY <1>8, <3>1, <3>2
    <2> QED
        BY <1>1, <2>1, <2>2, <2>3 DEF TypeOK, Connected
<1> QED
    BY <1>2, <1>5, <1>6, <1>7, <1>8 DEF Handler

(* Every step leads to a state of its type.                                *)
LEMMA NextTypes == TypeOK /\ [Next]_vars => TypeOK'
<1> SUFFICES ASSUME TypeOK, [Next]_vars PROVE TypeOK'
    OBVIOUS
<1>1. CASE Manager
    BY <1>1, ManagerTypes
<1>2. ASSUME NEW w \in Viewers,
             \/ Connect(w) \/ Leave(w) \/ Handler(w) \/ SendWorker(w) \/ SendFails(w)
             \/ RenderPause(w) \/ RenderResume(w)
      PROVE  TypeOK'
    BY <1>2, ViewerTypes
<1>3. CASE UNCHANGED vars
    BY <1>3 DEF vars, TypeOK
<1> QED
    BY <1>1, <1>2, <1>3 DEF Next

(* However many viewers come and go, every variable of the terminal keeps  *)
(* its type; in particular no send queue grows beyond WS_QUEUE_MAX, the    *)
(* scrollback keeps to its size, and nothing is broadcast before it was    *)
(* read.                                                                   *)
THEOREM TypeCorrect == Spec => []TypeOK
<1>1. Init => TypeOK
    BY InitTypes
<1>2. TypeOK /\ [Next]_vars => TypeOK'
    BY NextTypes
<1> QED
    BY <1>1, <1>2, PTL DEF Spec

-----------------------------------------------------------------------------
(* Phases of the viewers.                                                  *)

(* Who is not open has asked for no pause; who has not got the scrollback  *)
(* has got nothing.                                                        *)
PhaseOK(c) ==
    /\ c.phase # "open" => ~c.paused /\ ~c.render
    /\ c.phase \in {"out", "joining"} => c.queue = <<>> /\ c.seen = 0

(* While the session lives, the open viewers are its subscribers.          *)
Phases ==
    \A w \in Viewers : /\ PhaseOK(conn[w])
                       /\ w \in subs => conn[w].phase = "open"
                       /\ alive /\ conn[w].phase = "open" => w \in subs

(* What a flush does to the connection of a viewer. *)
LEMMA FlushStep ==
    ASSUME TypeOK, NEW n \in Nat, Flush(n), NEW w \in Viewers
    PROVE  /\ w \in subs => conn'[w] = OnData(conn[w], Batch(n))
           /\ w \notin subs /\ conn[w].phase = "marking"
                 => conn'[w] = [conn[w] EXCEPT !.lossy = TRUE]
           /\ w \notin subs /\ conn[w].phase # "marking" => conn'[w] = conn[w]
           /\ conn'[w].phase = conn[w].phase /\ conn'[w].render = conn[w].render
           /\ w \notin subs => conn'[w].paused = conn[w].paused
<1>1. conn' = Broadcast(conn, Batch(n)) /\ Batch(n) \in Frame
    BY FlushTypes
<1>2. conn \in [Viewers -> Connection] /\ \A v \in Viewers : Len(conn[v].queue) <= QueueMax
    BY DEF TypeOK
<1>3. /\ w \in subs => Broadcast(conn, Batch(n))[w] = OnData(conn[w], Batch(n))
      /\ w \notin subs /\ conn[w].phase = "marking"
            => Broadcast(conn, Batch(n))[w] = [conn[w] EXCEPT !.lossy = TRUE]
      /\ w \notin subs /\ conn[w].phase # "marking" => Broadcast(conn, Batch(n))[w] = conn[w]
      /\ Broadcast(conn, Batch(n))[w].phase = conn[w].phase
      /\ Broadcast(conn, Batch(n))[w].render = conn[w].render
      /\ w \notin subs => Broadcast(conn, Batch(n))[w].paused = conn[w].paused
    BY <1>1, <1>2, BroadcastProperties
<1> QED
    BY <1>1, <1>3

(* What the end of file leaves of a viewer that is not open. *)
LEMMA RestStep ==
    ASSUME TypeOK, EndOfFile, NEW w \in Viewers
    PROVE  /\ flushed < read /\ w \in subs => Rest[w] = OnData(conn[w], Batch(read))
           /\ flushed < read /\ w \notin subs /\ conn[w].phase = "marking"
                 => Rest[w] = [conn[w] EXCEPT !.lossy = TRUE]
           /\ flushed < read /\ w \notin subs /\ conn[w].phase # "marking" => Rest[w] = conn[w]
           /\ ~(flushed < read) => Rest[w] = conn[w]
<1>1. Batch(read) \in Frame
    BY EndStep
<1>2. conn \in [Viewers -> Connection] /\ \A v \in Viewers : Len(conn[v].queue) <= QueueMax
    BY DEF TypeOK
<1>3. /\ w \in subs => Broadcast(conn, Batch(read))[w] = OnData(conn[w], Batch(read))
      /\ w \notin subs /\ conn[w].phase = "marking"
            => Broadcast(conn, Batch(read))[w] = [conn[w] EXCEPT !.lossy = TRUE]
      /\ w \notin subs /\ conn[w].phase # "marking" => Broadcast(conn, Batch(read))[w] = conn[w]
    BY <1>1, <1>2, BroadcastProperties
<1> QED
    BY <1>3 DEF Rest

(* To begin with nobody is connected.                                      *)
LEMMA InitPhases == Init => Phases
BY OutProperties DEF Init, Phases, PhaseOK

(* A connection that lost output is in the same phase. *)
LEMMA LossyPhase ==
    ASSUME NEW c \in Connection, c.phase = "marking", PhaseOK(c)
    PROVE  PhaseOK([c EXCEPT !.lossy = TRUE]) /\ [c EXCEPT !.lossy = TRUE].phase = c.phase
BY DEF PhaseOK, Connection

(* The manager's steps leave every connection in a phase there is.         *)
LEMMA ManagerPhases ==
    ASSUME TypeOK, Phases, Manager
    PROVE  Phases'
<1>1. ASSUME NEW n \in Nat, Flush(n), UNCHANGED <<alive, subs>>
      PROVE  Phases'
    <2> SUFFICES ASSUME NEW w \in Viewers
                 PROVE  /\ PhaseOK(conn'[w])
                        /\ w \in subs => conn'[w].phase = "open"
                        /\ alive /\ conn'[w].phase = "open" => w \in subs
        BY <1>1 DEF Phases
    <2>1. /\ PhaseOK(conn[w]) /\ (w \in subs => conn[w].phase = "open")
          /\ (alive /\ conn[w].phase = "open" => w \in subs)
        BY DEF Phases
    <2>2. conn'[w].phase = conn[w].phase
        BY <1>1, FlushStep
    <2>3. CASE w \in subs
        BY <2>1, <2>2, <2>3 DEF PhaseOK
    <2>4. CASE w \notin subs /\ conn[w].phase = "marking"
        <3>1. conn'[w] = [conn[w] EXCEPT !.lossy = TRUE]
            BY <1>1, <2>4, FlushStep
        <3>2. conn[w] \in Connection
            BY DEF TypeOK
        <3>3. PhaseOK([conn[w] EXCEPT !.lossy = TRUE])
            BY <2>1, <2>4, <3>2, LossyPhase
        <3> QED
            BY <2>1, <2>2, <3>1, <3>3
    <2>5. CASE w \notin subs /\ conn[w].phase # "marking"
        <3>1. conn'[w] = conn[w]
            BY <1>1, <2>5, FlushStep
        <3> QED
            BY <2>1, <3>1
    <2> QED
        BY <2>3, <2>4, <2>5
<1>2. CASE OnReadable
    <2>1. read' \in Nat /\ UNCHANGED <<alive, subs>>
        BY <1>2 DEF OnReadable, TypeOK
    <2>2. CASE Flush(read')
        BY <1>1, <2>1, <2>2
    <2>3. CASE UNCHANGED conn
        BY <2>1, <2>3 DEF Phases
    <2> QED
        BY <1>2, <2>2, <2>3 DEF OnReadable
<1>3. CASE FlushTimer
    <2>1. read \in Nat /\ Flush(read) /\ UNCHANGED <<alive, subs>>
        BY <1>3 DEF FlushTimer, TypeOK
    <2> QED
        BY <1>1, <2>1
<1>4. CASE EndOfFile
    <2>1. alive' = FALSE /\ subs' = {}
        BY <1>4 DEF EndOfFile, SessionGone
    <2> SUFFICES ASSUME NEW w \in Viewers PROVE PhaseOK(conn'[w])
        BY <2>1 DEF Phases
    <2>2. PhaseOK(conn[w]) /\ (w \in subs => conn[w].phase = "open") /\ conn[w] \in Connection
        BY DEF Phases, TypeOK
    <2>3. /\ conn'[w].phase = conn[w].phase
          /\ w \notin subs => conn'[w] = Rest[w]
        BY <1>4, EndStep
    <2>4. CASE w \in subs
        BY <2>2, <2>3, <2>4 DEF PhaseOK
    <2>5. CASE w \notin subs
        <3>1. CASE Rest[w] = conn[w]
            BY <2>2, <2>3, <2>5, <3>1
        <3>2. CASE Rest[w] = [conn[w] EXCEPT !.lossy = TRUE] /\ conn[w].phase = "marking"
            BY <2>2, <2>3, <2>5, <3>2, LossyPhase
        <3> QED
            BY <1>4, <2>5, <3>1, <3>2, RestStep
    <2> QED
        BY <2>4, <2>5
<1>5. CASE DestroySession
    <2>1. alive' = FALSE /\ subs' = {} /\ conn' = conn
        BY <1>5 DEF DestroySession, SessionGone
    <2> QED
        BY <2>1 DEF Phases
<1> QED
    BY <1>2, <1>3, <1>4, <1>5 DEF Manager

(* So do a viewer's connection, its handler and its worker.                *)
LEMMA ViewerPhases ==
    ASSUME TypeOK, Phases, NEW w \in Viewers,
           \/ Connect(w) \/ Leave(w) \/ Handler(w) \/ SendWorker(w) \/ SendFails(w)
           \/ RenderPause(w) \/ RenderResume(w)
    PROVE  Phases'
<1>0. /\ PhaseOK(conn[w]) /\ (w \in subs => conn[w].phase = "open")
      /\ (alive /\ conn[w].phase = "open" => w \in subs) /\ conn[w] \in Connection
    BY DEF Phases, TypeOK
(* The other viewers stay, and their subscriptions do. *)
<1>1. ASSUME Others(w), \A v \in Viewers : v # w => (v \in subs' <=> v \in subs), alive' = alive,
             PhaseOK(conn'[w]), w \in subs' => conn'[w].phase = "open",
             alive /\ conn'[w].phase = "open" => w \in subs'
      PROVE  Phases'
    <2>1. ASSUME NEW v \in Viewers, v # w
          PROVE  /\ PhaseOK(conn'[v]) /\ (v \in subs' => conn'[v].phase = "open")
                 /\ (alive' /\ conn'[v].phase = "open" => v \in subs')
        <3>1. conn'[v] = conn[v] /\ (v \in subs' <=> v \in subs)
            BY <1>1, <2>1 DEF Others
        <3>2. /\ PhaseOK(conn[v]) /\ (v \in subs => conn[v].phase = "open")
              /\ (alive /\ conn[v].phase = "open" => v \in subs)
            BY DEF Phases
        <3> QED
            BY <1>1, <3>1, <3>2
    <2> QED
        BY <1>1, <2>1 DEF Phases
<1>2. ASSUME Connect(w) PROVE Phases'
    <2>1. conn[w].phase = "out" /\ alive' = alive /\ subs' = subs
        BY <1>2 DEF Connect
    <2>2. /\ Others(w) /\ conn'[w].phase = "joining" /\ conn'[w].queue = conn[w].queue
          /\ conn'[w].paused = conn[w].paused /\ conn'[w].render = conn[w].render
          /\ conn'[w].seen = conn[w].seen
        BY <1>2, ConnectStep
    <2>3. PhaseOK(conn'[w])
        BY <1>0, <2>1, <2>2 DEF PhaseOK
    <2> QED
        BY <1>0, <1>1, <2>1, <2>2, <2>3
<1>3. ASSUME Leave(w) \/ JoinFails(w) PROVE Phases'
    <2>1. CleanUp(w)
        BY <1>3, Leaving
    <2>2. Others(w) /\ conn'[w] = Out
        BY <2>1, CleanUpStep
    <2>3. alive' = alive /\ subs' = subs \ {w}
        BY <2>1 DEF CleanUp
    <2>4. PhaseOK(conn'[w]) /\ conn'[w].phase # "open"
        BY <2>2, OutProperties DEF PhaseOK
    <2> QED
        BY <1>1, <2>2, <2>3, <2>4
<1>4. ASSUME Replay(w) PROVE Phases'
    <2>1. alive' = alive /\ conn[w].phase = "joining"
        BY <1>4 DEF Replay
    <2>2. /\ Others(w)
          /\ conn'[w].paused = conn[w].paused /\ conn'[w].render = conn[w].render
          /\ \/ subs' = subs \cup {w} /\ conn'[w].phase = "open"
             \/ subs' = subs /\ conn'[w].phase = "marking"
        BY <1>4, ReplayStep
    <2>3. PhaseOK(conn'[w])
        BY <1>0, <2>1, <2>2 DEF PhaseOK
    <2> QED
        BY <1>0, <1>1, <2>1, <2>2, <2>3
<1>5. ASSUME PutEnd(w) PROVE Phases'
    <2>1. alive' = alive
        BY <1>5 DEF PutEnd
    <2>2. Others(w) /\ subs' = subs \cup {w} /\ conn'[w].phase = "open"
        BY <1>5, PutEndStep
    <2>3. PhaseOK(conn'[w])
        BY <2>2 DEF PhaseOK
    <2> QED
        BY <1>1, <2>1, <2>2, <2>3
<1>6. ASSUME Others(w), alive' = alive, subs' = subs,
             conn'[w].phase = conn[w].phase, conn'[w].paused = conn[w].paused,
             conn'[w].render = conn[w].render \/ conn[w].phase = "open",
             conn[w].queue # <<>> \/ conn[w].phase = "open"
      PROVE  Phases'
    <2>1. PhaseOK(conn'[w])
        BY <1>0, <1>6 DEF PhaseOK
    <2> QED
        BY <1>0, <1>1, <1>6, <2>1
<1>7. ASSUME SendWorker(w) PROVE Phases'
    <2>1. alive' = alive /\ subs' = subs
        BY <1>7 DEF SendWorker
    <2>2. Others(w) /\ conn'[w] = Sent(conn[w]) /\ conn[w].queue # <<>>
        BY <1>7, SendStep
    <2>3. /\ Sent(conn[w]).phase = conn[w].phase /\ Sent(conn[w]).paused = conn[w].paused
          /\ Sent(conn[w]).render = conn[w].render
        BY <1>0, <2>2, SentProperties
    <2> QED
        BY <1>6, <2>1, <2>2, <2>3
<1>8. ASSUME SendFails(w) PROVE Phases'
    <2>1. alive' = alive /\ subs' = subs
        BY <1>8 DEF SendFails
    <2>2. /\ Others(w) /\ conn[w].queue # <<>>
          /\ conn'[w].phase = conn[w].phase /\ conn'[w].paused = conn[w].paused
          /\ conn'[w].render = conn[w].render
        BY <1>8, SendFailsStep
    <2> QED
        BY <1>6, <2>1, <2>2
<1>9. ASSUME RenderPause(w) \/ RenderResume(w) PROVE Phases'
    <2>1. alive' = alive /\ subs' = subs /\ conn[w].phase = "open"
        BY <1>9 DEF RenderPause, RenderResume
    <2>2. /\ Others(w)
          /\ conn'[w].phase = conn[w].phase /\ conn'[w].paused = conn[w].paused
        BY <1>9, RenderStep
    <2> QED
        BY <1>6, <2>1, <2>2
<1> QED
    BY <1>2, <1>3, <1>4, <1>5, <1>7, <1>8, <1>9 DEF Handler

(* Every step leaves the connections in phases there are.                  *)
LEMMA NextPhases == TypeOK /\ Phases /\ [Next]_vars => Phases'
<1> SUFFICES ASSUME TypeOK, Phases, [Next]_vars PROVE Phases'
    OBVIOUS
<1>1. CASE Manager
    BY <1>1, ManagerPhases
<1>2. ASSUME NEW w \in Viewers,
             \/ Connect(w) \/ Leave(w) \/ Handler(w) \/ SendWorker(w) \/ SendFails(w)
             \/ RenderPause(w) \/ RenderResume(w)
      PROVE  Phases'
    BY <1>2, ViewerPhases
<1>3. CASE UNCHANGED vars
    BY <1>3 DEF vars, Phases
<1> QED
    BY <1>1, <1>2, <1>3 DEF Next

-----------------------------------------------------------------------------
(* Pauses.                                                                 *)

Asked(w) == /\ <<w, "queue">> \in requesters <=> conn[w].paused
            /\ <<w, "render">> \in requesters <=> conn[w].render

(* While the session lives, the descriptor is read exactly while nobody    *)
(* asks for a pause, and the connections know what they asked for.         *)
Owned == alive => (reader <=> requesters = {}) /\ \A w \in Viewers : Asked(w)

(* The requesters, all at once and one by one.                             *)
LEMMA AskedAll ==
    ASSUME requesters \subseteq Viewers \X {"queue", "render"}, \A w \in Viewers : Asked(w)
    PROVE  requesters = {<<w, "queue">> : w \in {v \in Viewers : conn[v].paused}}
                   \cup {<<w, "render">> : w \in {v \in Viewers : conn[v].render}}
<1> DEFINE q == {<<w, "queue">> : w \in {v \in Viewers : conn[v].paused}}
           r == {<<w, "render">> : w \in {v \in Viewers : conn[v].render}}
<1>1. ASSUME NEW x \in requesters PROVE x \in q \cup r
    <2>1. PICK w \in Viewers, k \in {"queue", "render"} : x = <<w, k>>
        OBVIOUS
    <2>2. CASE k = "queue"
        <3>1. conn[w].paused
            BY <2>1, <2>2 DEF Asked
        <3> QED
            BY <2>1, <2>2, <3>1
    <2>3. CASE k = "render"
        <3>1. conn[w].render
            BY <2>1, <2>3 DEF Asked
        <3> QED
            BY <2>1, <2>3, <3>1
    <2> QED
        BY <2>2, <2>3
<1>2. q \cup r \subseteq requesters
    BY DEF Asked
<1> QED
    BY <1>1, <1>2

(* What the callbacks of a broadcast do to the reader and the requesters.  *)
LEMMA BroadcastPauses ==
    ASSUME TypeOK, Owned, alive, alive' = alive, PauseOrResume,
           \A w \in Viewers : conn'[w].render = conn[w].render
    PROVE  Owned'
<1> DEFINE pausing  == {w \in Viewers : ~conn[w].paused /\ conn'[w].paused}
           resuming == {w \in Viewers : conn[w].paused /\ ~conn'[w].paused}
           was      == (requesters \cup {<<w, "queue">> : w \in pausing})
                           \ {<<w, "queue">> : w \in resuming}
<1>1. /\ requesters' = was
      /\ reader' = IF requesters' = {} THEN reader \/ resuming # {} ELSE reader /\ pausing = {}
    BY Zenon DEF PauseOrResume
<1>2. (reader <=> requesters = {}) /\ \A w \in Viewers : Asked(w)
    BY DEF Owned
<1>3. requesters \subseteq Viewers \X {"queue", "render"} /\ reader \in BOOLEAN
    BY DEF TypeOK
<1>4. ASSUME NEW w \in Viewers PROVE Asked(w)'
    <2>1. <<w, "queue">> \in was <=> conn'[w].paused
        <3>1. /\ <<w, "queue">> \in {<<v, "queue">> : v \in pausing} <=> w \in pausing
              /\ <<w, "queue">> \in {<<v, "queue">> : v \in resuming} <=> w \in resuming
            OBVIOUS
        <3>2. <<w, "queue">> \in requesters <=> conn[w].paused
            BY <1>2 DEF Asked
        <3> QED
            BY <3>1, <3>2
    <2>2. <<w, "render">> \in was <=> conn[w].render
        <3>1. <<w, "render">> \in was <=> <<w, "render">> \in requesters
            <4> HIDE DEF pausing, resuming
            <4> QED
                OBVIOUS
        <3>2. <<w, "render">> \in requesters <=> conn[w].render
            BY <1>2 DEF Asked
        <3> HIDE DEF was
        <3> QED
            BY <3>1, <3>2
    <2> HIDE DEF was
    <2> QED
        BY <1>1, <2>1, <2>2 DEF Asked
<1>5. reader' <=> requesters' = {}
    <2>1. CASE requesters' = {}
        <3>1. reader' = (reader \/ resuming # {})
            BY <1>1, <2>1
        <3>2. CASE requesters = {}
            BY <1>2, <2>1, <3>1, <3>2
        <3>3. CASE requesters # {}
            <4>1. PICK x : x \in requesters
                BY <3>3
            <4>2. x \notin was
                BY <1>1, <2>1
            <4>3. x \in {<<w, "queue">> : w \in resuming}
                <5> HIDE DEF pausing, resuming
                <5> QED
                    BY <4>1, <4>2
            <4>4. resuming # {}
                <5> HIDE DEF resuming
                <5> QED
                    BY <4>3
            <4> HIDE DEF resuming
            <4> QED
                BY <2>1, <3>1, <4>4
        <3> QED
            BY <3>2, <3>3
    <2>2. CASE requesters' # {}
        <3>1. reader' = (reader /\ pausing = {})
            BY <1>1, <2>2
        <3>2. ~(reader /\ pausing = {})
            <4> SUFFICES ASSUME reader, pausing = {} PROVE FALSE
                OBVIOUS
            <4>1. requesters = {}
                BY <1>2
            <4>2. was = {}
                <5> HIDE DEF pausing, resuming
                <5> QED
                    BY <4>1
            <4> QED
                BY <1>1, <2>2, <4>2
        <3> HIDE DEF pausing
        <3> QED
            BY <2>2, <3>1, <3>2
    <2> QED
        BY <2>1, <2>2
<1> QED
    BY <1>4, <1>5 DEF Owned

(* To begin with nobody has asked for a pause.                             *)
LEMMA InitOwned == Init => Owned
BY OutProperties DEF Init, Owned, Asked

(* The manager's steps leave every pause with a connection that asked for  *)
(* it.                                                                     *)
LEMMA ManagerOwned ==
    ASSUME TypeOK, Owned, Manager
    PROVE  Owned'
<1>1. ASSUME NEW n \in Nat, Flush(n), alive, alive' = alive
      PROVE  Owned'
    <2>1. PauseOrResume
        BY <1>1 DEF Flush
    <2>2. \A w \in Viewers : conn'[w].render = conn[w].render
        BY <1>1, FlushStep
    <2> QED
        BY <1>1, <2>1, <2>2, BroadcastPauses
<1>2. CASE OnReadable
    <2>1. read' \in Nat /\ alive /\ alive' = alive
        BY <1>2 DEF OnReadable, TypeOK
    <2>2. CASE Flush(read')
        BY <1>1, <2>1, <2>2
    <2>3. CASE UNCHANGED <<conn, requesters, reader>>
        BY <2>1, <2>3 DEF Owned, Asked
    <2> QED
        BY <1>2, <2>2, <2>3 DEF OnReadable
<1>3. CASE FlushTimer
    <2>1. read \in Nat /\ Flush(read) /\ alive /\ alive' = alive
        BY <1>3 DEF FlushTimer, TypeOK
    <2> QED
        BY <1>1, <2>1
<1>4. CASE EndOfFile \/ DestroySession
    BY <1>4 DEF EndOfFile, DestroySession, SessionGone, Owned
<1> QED
    BY <1>2, <1>3, <1>4 DEF Manager

(* So do a viewer's steps: one that leaves gives its pause up.             *)
LEMMA ViewerOwned ==
    ASSUME TypeOK, Owned, NEW w \in Viewers,
           \/ Connect(w) \/ Leave(w) \/ Handler(w) \/ SendWorker(w) \/ SendFails(w)
           \/ RenderPause(w) \/ RenderResume(w)
    PROVE  Owned'
<1>0. alive' = alive
    BY DEF Connect, Leave, Handler, Replay, PutEnd, JoinFails, CleanUp, SendWorker, SendFails,
           RenderPause, RenderResume
<1> SUFFICES ASSUME alive PROVE Owned'
    BY <1>0 DEF Owned
<1>1. /\ reader <=> requesters = {}
      /\ \A v \in Viewers : Asked(v)
      /\ reader \in BOOLEAN /\ requesters \subseteq Viewers \X {"queue", "render"}
    BY DEF Owned, TypeOK
<1>2. \A v \in Viewers : /\ <<v, "queue">> \in requesters <=> conn[v].paused
                         /\ <<v, "render">> \in requesters <=> conn[v].render
    BY <1>1 DEF Asked
(* Nothing is asked for and nothing is taken back. *)
<1>3. ASSUME Others(w), UNCHANGED <<reader, requesters>>,
             conn'[w].paused = conn[w].paused, conn'[w].render = conn[w].render
      PROVE  Owned'
    <2>1. \A v \in Viewers : conn'[v].paused = conn[v].paused /\ conn'[v].render = conn[v].render
        BY <1>3 DEF Others
    <2>2. \A v \in Viewers : Asked(v)'
        BY <1>2, <1>3, <2>1 DEF Asked
    <2> QED
        BY <1>1, <1>3, <2>2 DEF Owned
(* Some pauses of this viewer are taken back. *)
<1>4. ASSUME Others(w), NEW who \in SUBSET {<<w, "queue">>, <<w, "render">>}, Resume(who),
             <<w, "queue">> \in requesters \ who <=> conn'[w].paused,
             <<w, "render">> \in requesters \ who <=> conn'[w].render
      PROVE  Owned'
    <2>1. requesters' = requesters \ who /\ reader' = (alive /\ (reader \/ requesters' = {}))
        BY <1>4 DEF Resume
    <2>2. reader' <=> requesters' = {}
        BY <1>1, <2>1
    <2>3. ASSUME NEW v \in Viewers PROVE Asked(v)'
        <3>1. CASE v = w
            BY <1>4, <2>1, <3>1 DEF Asked
        <3>2. CASE v # w
            <4>1. conn'[v] = conn[v]
                BY <1>4, <3>2 DEF Others
            <4>2. /\ <<v, "queue">> \in requesters' <=> <<v, "queue">> \in requesters
                  /\ <<v, "render">> \in requesters' <=> <<v, "render">> \in requesters
                BY <2>1, <3>2
            <4> QED
                BY <1>2, <4>1, <4>2 DEF Asked
        <3> QED
            BY <3>1, <3>2
    <2> QED
        BY <2>2, <2>3 DEF Owned
<1>5. ASSUME Connect(w) PROVE Owned'
    <2>1. UNCHANGED <<reader, requesters>>
        BY <1>5 DEF Connect
    <2>2. Others(w) /\ conn'[w].paused = conn[w].paused /\ conn'[w].render = conn[w].render
        BY <1>5, ConnectStep
    <2> QED
        BY <1>3, <2>1, <2>2
<1>6. ASSUME Leave(w) \/ JoinFails(w) PROVE Owned'
    <2>1. CleanUp(w)
        BY <1>6, Leaving
    <2>2. Others(w) /\ conn'[w] = Out
        BY <2>1, CleanUpStep
    <2>3. Resume(OwnPauses(w))
        BY <2>1 DEF CleanUp
    <2>4. OwnPauses(w) \in SUBSET {<<w, "queue">>, <<w, "render">>}
        BY DEF OwnPauses
    <2>5. ~conn'[w].paused /\ ~conn'[w].render
        BY <2>2, OutProperties
    <2>6. <<w, "queue">> \notin requesters \ OwnPauses(w)
        BY <1>2 DEF OwnPauses
    <2>7. <<w, "render">> \notin requesters \ OwnPauses(w)
        BY DEF OwnPauses
    <2> QED
        BY <1>4, <2>2, <2>3, <2>4, <2>5, <2>6, <2>7
<1>7. ASSUME Replay(w) \/ PutEnd(w) PROVE Owned'
    <2>1. UNCHANGED <<reader, requesters>>
        BY <1>7 DEF Replay, PutEnd
    <2>2. Others(w) /\ conn'[w].paused = conn[w].paused /\ conn'[w].render = conn[w].render
        <3>1. CASE Replay(w)
            BY <1>1, <3>1, ReplayStep
        <3>2. CASE PutEnd(w)
            BY <1>1, <3>2, PutEndStep
        <3> QED
            BY <1>7, <3>1, <3>2
    <2> QED
        BY <1>3, <2>1, <2>2
<1>8. ASSUME SendWorker(w) \/ SendFails(w) PROVE Owned'
    <2>1. UNCHANGED <<reader, requesters>>
        BY <1>8 DEF SendWorker, SendFails
    <2>2. Others(w) /\ conn'[w].paused = conn[w].paused /\ conn'[w].render = conn[w].render
        <3>1. CASE SendWorker(w)
            <4>1. /\ Others(w) /\ conn'[w] = Sent(conn[w])
                  /\ conn[w] \in Connection /\ conn[w].queue # <<>>
                BY <3>1, SendStep
            <4>2. /\ Sent(conn[w]).paused = conn[w].paused
                  /\ Sent(conn[w]).render = conn[w].render
                BY <4>1, SentProperties
            <4> QED
                BY <4>1, <4>2
        <3>2. CASE SendFails(w)
            BY <3>2, SendFailsStep
        <3> QED
            BY <1>8, <3>1, <3>2
    <2> QED
        BY <1>3, <2>1, <2>2
<1>9. ASSUME RenderPause(w) PROVE Owned'
    <2>1. requesters' = requesters \cup {<<w, "render">>} /\ reader' = FALSE
        BY <1>9 DEF RenderPause
    <2>2. /\ Others(w) /\ conn'[w].paused = conn[w].paused /\ conn'[w].render
        BY <1>9, RenderStep
    <2>3. ASSUME NEW v \in Viewers PROVE Asked(v)'
        <3>1. CASE v = w
            <4>1. <<w, "queue">> \in requesters' <=> <<w, "queue">> \in requesters
                BY <2>1
            <4> QED
                BY <1>2, <2>1, <2>2, <3>1, <4>1 DEF Asked
        <3>2. CASE v # w
            <4>1. conn'[v] = conn[v]
                BY <2>2, <3>2 DEF Others
            <4>2. /\ <<v, "queue">> \in requesters' <=> <<v, "queue">> \in requesters
                  /\ <<v, "render">> \in requesters' <=> <<v, "render">> \in requesters
                BY <2>1, <3>2
            <4> QED
                BY <1>2, <4>1, <4>2 DEF Asked
        <3> QED
            BY <3>1, <3>2
    <2>4. reader' <=> requesters' = {}
        BY <2>1
    <2> QED
        BY <2>3, <2>4 DEF Owned
<1>10. ASSUME RenderResume(w) PROVE Owned'
    <2>1. Resume({<<w, "render">>})
        BY <1>10 DEF RenderResume
    <2>2. Others(w) /\ conn'[w].paused = conn[w].paused /\ ~conn'[w].render
        BY <1>10, RenderStep
    <2>3. <<w, "queue">> \in requesters \ {<<w, "render">>} <=> conn[w].paused
        BY <1>2
    <2>4. <<w, "render">> \notin requesters \ {<<w, "render">>}
        OBVIOUS
    <2>5. {<<w, "render">>} \in SUBSET {<<w, "queue">>, <<w, "render">>}
        OBVIOUS
    <2> QED
        BY <1>4, <2>1, <2>2, <2>3, <2>4, <2>5
<1> QED
    BY <1>5, <1>6, <1>7, <1>8, <1>9, <1>10 DEF Handler

(* Every step leaves every pause with an owner.                            *)
LEMMA NextOwned == TypeOK /\ Owned /\ [Next]_vars => Owned'
<1> SUFFICES ASSUME TypeOK, Owned, [Next]_vars PROVE Owned'
    OBVIOUS
<1>1. CASE Manager
    BY <1>1, ManagerOwned
<1>2. ASSUME NEW w \in Viewers,
             \/ Connect(w) \/ Leave(w) \/ Handler(w) \/ SendWorker(w) \/ SendFails(w)
             \/ RenderPause(w) \/ RenderResume(w)
      PROVE  Owned'
    BY <1>2, ViewerOwned
<1>3. CASE UNCHANGED vars
    BY <1>3 DEF vars, Owned, Asked
<1> QED
    BY <1>1, <1>2, <1>3 DEF Next

-----------------------------------------------------------------------------
(* The count of connections.                                               *)

Connections == {w \in Viewers : conn[w].phase # "out"}

Counted == /\ IsFiniteSet(Connections) /\ count = Cardinality(Connections)
           /\ count <= MaxPerSession

(* To begin with nobody is connected and nobody is counted.                *)
LEMMA InitCounted == Init => Counted
<1> SUFFICES ASSUME Init PROVE Counted
    OBVIOUS
<1>1. Connections = {}
    BY OutProperties DEF Init, Connections
<1>2. IsFiniteSet({}) /\ Cardinality({}) = 0
    BY FS_EmptySet
<1>3. 0 <= MaxPerSession
    BY Bounds
<1> QED
    BY <1>1, <1>2, <1>3 DEF Init, Counted

(* A step in which no viewer comes or goes. *)
LEMMA SameConnections ==
    ASSUME Counted, count' = count, \A w \in Viewers : conn'[w].phase = "out" <=> conn[w].phase = "out"
    PROVE  Counted'
<1>1. Connections' = Connections
    BY DEF Connections
<1> QED
    BY <1>1 DEF Counted

(* The manager's steps change neither the count nor the connections.       *)
LEMMA ManagerCounted ==
    ASSUME TypeOK, Counted, Manager
    PROVE  Counted'
<1>1. count' = count
    BY DEF Manager, OnReadable, FlushTimer, EndOfFile, DestroySession, SessionGone
<1>2. ASSUME NEW w \in Viewers PROVE conn'[w].phase = conn[w].phase
    <2>1. CASE OnReadable
        <3>1. read' \in Nat
            BY <2>1 DEF OnReadable, TypeOK
        <3>2. Flush(read') \/ conn' = conn
            BY <2>1 DEF OnReadable
        <3> QED
            BY <3>1, <3>2, FlushStep
    <2>2. CASE FlushTimer
        <3>1. read \in Nat /\ Flush(read)
            BY <2>2 DEF FlushTimer, TypeOK
        <3> QED
            BY <3>1, FlushStep
    <2>3. CASE EndOfFile
        BY <2>3, EndStep
    <2>4. CASE DestroySession
        BY <2>4 DEF DestroySession
    <2> QED
        BY <2>1, <2>2, <2>3, <2>4 DEF Manager
<1> QED
    BY <1>1, <1>2, SameConnections

(* A viewer is counted when it connects and taken off when it goes.        *)
LEMMA ViewerCounted ==
    ASSUME TypeOK, Counted, NEW w \in Viewers,
           \/ Connect(w) \/ Leave(w) \/ Handler(w) \/ SendWorker(w) \/ SendFails(w)
           \/ RenderPause(w) \/ RenderResume(w)
    PROVE  Counted'
<1>0. /\ IsFiniteSet(Connections) /\ count = Cardinality(Connections) /\ count \in Nat
      /\ count <= MaxPerSession /\ MaxPerSession \in Nat
    BY Bounds DEF Counted, TypeOK
<1>1. ASSUME Connect(w) PROVE Counted'
    <2>1. conn[w].phase = "out" /\ count < MaxPerSession /\ count' = count + 1
        BY <1>1 DEF Connect
    <2>2. Others(w) /\ conn'[w].phase = "joining"
        BY <1>1, ConnectStep
    <2>3. Connections' = Connections \cup {w} /\ w \notin Connections
        BY <2>1, <2>2 DEF Connections, Others
    <2>4. /\ IsFiniteSet(Connections \cup {w})
          /\ Cardinality(Connections \cup {w}) = Cardinality(Connections) + 1
        BY <1>0, <2>3, FS_AddElement
    <2> QED
        BY <1>0, <2>1, <2>3, <2>4 DEF Counted
<1>2. ASSUME Leave(w) \/ JoinFails(w) PROVE Counted'
    <2>1. CleanUp(w) /\ conn[w].phase # "out"
        BY <1>2, Leaving
    <2>2. Others(w) /\ conn'[w].phase = "out"
        BY <2>1, CleanUpStep, OutProperties
    <2>3. Connections' = Connections \ {w} /\ w \in Connections
        BY <2>1, <2>2 DEF Connections, Others
    <2>4. /\ IsFiniteSet(Connections \ {w})
          /\ Cardinality(Connections \ {w}) = Cardinality(Connections) - 1
        BY <1>0, <2>3, FS_RemoveElement
    <2>5. Cardinality(Connections \ {w}) \in Nat
        BY <2>4, FS_CardinalityType
    <2>6. count' = IF count > 0 THEN count - 1 ELSE 0
        BY <2>1 DEF CleanUp
    <2>7. count' = count - 1
        BY <1>0, <2>4, <2>5, <2>6
    <2> QED
        BY <1>0, <2>3, <2>4, <2>7 DEF Counted
<1>3. ASSUME Others(w), count' = count, conn[w].phase # "out", conn'[w].phase # "out"
      PROVE  Counted'
    BY <1>3, SameConnections DEF Others
<1>4. ASSUME Others(w), count' = count, conn'[w].phase = conn[w].phase
      PROVE  Counted'
    BY <1>4, SameConnections DEF Others
<1>5. ASSUME Replay(w) \/ PutEnd(w) PROVE Counted'
    <2>1. count' = count /\ conn[w].phase # "out"
        BY <1>5 DEF Replay, PutEnd
    <2>2. Others(w) /\ conn'[w].phase # "out"
        <3>1. CASE Replay(w)
            BY <3>1, ReplayStep
        <3>2. CASE PutEnd(w)
            BY <3>2, PutEndStep
        <3> QED
            BY <1>5, <3>1, <3>2
    <2> QED
        BY <1>3, <2>1, <2>2
<1>6. ASSUME SendWorker(w) \/ SendFails(w) PROVE Counted'
    <2>1. count' = count
        BY <1>6 DEF SendWorker, SendFails
    <2>2. Others(w) /\ conn'[w].phase = conn[w].phase
        <3>1. CASE SendWorker(w)
            <4>1. /\ Others(w) /\ conn'[w] = Sent(conn[w])
                  /\ conn[w] \in Connection /\ conn[w].queue # <<>>
                BY <3>1, SendStep
            <4>2. Sent(conn[w]).phase = conn[w].phase
                BY <4>1, SentProperties
            <4> QED
                BY <4>1, <4>2
        <3>2. CASE SendFails(w)
            BY <3>2, SendFailsStep
        <3> QED
            BY <1>6, <3>1, <3>2
    <2> QED
        BY <1>4, <2>1, <2>2
<1>7. ASSUME RenderPause(w) \/ RenderResume(w) PROVE Counted'
    <2>1. count' = count
        BY <1>7 DEF RenderPause, RenderResume
    <2>2. Others(w) /\ conn'[w].phase = conn[w].phase
        BY <1>7, RenderStep
    <2> QED
        BY <1>4, <2>1, <2>2
<1> QED
    BY <1>1, <1>2, <1>5, <1>6, <1>7 DEF Handler

(* The count is that of the connections after every step.                  *)
LEMMA NextCounted == TypeOK /\ Counted /\ [Next]_vars => Counted'
<1> SUFFICES ASSUME TypeOK, Counted, [Next]_vars PROVE Counted'
    OBVIOUS
<1>1. CASE Manager
    BY <1>1, ManagerCounted
<1>2. ASSUME NEW w \in Viewers,
             \/ Connect(w) \/ Leave(w) \/ Handler(w) \/ SendWorker(w) \/ SendFails(w)
             \/ RenderPause(w) \/ RenderResume(w)
      PROVE  Counted'
    BY <1>2, ViewerCounted
<1>3. CASE UNCHANGED vars
    BY <1>3 DEF vars, Counted, Connections
<1> QED
    BY <1>1, <1>2, <1>3 DEF Next

(* Whoever leaves in whatever state, the descriptor is read exactly while  *)
(* nobody asks for a pause, who asks is a connected viewer that knows it   *)
(* does, and the places of a session are counted right.                    *)
THEOREM PausesHaveOwners == Spec => []PausesAreOwned
<1> DEFINE I == TypeOK /\ Owned /\ Counted
<1>1. Init => I
    BY InitTypes, InitOwned, InitCounted
<1>2. I /\ [Next]_vars => I'
    BY NextTypes, NextOwned, NextCounted
<1>3. I => PausesAreOwned
    <2> SUFFICES ASSUME I PROVE PausesAreOwned
        OBVIOUS
    <2>1. count = Cardinality({w \in Viewers : conn[w].phase # "out"}) /\ count <= MaxPerSession
        BY DEF Counted, Connections
    <2>2. ASSUME alive
          PROVE  /\ reader <=> requesters = {}
                 /\ requesters = {<<w, "queue">> : w \in {v \in Viewers : conn[v].paused}}
                           \cup {<<w, "render">> : w \in {v \in Viewers : conn[v].render}}
        <3>1. (reader <=> requesters = {}) /\ \A w \in Viewers : Asked(w)
            BY <2>2 DEF Owned
        <3>2. requesters \subseteq Viewers \X {"queue", "render"}
            BY DEF TypeOK
        <3> QED
            BY <3>1, <3>2, AskedAll
    <2> QED
        BY <2>1, <2>2 DEF PausesAreOwned
<1> QED
    BY <1>1, <1>2, <1>3, PTL DEF Spec

-----------------------------------------------------------------------------
(* The end mark.                                                           *)

(* While a viewer holds the terminal nothing waits to be flushed: the      *)
(* terminal was paused by a flush and is not read.                         *)
Quiet == alive => \A w \in Viewers : conn[w].paused => flushed = read

Awaits(c) == c.phase = "open" /\ ~c.ended /\ c.worker

(* The end mark of a viewer that still awaits it is in the queue ...       *)
Marked(c) == Awaits(c) => \E p \in 1 .. Len(c.queue) : c.queue[p] = End

(* ... and close enough to its end that the frames it can still get before *)
(* the terminal is paused do not push it out.                              *)
MarkedNear(c) ==
    Awaits(c) => \E p \in 1 .. Len(c.queue) :
                    /\ c.queue[p] = End
                    /\ Len(c.queue) - p <= IF c.paused THEN High ELSE High - 1

Marks == /\ \A w \in Viewers : Marked(conn[w])
         /\ alive => \A w \in Viewers : MarkedNear(conn[w])

(* A frame that is put over the oldest one leaves the mark in the queue,   *)
(* and a viewer that held nothing holds the terminal before more can come. *)
LEMMA OnDataMarks ==
    ASSUME NEW c \in Connection, Len(c.queue) <= QueueMax, NEW f \in Frame, MarkedNear(c)
    PROVE  /\ Marked(OnData(c, f))
           /\ ~c.paused => MarkedNear(OnData(c, f))
<1> DEFINE d == OnData(c, f)
<1>1. /\ d.phase = c.phase /\ d.worker = c.worker /\ d.ended = c.ended
      /\ \/ Len(c.queue) < QueueMax /\ d.queue = Append(c.queue, f)
         \/ Len(c.queue) = QueueMax /\ d.queue = Append(Tail(c.queue), f)
      /\ Len(d.queue) > High => d.paused
    BY OnDataProperties
<1>2. c.queue \in Seq(Frame) /\ Len(c.queue) \in Nat
    <2>1. c.queue \in Seq(Frame)
        BY DEF Connection
    <2> QED
        BY <2>1, LenProperties
<1> HIDE DEF d
<1>3. ASSUME Awaits(d)
      PROVE  \E p \in 1 .. Len(d.queue) :
                /\ d.queue[p] = End
                /\ ~c.paused => Len(d.queue) - p <= IF d.paused THEN High ELSE High - 1
    <2>1. PICK p \in 1 .. Len(c.queue) :
             /\ c.queue[p] = End
             /\ Len(c.queue) - p <= IF c.paused THEN High ELSE High - 1
        BY <1>1, <1>3 DEF Awaits, MarkedNear
    <2>2. p \in Nat /\ p >= 1 /\ p <= Len(c.queue)
        BY <1>2, <2>1
    <2>3. Len(c.queue) - p <= High /\ (~c.paused => Len(c.queue) - p <= High - 1)
        BY <1>2, <2>1, <2>2, Bounds
    <2>4. CASE Len(c.queue) < QueueMax /\ d.queue = Append(c.queue, f)
        <3>1. /\ Len(d.queue) = Len(c.queue) + 1
              /\ \A i \in 1 .. Len(c.queue) : d.queue[i] = c.queue[i]
            BY <1>2, <2>4, AppendProperties
        <3>2. p \in 1 .. Len(d.queue) /\ d.queue[p] = End
            BY <1>2, <2>1, <2>2, <3>1
        <3>3. ~c.paused => Len(d.queue) - p <= IF d.paused THEN High ELSE High - 1
            <4> SUFFICES ASSUME ~c.paused
                         PROVE  Len(d.queue) - p <= IF d.paused THEN High ELSE High - 1
                OBVIOUS
            <4>1. CASE Len(d.queue) > High
                BY <1>1, <1>2, <2>2, <2>3, <3>1, <4>1, Bounds
            <4>2. CASE ~(Len(d.queue) > High)
                BY <1>2, <2>2, <3>1, <4>2, Bounds
            <4> QED
                BY <4>1, <4>2
        <3> QED
            BY <3>2, <3>3
    <2>5. CASE Len(c.queue) = QueueMax /\ d.queue = Append(Tail(c.queue), f)
        <3>1. c.queue # <<>>
            BY <2>5, Bounds, EmptySeq
        <3>2. /\ Tail(c.queue) \in Seq(Frame) /\ Len(Tail(c.queue)) = Len(c.queue) - 1
              /\ \A i \in 1 .. Len(c.queue) - 1 : Tail(c.queue)[i] = c.queue[i + 1]
            BY <1>2, <3>1, TailProperties
        <3> DEFINE t == Tail(c.queue)
        <3> HIDE DEF t
        <3>3. /\ Len(d.queue) = Len(t) + 1
              /\ \A i \in 1 .. Len(t) : d.queue[i] = t[i]
            BY <2>5, <3>2, AppendProperties DEF t
        <3>4. p - 1 \in 1 .. Len(c.queue) - 1
            BY <2>2, <2>3, <2>5, Bounds
        <3>5. p - 1 \in 1 .. Len(d.queue) /\ d.queue[p - 1] = c.queue[(p - 1) + 1]
            BY <1>2, <2>5, <3>2, <3>3, <3>4, Bounds DEF t
        <3>6. d.queue[p - 1] = End
            BY <2>1, <2>2, <3>5
        <3>7. ~c.paused => Len(d.queue) - (p - 1) <= IF d.paused THEN High ELSE High - 1
            <4>1. Len(d.queue) = QueueMax
                BY <2>5, <3>2, <3>3, Bounds DEF t
            <4>2. d.paused
                BY <1>1, <4>1, Bounds
            <4> QED
                BY <2>2, <2>3, <2>5, <4>1, <4>2, Bounds
        <3> QED
            BY <3>5, <3>6, <3>7
    <2> QED
        BY <1>1, <2>4, <2>5
<1>4. Marked(d)
    BY <1>3 DEF Marked
<1>5. ~c.paused => MarkedNear(d)
    BY <1>3 DEF MarkedNear
<1> QED
    BY <1>4, <1>5 DEF d

(* Sending takes the mark out of the queue only by giving it to the viewer. *)
LEMMA SentMarks ==
    ASSUME NEW c \in Connection, c.queue # <<>>
    PROVE  /\ Marked(c) => Marked(Sent(c))
           /\ MarkedNear(c) => MarkedNear(Sent(c))
<1> DEFINE d == Sent(c)
<1>1. /\ d.queue = Tail(c.queue) /\ d.phase = c.phase /\ d.worker = c.worker
      /\ d.paused = c.paused /\ (d.ended <=> c.ended \/ Head(c.queue) = End)
    BY SentProperties
<1>2. c.queue \in Seq(Frame)
    BY DEF Connection
<1>3. /\ Len(c.queue) \in Nat /\ Len(c.queue) > 0
      /\ Tail(c.queue) \in Seq(Frame) /\ Len(Tail(c.queue)) = Len(c.queue) - 1
      /\ \A i \in 1 .. Len(c.queue) - 1 : Tail(c.queue)[i] = c.queue[i + 1]
      /\ Head(c.queue) = c.queue[1]
    BY <1>2, TailProperties
<1> HIDE DEF d
<1>4. ASSUME Awaits(d), NEW p \in 1 .. Len(c.queue), c.queue[p] = End
      PROVE  /\ p - 1 \in 1 .. Len(d.queue) /\ d.queue[p - 1] = End
             /\ Len(d.queue) - (p - 1) = Len(c.queue) - p
    <2>1. p # 1
        BY <1>1, <1>3, <1>4 DEF Awaits
    <2>2. p \in Nat /\ p - 1 \in 1 .. Len(c.queue) - 1 /\ (p - 1) + 1 = p
        BY <1>3, <2>1
    <2>3. d.queue[p - 1] = c.queue[(p - 1) + 1]
        BY <1>1, <1>3, <2>2
    <2> QED
        BY <1>1, <1>3, <1>4, <2>2, <2>3
<1>5. Awaits(d) => Awaits(c)
    BY <1>1 DEF Awaits
<1>6. Marked(c) => Marked(d)
    BY <1>4, <1>5 DEF Marked
<1>7. MarkedNear(c) => MarkedNear(d)
    <2> SUFFICES ASSUME MarkedNear(c), Awaits(d)
                 PROVE  \E q \in 1 .. Len(d.queue) :
                           /\ d.queue[q] = End
                           /\ Len(d.queue) - q <= IF d.paused THEN High ELSE High - 1
        BY DEF MarkedNear
    <2>1. PICK p \in 1 .. Len(c.queue) :
             /\ c.queue[p] = End
             /\ Len(c.queue) - p <= IF c.paused THEN High ELSE High - 1
        BY <1>5 DEF MarkedNear
    <2>2. /\ p - 1 \in 1 .. Len(d.queue) /\ d.queue[p - 1] = End
          /\ Len(d.queue) - (p - 1) = Len(c.queue) - p
        BY <1>4, <2>1
    <2>3. Len(d.queue) - (p - 1) <= IF d.paused THEN High ELSE High - 1
        BY <1>1, <2>1, <2>2
    <2> QED
        BY <2>2, <2>3
<1> QED
    BY <1>6, <1>7 DEF d

(* A viewer whose mark was just put behind the scrollback.                 *)
LEMMA OpenMarks ==
    ASSUME NEW c \in Connection, NEW q \in Seq(Frame), c.queue = Append(q, End)
    PROVE  Marked(c) /\ MarkedNear(c)
<1>1. /\ Len(q) \in Nat /\ Len(c.queue) = Len(q) + 1 /\ c.queue[Len(q) + 1] = End
    BY Frames, AppendProperties, LenProperties
<1>2. Len(c.queue) \in 1 .. Len(c.queue) /\ c.queue[Len(c.queue)] = End
    BY <1>1
<1>3. Len(c.queue) - Len(c.queue) <= IF c.paused THEN High ELSE High - 1
    BY <1>1, Bounds
<1> QED
    BY <1>2, <1>3 DEF Marked, MarkedNear

(* Marks do not depend on what was lost or rendered. *)
LEMMA SameMarks ==
    ASSUME NEW c, NEW d, d.queue = c.queue, d.phase = c.phase, d.ended = c.ended,
           d.worker = c.worker, d.paused = c.paused
    PROVE  /\ Marked(c) => Marked(d)
           /\ MarkedNear(c) => MarkedNear(d)
BY DEF Marked, MarkedNear, Awaits

(* Who awaits no mark. *)
LEMMA NoMarks ==
    ASSUME NEW c, c.phase # "open" \/ ~c.worker
    PROVE  Marked(c) /\ MarkedNear(c)
BY DEF Marked, MarkedNear, Awaits

(* To begin with no viewer awaits the mark of the replay's end.            *)
LEMMA InitMarks == Init => Quiet /\ Marks
<1> SUFFICES ASSUME Init PROVE Quiet /\ Marks
    OBVIOUS
<1>1. \A w \in Viewers : conn[w].phase # "open" /\ ~conn[w].paused
    BY OutProperties DEF Init
<1> QED
    BY <1>1, NoMarks DEF Quiet, Marks

(* A flush by which the manager catches up.                                *)
LEMMA FlushMarks ==
    ASSUME TypeOK, Quiet, Marks, alive, NEW n \in Nat, Flush(n), n = read',
           alive' = alive, \A w \in Viewers : ~conn[w].paused
    PROVE  Quiet' /\ Marks'
<1>1. flushed' = read'
    BY DEF Flush
<1>2. ASSUME NEW w \in Viewers PROVE Marked(conn'[w]) /\ MarkedNear(conn'[w])
    <2>1. Marked(conn[w]) /\ MarkedNear(conn[w]) /\ ~conn[w].paused
        BY DEF Marks
    <2>2. conn[w] \in Connection /\ Len(conn[w].queue) <= QueueMax
        BY DEF TypeOK
    <2>3. CASE w \in subs
        <3>1. conn'[w] = OnData(conn[w], Batch(n)) /\ Batch(n) \in Frame
            BY <2>3, FlushStep, FlushTypes
        <3>2. Marked(OnData(conn[w], Batch(n))) /\ MarkedNear(OnData(conn[w], Batch(n)))
            BY <2>1, <2>2, <3>1, OnDataMarks
        <3> QED
            BY <3>1, <3>2
    <2>4. CASE w \notin subs /\ conn[w].phase = "marking"
        <3>1. conn'[w].phase = "marking"
            BY <2>4, FlushStep
        <3> QED
            BY <3>1, NoMarks
    <2>5. CASE w \notin subs /\ conn[w].phase # "marking"
        <3>1. conn'[w] = conn[w]
            BY <2>5, FlushStep
        <3> QED
            BY <2>1, <3>1
    <2> QED
        BY <2>3, <2>4, <2>5
<1> QED
    BY <1>1, <1>2 DEF Quiet, Marks

(* What the manager sends does not push the mark out of a queue.           *)
LEMMA ManagerMarks ==
    ASSUME TypeOK, Owned, Quiet, Marks, Manager
    PROVE  Quiet' /\ Marks'
<1>1. ASSUME alive, reader PROVE \A w \in Viewers : ~conn[w].paused
    BY <1>1 DEF Owned, Asked
<1>2. CASE OnReadable
    <2>1. read' \in Nat /\ alive /\ alive' = alive /\ \A w \in Viewers : ~conn[w].paused
        BY <1>1, <1>2 DEF OnReadable, TypeOK
    <2>2. CASE Flush(read')
        BY <2>1, <2>2, FlushMarks
    <2>3. CASE conn' = conn
        BY <2>1, <2>3 DEF Quiet, Marks
    <2> QED
        BY <1>2, <2>2, <2>3 DEF OnReadable
<1>3. CASE FlushTimer
    <2>1. read \in Nat /\ Flush(read) /\ read' = read /\ alive /\ alive' = alive /\ flushed < read
        BY <1>3 DEF FlushTimer, TypeOK
    <2>2. \A w \in Viewers : ~conn[w].paused
        BY <2>1 DEF Quiet, TypeOK
    <2> QED
        BY <2>1, <2>2, FlushMarks
<1>4. CASE EndOfFile
    <2>1. alive /\ alive' = FALSE /\ \A w \in Viewers : ~conn[w].paused
        BY <1>1, <1>4 DEF EndOfFile, SessionGone
    <2>2. ASSUME NEW w \in Viewers PROVE Marked(conn'[w])
        <3>1. /\ w \in subs => conn'[w] = OnData(Rest[w], Exit)
              /\ w \notin subs => conn'[w] = Rest[w]
              /\ Rest[w] \in Connection /\ Len(Rest[w].queue) <= QueueMax
              /\ Rest[w].phase = conn[w].phase
              /\ Batch(read) \in Frame
            BY <1>4, EndStep
        <3>2. conn[w] \in Connection /\ Len(conn[w].queue) <= QueueMax /\ MarkedNear(conn[w])
            BY <2>1 DEF TypeOK, Marks
        <3>3. MarkedNear(Rest[w])
            <4>1. CASE Rest[w] = conn[w]
                BY <3>2, <4>1
            <4>2. CASE Rest[w] = OnData(conn[w], Batch(read))
                <5>1. MarkedNear(OnData(conn[w], Batch(read)))
                    BY <2>1, <3>1, <3>2, OnDataMarks
                <5> QED
                    BY <4>2, <5>1
            <4>3. CASE conn[w].phase = "marking"
                BY <3>1, <4>3, NoMarks
            <4> QED
                BY <1>4, <4>1, <4>2, <4>3, RestStep
        <3>4. Marked(OnData(Rest[w], Exit))
            BY <3>1, <3>3, Frames, OnDataMarks
        <3>5. Marked(Rest[w])
            BY <3>3 DEF Marked, MarkedNear
        <3> QED
            BY <3>1, <3>4, <3>5
    <2> QED
        BY <2>1, <2>2 DEF Quiet, Marks
<1>5. CASE DestroySession
    BY <1>5 DEF DestroySession, SessionGone, Quiet, Marks
<1> QED
    BY <1>2, <1>3, <1>4, <1>5 DEF Manager

(* A mark leaves a queue only when the viewer's worker takes it.           *)
LEMMA ViewerMarks ==
    ASSUME TypeOK, Quiet, Marks, NEW w \in Viewers,
           \/ Connect(w) \/ Leave(w) \/ Handler(w) \/ SendWorker(w) \/ SendFails(w)
           \/ RenderPause(w) \/ RenderResume(w)
    PROVE  Quiet' /\ Marks'
<1>0. /\ alive' = alive /\ read' = read /\ flushed' = flushed
      /\ conn[w] \in Connection
      /\ Marked(conn[w]) /\ (alive => MarkedNear(conn[w]))
    BY DEF Connect, Leave, Handler, Replay, PutEnd, JoinFails, CleanUp, SendWorker, SendFails,
           RenderPause, RenderResume, TypeOK, Marks
(* The viewer's mark is the only one the step can touch. *)
<1>1. ASSUME Others(w), conn'[w].paused => conn[w].paused,
             Marked(conn'[w]), alive => MarkedNear(conn'[w])
      PROVE  Quiet' /\ Marks'
    <2>1. ASSUME NEW v \in Viewers
          PROVE  /\ Marked(conn'[v]) /\ (alive => MarkedNear(conn'[v]))
                 /\ conn'[v].paused => conn[v].paused
        <3>1. CASE v = w
            BY <1>1, <3>1
        <3>2. CASE v # w
            BY <1>1, <3>2 DEF Others, Marks
        <3> QED
            BY <3>1, <3>2
    <2> QED
        BY <1>0, <2>1 DEF Quiet, Marks
<1>2. ASSUME Connect(w) PROVE Quiet' /\ Marks'
    <2>1. /\ Others(w) /\ conn'[w].phase = "joining" /\ conn'[w].paused = conn[w].paused
        BY <1>2, ConnectStep
    <2> QED
        BY <1>1, <2>1, NoMarks
<1>3. ASSUME Leave(w) \/ JoinFails(w) PROVE Quiet' /\ Marks'
    <2>1. Others(w) /\ conn'[w] = Out
        BY <1>3, Leaving, CleanUpStep
    <2> QED
        BY <1>1, <2>1, NoMarks, OutProperties
<1>4. ASSUME Replay(w) PROVE Quiet' /\ Marks'
    <2>1. /\ Others(w) /\ Connected' /\ conn'[w].paused = conn[w].paused
          /\ Last(scrollback, QueueMax) \in Seq(Frame)
          /\ \/ conn'[w].queue = Append(Last(scrollback, QueueMax), End)
             \/ conn'[w].phase = "marking"
        BY <1>4, ReplayStep
    <2>2. conn'[w] \in Connection
        BY <2>1 DEF Connected
    <2>3. Marked(conn'[w]) /\ MarkedNear(conn'[w])
        BY <2>1, <2>2, OpenMarks, NoMarks
    <2> QED
        BY <1>1, <2>1, <2>3
<1>5. ASSUME PutEnd(w) PROVE Quiet' /\ Marks'
    <2>1. /\ Others(w) /\ Connected' /\ conn'[w].paused = conn[w].paused
          /\ conn'[w].queue = Append(conn[w].queue, End)
        BY <1>5, PutEndStep
    <2>2. conn'[w] \in Connection /\ conn[w].queue \in Seq(Frame)
        BY <1>0, <2>1 DEF Connected, Connection
    <2>3. Marked(conn'[w]) /\ MarkedNear(conn'[w])
        BY <2>1, <2>2, OpenMarks
    <2> QED
        BY <1>1, <2>1, <2>3
<1>6. ASSUME SendWorker(w) PROVE Quiet' /\ Marks'
    <2>1. Others(w) /\ conn'[w] = Sent(conn[w]) /\ conn[w].queue # <<>>
        BY <1>6, SendStep
    <2>2. Sent(conn[w]).paused = conn[w].paused
        BY <1>0, <2>1, SentProperties
    <2>3. Marked(Sent(conn[w])) /\ (alive => MarkedNear(Sent(conn[w])))
        BY <1>0, <2>1, SentMarks
    <2> QED
        BY <1>1, <2>1, <2>2, <2>3
<1>7. ASSUME SendFails(w) PROVE Quiet' /\ Marks'
    <2>1. Others(w) /\ conn'[w].worker = FALSE /\ conn'[w].paused = conn[w].paused
        BY <1>7, SendFailsStep
    <2> QED
        BY <1>1, <2>1, NoMarks
<1>8. ASSUME RenderPause(w) \/ RenderResume(w) PROVE Quiet' /\ Marks'
    <2>1. /\ Others(w)
          /\ conn'[w].phase = conn[w].phase /\ conn'[w].queue = conn[w].queue
          /\ conn'[w].worker = conn[w].worker /\ conn'[w].paused = conn[w].paused
          /\ conn'[w].ended = conn[w].ended
        BY <1>8, RenderStep
    <2>2. Marked(conn'[w]) /\ (alive => MarkedNear(conn'[w]))
        BY <1>0, <2>1, SameMarks
    <2> QED
        BY <1>1, <2>1, <2>2
<1> QED
    BY <1>2, <1>3, <1>4, <1>5, <1>6, <1>7, <1>8 DEF Handler

(* After every step a viewer that awaits the mark has it in its queue.     *)
LEMMA NextMarks == TypeOK /\ Owned /\ Quiet /\ Marks /\ [Next]_vars => Quiet' /\ Marks'
<1> SUFFICES ASSUME TypeOK, Owned, Quiet, Marks, [Next]_vars PROVE Quiet' /\ Marks'
    OBVIOUS
<1>1. CASE Manager
    BY <1>1, ManagerMarks
<1>2. ASSUME NEW w \in Viewers,
             \/ Connect(w) \/ Leave(w) \/ Handler(w) \/ SendWorker(w) \/ SendFails(w)
             \/ RenderPause(w) \/ RenderResume(w)
      PROVE  Quiet' /\ Marks'
    BY <1>2, ViewerMarks
<1>3. CASE UNCHANGED vars
    BY <1>3 DEF vars, Quiet, Marks
<1> QED
    BY <1>1, <1>2, <1>3 DEF Next

(* The end mark of the replay reaches every viewer that stays: whatever    *)
(* the sizes, no frame put over the oldest one displaces it.               *)
THEOREM EndMarkArrives == Spec => []EndMarkKept
<1> DEFINE I == TypeOK /\ Owned /\ Quiet /\ Marks
<1>1. Init => I
    BY InitTypes, InitOwned, InitMarks
<1>2. I /\ [Next]_vars => I'
    BY NextTypes, NextOwned, NextMarks
<1>3. I => EndMarkKept
    <2> SUFFICES ASSUME I, NEW w \in Viewers, conn[w].phase = "open", ~conn[w].ended, conn[w].worker
                 PROVE  \E k \in DOMAIN conn[w].queue : conn[w].queue[k] = End
        BY DEF EndMarkKept
    <2>1. \E k \in 1 .. Len(conn[w].queue) : conn[w].queue[k] = End
        BY DEF Marks, Marked, Awaits
    <2>2. conn[w].queue \in Seq(Frame)
        BY DEF TypeOK, Connection
    <2>3. DOMAIN conn[w].queue = 1 .. Len(conn[w].queue)
        BY <2>2, LenProperties
    <2> QED
        BY <2>1, <2>3
<1> QED
    BY <1>1, <1>2, <1>3, PTL DEF Spec

-----------------------------------------------------------------------------
(* The order of the output.                                                *)

(* What waits in a queue lies behind what was sent, frame after frame, and *)
(* within what was broadcast.                                              *)
Sound(c, m) ==
    /\ c.seen <= m
    /\ \A k \in Outputs(c) :
          /\ 0 < c.queue[k].from /\ c.queue[k].from <= c.queue[k].to /\ c.queue[k].to <= m
          /\ c.seen < c.queue[k].from
          /\ \A j \in Outputs(c) : j < k => c.queue[j].to < c.queue[k].from

(* Chunk n is where something ends that the viewer gets before place k.    *)
Ends(c, k, n) == c.seen = n \/ \E j \in Outputs(c) : j < k /\ c.queue[j].to = n

Begun(c, k) == c.seen # 0 \/ \E j \in Outputs(c) : j < k

(* Without loss every frame of a connection that has begun continues one.  *)
Gapless(c) ==
    ~c.lossy => \A k \in Outputs(c) : Begun(c, k) => Ends(c, k, c.queue[k].from - 1)

Listening(c) == c.phase \in {"open", "marking"} /\ ~c.lossy

(* And what is broadcast next will continue it, too. *)
CaughtUp(c, m) ==
    Listening(c) => (Begun(c, Len(c.queue) + 1) => Ends(c, Len(c.queue) + 1, m))

(* The outputs of a connection are frames at places of its queue.          *)
LEMMA OutputsProperties ==
    ASSUME NEW c \in Connection
    PROVE  /\ c.queue \in Seq(Frame) /\ Len(c.queue) \in Nat /\ c.seen \in Nat
           /\ Outputs(c) = {k \in 1 .. Len(c.queue) : c.queue[k].kind = "out"}
           /\ \A k \in 1 .. Len(c.queue) :
                 /\ c.queue[k] \in Frame
                 /\ c.queue[k].from \in Nat /\ c.queue[k].to \in Nat
<1>1. c.queue \in Seq(Frame) /\ c.seen \in Nat
    BY DEF Connection
<1>2. Len(c.queue) \in Nat /\ DOMAIN c.queue = 1 .. Len(c.queue)
    BY <1>1, LenProperties
<1>3. \A k \in 1 .. Len(c.queue) : c.queue[k] \in Frame
    BY <1>1, ElementOfSeq
<1>4. \A f \in Frame : f.from \in Nat /\ f.to \in Nat
    BY DEF Frame
<1> QED
    BY <1>1, <1>2, <1>3, <1>4 DEF Outputs

(* What Sound and Gapless say is what InOrder asks for.                    *)
LEMMA OrderOfOne ==
    ASSUME NEW c \in Connection, NEW m \in Nat, Sound(c, m), Gapless(c), NEW k \in Outputs(c)
    PROVE  /\ \A n \in Before(c, k) : c.queue[k].from > n
           /\ Before(c, k) # {0} /\ ~c.lossy => c.queue[k].from - 1 \in Before(c, k)
<1>1. /\ c.seen \in Nat
      /\ Outputs(c) \subseteq 1 .. Len(c.queue)
      /\ \A j \in Outputs(c) : c.queue[j].from \in Nat /\ c.queue[j].to \in Nat
    BY OutputsProperties
<1>2. \A n : n \in Before(c, k) <=> n = c.seen \/ \E j \in Outputs(c) : j < k /\ n = c.queue[j].to
    BY DEF Before
<1>3. \A n \in Before(c, k) : c.queue[k].from > n
    BY <1>1, <1>2 DEF Sound
<1>4. ASSUME Before(c, k) # {0} PROVE Begun(c, k)
    <2>1. PICK n \in Before(c, k) : n # 0
        BY <1>2, <1>4
    <2> QED
        BY <1>2, <2>1 DEF Begun
<1>5. \A n : Ends(c, k, n) => n \in Before(c, k)
    BY <1>2 DEF Ends
<1> QED
    BY <1>3, <1>4, <1>5 DEF Gapless

(* A frame at the end of a queue. *)
LEMMA Appended ==
    ASSUME NEW c \in Connection, NEW d \in Connection, NEW f \in Frame,
           d.queue = Append(c.queue, f)
    PROVE  /\ Len(d.queue) = Len(c.queue) + 1 /\ d.queue[Len(c.queue) + 1] = f
           /\ \A k \in 1 .. Len(c.queue) : d.queue[k] = c.queue[k]
           /\ Outputs(c) \subseteq 1 .. Len(c.queue)
           /\ f.kind # "out" => Outputs(d) = Outputs(c)
           /\ f.kind = "out" => Outputs(d) = Outputs(c) \cup {Len(c.queue) + 1}
<1>1. /\ c.queue \in Seq(Frame) /\ Len(c.queue) \in Nat
      /\ Outputs(c) = {k \in 1 .. Len(c.queue) : c.queue[k].kind = "out"}
      /\ Outputs(d) = {k \in 1 .. Len(d.queue) : d.queue[k].kind = "out"}
    BY OutputsProperties
<1>2. /\ Len(d.queue) = Len(c.queue) + 1 /\ d.queue[Len(c.queue) + 1] = f
      /\ \A k \in 1 .. Len(c.queue) : d.queue[k] = c.queue[k]
    BY <1>1, AppendProperties
<1>3. \A k : k \in 1 .. Len(d.queue) <=> k \in 1 .. Len(c.queue) \/ k = Len(c.queue) + 1
    BY <1>1, <1>2
<1>4. ASSUME NEW k PROVE k \in Outputs(d) <=> k \in Outputs(c) \/ (k = Len(c.queue) + 1 /\ f.kind = "out")
    <2>1. CASE k = Len(c.queue) + 1
        <3>1. k \notin 1 .. Len(c.queue) /\ k \in 1 .. Len(d.queue)
            BY <1>1, <1>2, <2>1
        <3>2. d.queue[k] = f
            BY <1>2, <2>1
        <3> QED
            BY <1>1, <2>1, <3>1, <3>2
    <2>2. CASE k \in 1 .. Len(c.queue)
        <3>1. d.queue[k] = c.queue[k] /\ k \in 1 .. Len(d.queue) /\ k # Len(c.queue) + 1
            BY <1>1, <1>2, <2>2
        <3>2. k \in Outputs(d) <=> d.queue[k].kind = "out"
            BY <1>1, <3>1
        <3>3. k \in Outputs(c) <=> c.queue[k].kind = "out"
            BY <1>1, <2>2
        <3> QED
            BY <3>1, <3>2, <3>3
    <2>3. CASE k \notin 1 .. Len(c.queue) /\ k # Len(c.queue) + 1
        BY <1>1, <1>3, <2>3
    <2> QED
        BY <2>1, <2>2, <2>3
<1> QED
    BY <1>1, <1>2, <1>4

(* A queue without its first frame.                                        *)
LEMMA Shifted ==
    ASSUME NEW c \in Connection, c.queue # <<>>, NEW d \in Connection,
           d.queue = Tail(c.queue)
    PROVE  /\ Len(d.queue) = Len(c.queue) - 1
           /\ \A k \in Outputs(d) : k \in Nat /\ k + 1 \in Outputs(c) /\ d.queue[k] = c.queue[k + 1]
           /\ \A k \in Outputs(c) : k # 1 => k - 1 \in Outputs(d) /\ d.queue[k - 1] = c.queue[k]
           /\ Outputs(c) \subseteq 1 .. Len(c.queue)
<1>1. /\ c.queue \in Seq(Frame) /\ Len(c.queue) \in Nat
      /\ Outputs(c) = {k \in 1 .. Len(c.queue) : c.queue[k].kind = "out"}
      /\ Outputs(d) = {k \in 1 .. Len(d.queue) : d.queue[k].kind = "out"}
    BY OutputsProperties
<1>2. /\ Len(d.queue) = Len(c.queue) - 1 /\ Len(c.queue) > 0
      /\ \A i \in 1 .. Len(c.queue) - 1 : d.queue[i] = c.queue[i + 1]
    BY <1>1, TailProperties
<1>3. ASSUME NEW k \in Outputs(d)
      PROVE  k \in Nat /\ k + 1 \in Outputs(c) /\ d.queue[k] = c.queue[k + 1]
    <2>1. k \in 1 .. Len(c.queue) - 1 /\ d.queue[k].kind = "out"
        BY <1>1, <1>2
    <2>2. k + 1 \in 1 .. Len(c.queue) /\ d.queue[k] = c.queue[k + 1]
        BY <1>1, <1>2, <2>1
    <2> QED
        BY <1>1, <2>1, <2>2
<1>4. ASSUME NEW k \in Outputs(c), k # 1
      PROVE  k - 1 \in Outputs(d) /\ d.queue[k - 1] = c.queue[k]
    <2>1. k \in 1 .. Len(c.queue) /\ c.queue[k].kind = "out"
        BY <1>1
    <2>2. k - 1 \in 1 .. Len(c.queue) - 1 /\ (k - 1) + 1 = k
        BY <1>1, <1>4, <2>1
    <2>3. d.queue[k - 1] = c.queue[k]
        BY <1>2, <2>2
    <2> QED
        BY <1>1, <1>2, <2>1, <2>2, <2>3
<1> QED
    BY <1>1, <1>2, <1>3, <1>4

(* The next frame of output is put behind a queue.                         *)
LEMMA PutOutput ==
    ASSUME NEW c \in Connection, NEW d \in Connection, NEW m \in Nat, NEW n \in Nat, m < n,
           NEW f \in Frame, f.kind = "out", f.from = m + 1, f.to = n,
           d.queue = Append(c.queue, f), d.seen = c.seen, Sound(c, m)
    PROVE  /\ Sound(d, n)
           /\ d.lossy \/ (Gapless(c) /\ CaughtUp(c, m) /\ Listening(c)) => Gapless(d) /\ CaughtUp(d, n)
<1>1. /\ Len(c.queue) \in Nat /\ c.seen \in Nat
      /\ \A k \in Outputs(c) : c.queue[k].from \in Nat /\ c.queue[k].to \in Nat
    <2>1. /\ Len(c.queue) \in Nat /\ c.seen \in Nat
          /\ Outputs(c) \subseteq 1 .. Len(c.queue)
          /\ \A k \in 1 .. Len(c.queue) : c.queue[k].from \in Nat /\ c.queue[k].to \in Nat
        BY OutputsProperties
    <2> QED
        BY <2>1
<1> DEFINE l == Len(c.queue) + 1
<1>2. /\ Len(d.queue) = l /\ d.queue[l] = f /\ l \in Nat
      /\ \A k \in Outputs(c) : d.queue[k] = c.queue[k] /\ k \in Nat /\ k < l
      /\ Outputs(d) = Outputs(c) \cup {l}
    <2>1. /\ Len(d.queue) = l /\ d.queue[l] = f
          /\ \A k \in 1 .. Len(c.queue) : d.queue[k] = c.queue[k]
          /\ Outputs(c) \subseteq 1 .. Len(c.queue)
          /\ Outputs(d) = Outputs(c) \cup {l}
        BY Appended
    <2>2. \A k \in 1 .. Len(c.queue) : k \in Nat /\ k < l
        BY <1>1
    <2> QED
        BY <1>1, <2>1, <2>2
<1> HIDE DEF l
<1>3. \A k \in Outputs(c) : /\ 0 < c.queue[k].from /\ c.queue[k].from <= c.queue[k].to
                            /\ c.queue[k].to <= m /\ c.seen < c.queue[k].from
                            /\ \A j \in Outputs(c) : j < k => c.queue[j].to < c.queue[k].from
    BY DEF Sound
<1>4. c.seen <= m
    BY DEF Sound
<1>5. Sound(d, n)
    <2>1. ASSUME NEW k \in Outputs(d)
          PROVE  /\ 0 < d.queue[k].from /\ d.queue[k].from <= d.queue[k].to /\ d.queue[k].to <= n
                 /\ d.seen < d.queue[k].from
        <3>1. CASE k = l
            <4>1. d.queue[k].from = m + 1 /\ d.queue[k].to = n
                BY <1>2, <3>1
            <4> QED
                BY <1>1, <1>4, <4>1
        <3>2. CASE k \in Outputs(c)
            <4>1. d.queue[k] = c.queue[k] /\ c.queue[k].to \in Nat /\ c.queue[k].to <= m
                BY <1>1, <1>2, <1>3, <3>2
            <4>2. /\ 0 < c.queue[k].from /\ c.queue[k].from <= c.queue[k].to
                  /\ c.seen < c.queue[k].from
                BY <1>3, <3>2
            <4> QED
                BY <4>1, <4>2
        <3> QED
            BY <1>2, <3>1, <3>2
    <2>2. ASSUME NEW k \in Outputs(d), NEW j \in Outputs(d), j < k
          PROVE  d.queue[j].to < d.queue[k].from
        <3>1. CASE k = l
            <4>1. j \in Outputs(c)
                BY <1>2, <2>2, <3>1
            <4>2. d.queue[j] = c.queue[j] /\ c.queue[j].to \in Nat /\ c.queue[j].to <= m
                BY <1>1, <1>2, <1>3, <4>1
            <4>3. d.queue[k].from = m + 1
                BY <1>2, <3>1
            <4> QED
                BY <4>2, <4>3
        <3>2. CASE k \in Outputs(c)
            <4>1. j \in Outputs(c)
                BY <1>2, <2>2, <3>2
            <4> QED
                BY <1>2, <1>3, <2>2, <3>2, <4>1
        <3> QED
            BY <1>2, <3>1, <3>2
    <2>3. d.seen <= n
        BY <1>1, <1>4
    <2> QED
        BY <2>1, <2>2, <2>3 DEF Sound
<1>6. CASE d.lossy
    BY <1>5, <1>6 DEF Gapless, CaughtUp, Listening
<1>7. CASE ~d.lossy
    <2> SUFFICES ASSUME Gapless(c), CaughtUp(c, m), Listening(c)
                 PROVE  Gapless(d) /\ CaughtUp(d, n)
        BY <1>5, <1>7
    <2>1. /\ Begun(c, l) => Ends(c, l, m)
          /\ \A k \in Outputs(c) : Begun(c, k) => Ends(c, k, c.queue[k].from - 1)
        BY DEF CaughtUp, Gapless, Listening, l
    <2>2. ASSUME NEW k \in Outputs(d), Begun(d, k) PROVE Ends(d, k, d.queue[k].from - 1)
        <3>1. CASE k = l
            <4>1. Begun(c, l)
                BY <1>2, <2>2, <3>1 DEF Begun
            <4>2. Ends(c, l, m)
                BY <2>1, <4>1
            <4>3. d.queue[k].from - 1 = m
                BY <1>2, <3>1
            <4> QED
                BY <1>2, <3>1, <4>2, <4>3 DEF Ends
        <3>2. CASE k \in Outputs(c)
            <4>0. k # l /\ k < l
                BY <1>2, <3>2
            <4>1. Begun(c, k)
                BY <1>2, <2>2, <3>2, <4>0 DEF Begun
            <4>2. Ends(c, k, c.queue[k].from - 1)
                BY <2>1, <3>2, <4>1
            <4> QED
                BY <1>2, <3>2, <4>2 DEF Ends
        <3> QED
            BY <1>2, <3>1, <3>2
    <2>3. Ends(d, Len(d.queue) + 1, n)
        <3>1. l \in Outputs(d) /\ l < Len(d.queue) + 1 /\ d.queue[l].to = n
            BY <1>2
        <3> QED
            BY <3>1 DEF Ends
    <2> QED
        BY <2>2, <2>3 DEF Gapless, CaughtUp
<1> QED
    BY <1>5, <1>6, <1>7

(* A frame that is no output changes nothing of that. *)
LEMMA PutPlain ==
    ASSUME NEW c \in Connection, NEW d \in Connection, NEW m \in Nat,
           NEW f \in Frame, f.kind # "out",
           d.queue = Append(c.queue, f), d.seen = c.seen, Sound(c, m)
    PROVE  /\ Sound(d, m)
           /\ d.lossy \/ (Gapless(c) /\ d.lossy = c.lossy) => Gapless(d)
           /\ d.lossy \/ (CaughtUp(c, m) /\ Listening(c)) => CaughtUp(d, m)
<1>1. /\ Len(d.queue) = Len(c.queue) + 1
      /\ \A k \in 1 .. Len(c.queue) : d.queue[k] = c.queue[k]
      /\ Outputs(c) \subseteq 1 .. Len(c.queue)
      /\ Outputs(d) = Outputs(c)
    BY Appended
<1>2. \A k \in Outputs(c) : d.queue[k] = c.queue[k]
    BY <1>1
<1>3. Sound(d, m)
    BY <1>1, <1>2 DEF Sound
<1>4. \A k, n : (Ends(c, k, n) <=> Ends(d, k, n)) /\ (Begun(c, k) <=> Begun(d, k))
    BY <1>1, <1>2 DEF Ends, Begun
<1>5. Gapless(c) /\ d.lossy = c.lossy => Gapless(d)
    BY <1>1, <1>2, <1>4 DEF Gapless
<1>6. CaughtUp(c, m) /\ Listening(c) => CaughtUp(d, m)
    <2> SUFFICES ASSUME CaughtUp(c, m), Listening(c), Begun(d, Len(d.queue) + 1)
                 PROVE  Ends(d, Len(d.queue) + 1, m)
        BY DEF CaughtUp
    <2>1. Len(c.queue) \in Nat
        BY OutputsProperties
    <2>2. \A k \in Outputs(c) : k < Len(c.queue) + 1 /\ k < Len(d.queue) + 1
        BY <1>1, <2>1
    <2>3. Begun(c, Len(c.queue) + 1)
        BY <1>1, <2>2 DEF Begun
    <2>4. Ends(c, Len(c.queue) + 1, m)
        BY <2>3 DEF CaughtUp
    <2> QED
        BY <1>1, <1>2, <2>2, <2>4 DEF Ends
<1>7. d.lossy => Gapless(d) /\ CaughtUp(d, m)
    BY DEF Gapless, CaughtUp, Listening
<1> QED
    BY <1>3, <1>5, <1>6, <1>7

(* A frame that is lost leaves the rest in order.                          *)
LEMMA DropSound ==
    ASSUME NEW c \in Connection, c.queue # <<>>, NEW d \in Connection, NEW m \in Nat,
           d.queue = Tail(c.queue), d.seen = c.seen, Sound(c, m)
    PROVE  Sound(d, m)
<1>1. \A k \in Outputs(d) : k \in Nat /\ k + 1 \in Outputs(c) /\ d.queue[k] = c.queue[k + 1]
    BY Shifted
<1>2. ASSUME NEW k \in Outputs(d), NEW j \in Outputs(d), j < k
      PROVE  d.queue[j].to < d.queue[k].from
    <2>1. j + 1 \in Outputs(c) /\ k + 1 \in Outputs(c) /\ j + 1 < k + 1
        BY <1>1, <1>2
    <2>2. c.queue[j + 1].to < c.queue[k + 1].from
        BY <2>1 DEF Sound
    <2> QED
        BY <1>1, <2>2
<1>3. ASSUME NEW k \in Outputs(d)
      PROVE  /\ 0 < d.queue[k].from /\ d.queue[k].from <= d.queue[k].to /\ d.queue[k].to <= m
             /\ d.seen < d.queue[k].from
    BY <1>1 DEF Sound
<1> QED
    BY <1>2, <1>3 DEF Sound

(* Sending the first frame moves it from the queue to what was seen.       *)
LEMMA SentOrder ==
    ASSUME NEW c \in Connection, c.queue # <<>>, NEW m \in Nat, Sound(c, m)
    PROVE  /\ Sound(Sent(c), m)
           /\ Gapless(c) => Gapless(Sent(c))
           /\ CaughtUp(c, m) => CaughtUp(Sent(c), m)
<1> DEFINE d == Sent(c)
<1>1. /\ d \in Connection /\ d.queue = Tail(c.queue) /\ d.lossy = c.lossy /\ d.phase = c.phase
      /\ d.seen = IF Head(c.queue).kind = "out" THEN Head(c.queue).to ELSE c.seen
    BY SentProperties
<1> HIDE DEF d
<1>2. /\ Len(c.queue) \in Nat /\ c.seen \in Nat /\ d.seen \in Nat
      /\ Len(c.queue) > 0 /\ Head(c.queue) = c.queue[1]
      /\ (1 \in Outputs(c) <=> c.queue[1].kind = "out")
      /\ \A k \in Outputs(c) : c.queue[k].from \in Nat /\ c.queue[k].to \in Nat /\ k \in Nat /\ k >= 1
    <2>1. /\ Len(c.queue) \in Nat /\ c.seen \in Nat /\ d.seen \in Nat /\ c.queue \in Seq(Frame)
          /\ Outputs(c) = {k \in 1 .. Len(c.queue) : c.queue[k].kind = "out"}
          /\ \A k \in 1 .. Len(c.queue) : c.queue[k].from \in Nat /\ c.queue[k].to \in Nat
        BY <1>1, OutputsProperties
    <2>2. Len(c.queue) > 0 /\ Head(c.queue) = c.queue[1]
        BY <2>1, TailProperties
    <2>3. 1 \in 1 .. Len(c.queue)
        BY <2>1, <2>2
    <2> QED
        BY <2>1, <2>2, <2>3
<1>3. /\ Len(d.queue) = Len(c.queue) - 1
      /\ \A k \in Outputs(d) : k \in Nat /\ k + 1 \in Outputs(c) /\ d.queue[k] = c.queue[k + 1]
      /\ \A k \in Outputs(c) : k # 1 => k - 1 \in Outputs(d) /\ d.queue[k - 1] = c.queue[k]
    BY <1>1, Shifted
<1>4. /\ c.seen <= m
      /\ \A k \in Outputs(c) :
            /\ 0 < c.queue[k].from /\ c.queue[k].from <= c.queue[k].to /\ c.queue[k].to <= m
            /\ c.seen < c.queue[k].from
            /\ \A j \in Outputs(c) : j < k => c.queue[j].to < c.queue[k].from
    BY DEF Sound
<1>5. /\ 1 \in Outputs(c) => d.seen = c.queue[1].to /\ c.seen < d.seen
      /\ 1 \notin Outputs(c) => d.seen = c.seen
    <2>1. CASE 1 \in Outputs(c)
        <3>1. d.seen = c.queue[1].to
            BY <1>1, <1>2, <2>1
        <3>2. c.seen < c.queue[1].from /\ c.queue[1].from <= c.queue[1].to
            BY <1>4, <2>1
        <3> QED
            BY <1>2, <2>1, <3>1, <3>2
    <2>2. CASE 1 \notin Outputs(c)
        BY <1>1, <1>2, <2>2
    <2> QED
        BY <2>1, <2>2
<1>6. ASSUME NEW k \in Outputs(c), k # 1 PROVE d.seen < c.queue[k].from
    <2>1. CASE 1 \in Outputs(c)
        <3>1. 1 < k
            BY <1>2, <1>6
        <3> QED
            BY <1>4, <1>5, <2>1, <3>1
    <2>2. CASE 1 \notin Outputs(c)
        BY <1>4, <1>5, <2>2
    <2> QED
        BY <2>1, <2>2
<1>7. Sound(d, m)
    <2>1. ASSUME NEW k \in Outputs(d), NEW j \in Outputs(d), j < k
          PROVE  d.queue[j].to < d.queue[k].from
        <3>1. j + 1 \in Outputs(c) /\ k + 1 \in Outputs(c) /\ j + 1 < k + 1
            BY <1>3, <2>1
        <3>2. c.queue[j + 1].to < c.queue[k + 1].from
            BY <1>4, <3>1
        <3> QED
            BY <1>3, <3>2
    <2>2. ASSUME NEW k \in Outputs(d)
          PROVE  /\ 0 < d.queue[k].from /\ d.queue[k].from <= d.queue[k].to /\ d.queue[k].to <= m
                 /\ d.seen < d.queue[k].from
        <3>1. k + 1 \in Outputs(c) /\ k + 1 # 1 /\ d.queue[k] = c.queue[k + 1]
            <4>1. k \in Nat /\ k + 1 \in Outputs(c) /\ d.queue[k] = c.queue[k + 1]
                BY <1>3
            <4>2. k \in Outputs(d) => k # 0
                <5>1. Outputs(d) \subseteq 1 .. Len(d.queue)
                    BY <1>1, OutputsProperties
                <5> QED
                    BY <1>2, <1>3, <5>1
            <4> QED
                BY <4>1, <4>2
        <3> QED
            BY <1>4, <1>6, <3>1
    <2>3. d.seen <= m
        BY <1>4, <1>5
    <2> QED
        BY <2>1, <2>2, <2>3 DEF Sound
(* Who has begun after the step had begun before the same frame. *)
<1>8. ASSUME NEW k \in Nat, k >= 1, Begun(d, k) PROVE Begun(c, k + 1)
    <2>1. CASE d.seen # 0
        <3>1. CASE 1 \in Outputs(c)
            <4>1. 1 < k + 1
                BY <1>8
            <4> QED
                BY <3>1, <4>1 DEF Begun
        <3>2. CASE 1 \notin Outputs(c)
            BY <1>5, <2>1, <3>2 DEF Begun
        <3> QED
            BY <3>1, <3>2
    <2>2. CASE \E j \in Outputs(d) : j < k
        <3>1. PICK j \in Outputs(d) : j < k
            BY <2>2
        <3>2. j + 1 \in Outputs(c) /\ j + 1 < k + 1
            BY <1>3, <3>1
        <3> QED
            BY <3>2 DEF Begun
    <2> QED
        BY <1>8, <2>1, <2>2 DEF Begun
(* What ended before it still does, unless it lies behind what was seen. *)
<1>9. ASSUME NEW k \in Nat, k >= 1, NEW n \in Int, d.seen <= n, Ends(c, k + 1, n)
      PROVE  Ends(d, k, n)
    <2>1. CASE c.seen = n
        <3>1. 1 \notin Outputs(c)
            BY <1>2, <1>5, <1>9, <2>1
        <3> QED
            BY <1>5, <2>1, <3>1 DEF Ends
    <2>2. CASE \E j \in Outputs(c) : j < k + 1 /\ c.queue[j].to = n
        <3>1. PICK j \in Outputs(c) : j < k + 1 /\ c.queue[j].to = n
            BY <2>2
        <3>2. CASE j = 1
            <4>1. d.seen = n
                BY <1>5, <3>1, <3>2
            <4> QED
                BY <4>1 DEF Ends
        <3>3. CASE j # 1
            <4>1. j - 1 \in Outputs(d) /\ d.queue[j - 1].to = n
                BY <1>3, <3>1, <3>3
            <4>2. j - 1 < k
                BY <1>2, <3>1
            <4> QED
                BY <4>1, <4>2 DEF Ends
        <3> QED
            BY <3>2, <3>3
    <2> QED
        BY <1>9, <2>1, <2>2 DEF Ends
<1>10. Gapless(c) => Gapless(d)
    <2> SUFFICES ASSUME Gapless(c), ~d.lossy, NEW k \in Outputs(d), Begun(d, k)
                 PROVE  Ends(d, k, d.queue[k].from - 1)
        BY DEF Gapless
    <2>1. k \in Nat /\ k >= 1 /\ k + 1 \in Outputs(c) /\ k + 1 # 1 /\ d.queue[k] = c.queue[k + 1]
        <3>1. Outputs(d) \subseteq 1 .. Len(d.queue)
            BY <1>1, OutputsProperties
        <3>2. k \in Nat /\ k + 1 \in Outputs(c) /\ d.queue[k] = c.queue[k + 1]
            BY <1>3
        <3>3. k >= 1
            BY <1>2, <1>3, <3>1
        <3> QED
            BY <3>2, <3>3
    <2>2. Begun(c, k + 1)
        BY <1>8, <2>1
    <2>3. Ends(c, k + 1, c.queue[k + 1].from - 1)
        BY <1>1, <2>1, <2>2 DEF Gapless
    <2>4. d.seen < c.queue[k + 1].from /\ c.queue[k + 1].from \in Nat
        BY <1>2, <1>6, <2>1
    <2> DEFINE n == c.queue[k + 1].from - 1
    <2>5. n \in Int /\ d.seen <= n
        BY <1>2, <2>4
    <2>6. n = d.queue[k].from - 1
        BY <2>1
    <2> HIDE DEF n
    <2>7. Ends(d, k, n)
        BY <1>9, <2>1, <2>3, <2>5 DEF n
    <2> QED
        BY <2>6, <2>7
<1>11. CaughtUp(c, m) => CaughtUp(d, m)
    <2> SUFFICES ASSUME CaughtUp(c, m), Listening(d), Begun(d, Len(d.queue) + 1)
                 PROVE  Ends(d, Len(d.queue) + 1, m)
        BY DEF CaughtUp
    <2> DEFINE k == Len(d.queue) + 1
    <2>1. k \in Nat /\ k >= 1 /\ k + 1 = Len(c.queue) + 1
        BY <1>2, <1>3
    <2>2. Listening(c)
        BY <1>1 DEF Listening
    <2> HIDE DEF k
    <2>3. Begun(c, k + 1)
        BY <1>8, <2>1 DEF k
    <2>4. Ends(c, k + 1, m)
        BY <2>1, <2>2, <2>3 DEF CaughtUp
    <2>5. d.seen <= m
        BY <1>7 DEF Sound
    <2>6. Ends(d, k, m)
        BY <1>9, <2>1, <2>4, <2>5
    <2> QED
        BY <2>6 DEF k
<1> QED
    BY <1>7, <1>10, <1>11 DEF d

(* Order does not depend on phases, and what was lost asks for less.       *)
LEMMA SameOrder ==
    ASSUME NEW c \in Connection, NEW d, d.queue = c.queue, d.seen = c.seen,
           NEW m \in Nat, NEW n \in Nat, m <= n, Sound(c, m)
    PROVE  /\ Sound(d, n)
           /\ Gapless(c) /\ d.lossy = c.lossy => Gapless(d)
           /\ d.lossy => Gapless(d)
           /\ ~Listening(d) => CaughtUp(d, n)
           /\ CaughtUp(c, m) /\ m = n /\ d.lossy = c.lossy /\ d.phase = c.phase => CaughtUp(d, n)
<1>1. Outputs(d) = Outputs(c)
    BY DEF Outputs
<1>2. \A k \in Outputs(c) : c.queue[k].to \in Nat /\ c.seen \in Nat
    <2>1. /\ Outputs(c) \subseteq 1 .. Len(c.queue) /\ c.seen \in Nat
          /\ \A k \in 1 .. Len(c.queue) : c.queue[k].to \in Nat
        BY OutputsProperties
    <2> QED
        BY <2>1
<1>3. c.seen \in Nat
    BY OutputsProperties
<1>4. Sound(d, n)
    <2>1. ASSUME NEW k \in Outputs(d)
          PROVE  /\ 0 < d.queue[k].from /\ d.queue[k].from <= d.queue[k].to /\ d.queue[k].to <= n
                 /\ d.seen < d.queue[k].from
                 /\ \A j \in Outputs(d) : j < k => d.queue[j].to < d.queue[k].from
        <3>1. /\ 0 < c.queue[k].from /\ c.queue[k].from <= c.queue[k].to /\ c.queue[k].to <= m
              /\ c.seen < c.queue[k].from
              /\ \A j \in Outputs(c) : j < k => c.queue[j].to < c.queue[k].from
            BY <1>1 DEF Sound
        <3>2. c.queue[k].to <= n
            BY <1>1, <1>2, <3>1
        <3> QED
            BY <1>1, <3>1, <3>2
    <2>2. d.seen <= n
        BY <1>3 DEF Sound
    <2> QED
        BY <2>1, <2>2 DEF Sound
<1>5. \A k, i : (Ends(c, k, i) <=> Ends(d, k, i)) /\ (Begun(c, k) <=> Begun(d, k))
    BY <1>1 DEF Ends, Begun
<1>6. Gapless(c) /\ d.lossy = c.lossy => Gapless(d)
    BY <1>1, <1>5 DEF Gapless
<1>7. CaughtUp(c, m) /\ m = n /\ d.lossy = c.lossy /\ d.phase = c.phase => CaughtUp(d, n)
    BY <1>5 DEF CaughtUp, Listening
<1> QED
    BY <1>4, <1>6, <1>7 DEF Gapless, CaughtUp

(* What the callback of an open viewer does to the order of its queue.     *)
LEMMA OnDataOrder ==
    ASSUME NEW c \in Connection, Len(c.queue) <= QueueMax, c.phase = "open",
           NEW f \in Frame, NEW m \in Nat, NEW n \in Nat,
           f.kind = "out" => m < n /\ f.from = m + 1 /\ f.to = n,
           f.kind # "out" => m = n,
           Sound(c, m), Gapless(c), CaughtUp(c, m)
    PROVE  Sound(OnData(c, f), n) /\ Gapless(OnData(c, f)) /\ CaughtUp(OnData(c, f), n)
<1> DEFINE d == OnData(c, f)
<1>1. /\ d \in Connection /\ d.seen = c.seen /\ d.phase = c.phase
      /\ \/ Len(c.queue) < QueueMax /\ d.queue = Append(c.queue, f) /\ d.lossy = c.lossy
         \/ Len(c.queue) = QueueMax /\ d.queue = Append(Tail(c.queue), f) /\ d.lossy = TRUE
    BY OnDataProperties
<1> HIDE DEF d
<1>2. CASE Len(c.queue) < QueueMax /\ d.queue = Append(c.queue, f) /\ d.lossy = c.lossy
    <2>1. d.lossy \/ (Gapless(c) /\ CaughtUp(c, m) /\ Listening(c))
        BY <1>2 DEF Listening
    <2>2. CASE f.kind = "out"
        <3>1. m < n /\ f.from = m + 1 /\ f.to = n /\ d.queue = Append(c.queue, f)
            BY <1>2, <2>2
        <3>2. /\ Sound(d, n)
              /\ d.lossy \/ (Gapless(c) /\ CaughtUp(c, m) /\ Listening(c)) => Gapless(d) /\ CaughtUp(d, n)
            BY <1>1, <2>2, <3>1, PutOutput
        <3> QED
            BY <2>1, <3>2 DEF d
    <2>3. CASE f.kind # "out"
        <3>1. /\ Sound(d, m)
              /\ d.lossy \/ (Gapless(c) /\ d.lossy = c.lossy) => Gapless(d)
              /\ d.lossy \/ (CaughtUp(c, m) /\ Listening(c)) => CaughtUp(d, m)
            BY <1>1, <1>2, <2>3, PutPlain
        <3> QED
            BY <1>2, <2>1, <2>3, <3>1 DEF d
    <2> QED
        BY <2>2, <2>3
<1>3. CASE Len(c.queue) = QueueMax /\ d.queue = Append(Tail(c.queue), f) /\ d.lossy = TRUE
    <2> DEFINE e == [c EXCEPT !.queue = Tail(c.queue), !.lossy = TRUE]
    <2>1. c.queue \in Seq(Frame) /\ c.queue # <<>>
        BY <1>3, Bounds, EmptySeq, OutputsProperties
    <2>2. Tail(c.queue) \in Seq(Frame)
        BY <2>1, TailProperties
    <2>3. e \in Connection /\ e.queue = Tail(c.queue) /\ e.seen = c.seen
        BY <2>2, Requeued
    <2> HIDE DEF e
    <2>4. Sound(e, m)
        BY <2>1, <2>3, DropSound
    <2>5. d.queue = Append(e.queue, f) /\ d.seen = e.seen
        BY <1>1, <1>3, <2>3
    <2>6. CASE f.kind = "out"
        <3>1. m < n /\ f.from = m + 1 /\ f.to = n
            BY <2>6
        <3>2. /\ Sound(d, n)
              /\ d.lossy \/ (Gapless(e) /\ CaughtUp(e, m) /\ Listening(e)) => Gapless(d) /\ CaughtUp(d, n)
            BY <1>1, <2>3, <2>4, <2>5, <2>6, <3>1, PutOutput
        <3> QED
            BY <1>3, <3>2 DEF d
    <2>7. CASE f.kind # "out"
        <3>1. /\ Sound(d, m)
              /\ d.lossy \/ (Gapless(e) /\ d.lossy = e.lossy) => Gapless(d)
              /\ d.lossy \/ (CaughtUp(e, m) /\ Listening(e)) => CaughtUp(d, m)
            BY <1>1, <2>3, <2>4, <2>5, <2>7, PutPlain
        <3> QED
            BY <1>3, <2>7, <3>1 DEF d
    <2> QED
        BY <2>6, <2>7
<1> QED
    BY <1>1, <1>2, <1>3

-----------------------------------------------------------------------------
(* The scrollback.                                                         *)

(* The frames of the scrollback continue one another up to chunk m.        *)
Chain(s, m) ==
    /\ \A k \in 1 .. Len(s) :
          /\ s[k].kind = "out" /\ 0 < s[k].from /\ s[k].from <= s[k].to /\ s[k].to <= m
          /\ k # 1 => s[k].from = s[k - 1].to + 1
          /\ \A j \in 1 .. Len(s) : j < k => s[j].to < s[k].from
    /\ Len(s) # 0 => s[Len(s)].to = m

(* The next frame continues it. *)
LEMMA ChainAppend ==
    ASSUME NEW s \in Seq(Frame), NEW m \in Nat, NEW n \in Nat, m < n,
           NEW f \in Frame, f.kind = "out", f.from = m + 1, f.to = n, Chain(s, m)
    PROVE  Chain(Append(s, f), n)
<1> DEFINE r == Append(s, f)
           l == Len(s) + 1
<1>1. Len(s) \in Nat /\ \A k \in 1 .. Len(s) : s[k].to \in Nat
    <2>1. Len(s) \in Nat /\ \A k \in 1 .. Len(s) : s[k] \in Frame
        BY LenProperties, ElementOfSeq
    <2> QED
        BY <2>1 DEF Frame
<1>2. Len(r) = l /\ r[l] = f /\ \A k \in 1 .. Len(s) : r[k] = s[k]
    BY AppendProperties
<1>3. l \in Nat /\ \A k \in 1 .. l : k = l \/ k \in 1 .. Len(s)
    <2>1. Len(s) \in Nat
        BY <1>1
    <2> QED
        BY <2>1
<1>4. \A k \in 1 .. Len(s) :
         /\ s[k].kind = "out" /\ 0 < s[k].from /\ s[k].from <= s[k].to /\ s[k].to <= m
         /\ k # 1 => s[k].from = s[k - 1].to + 1
         /\ \A j \in 1 .. Len(s) : j < k => s[j].to < s[k].from
    BY DEF Chain
<1>5. Len(s) # 0 => s[Len(s)].to = m
    BY DEF Chain
<1> HIDE DEF r
<1>6. ASSUME NEW k \in 1 .. Len(r)
      PROVE  /\ r[k].kind = "out" /\ 0 < r[k].from /\ r[k].from <= r[k].to /\ r[k].to <= n
             /\ k # 1 => r[k].from = r[k - 1].to + 1
             /\ \A j \in 1 .. Len(r) : j < k => r[j].to < r[k].from
    <2>1. CASE k = l
        <3>1. r[k].kind = "out" /\ r[k].from = m + 1 /\ r[k].to = n
            BY <1>2, <2>1
        <3>2. ASSUME k # 1 PROVE r[k].from = r[k - 1].to + 1
            <4>1. k - 1 = Len(s) /\ Len(s) # 0 /\ Len(s) \in 1 .. Len(s)
                BY <1>1, <2>1, <3>2
            <4>2. r[k - 1] = s[Len(s)]
                BY <1>2, <4>1
            <4> QED
                BY <1>5, <3>1, <4>1, <4>2
        <3>3. ASSUME NEW j \in 1 .. Len(r), j < k PROVE r[j].to < r[k].from
            <4>1. j \in 1 .. Len(s)
                BY <1>1, <1>2, <2>1, <3>3
            <4>2. r[j].to \in Nat /\ r[j].to <= m
                BY <1>1, <1>2, <1>4, <4>1
            <4> QED
                BY <3>1, <4>2
        <3> QED
            BY <3>1, <3>2, <3>3
    <2>2. CASE k \in 1 .. Len(s)
        <3>1. r[k] = s[k]
            BY <1>2, <2>2
        <3>2. /\ s[k].kind = "out" /\ 0 < s[k].from /\ s[k].from <= s[k].to /\ s[k].to <= n
            BY <1>1, <1>4, <2>2
        <3>3. ASSUME k # 1 PROVE r[k].from = r[k - 1].to + 1
            <4>1. k - 1 \in 1 .. Len(s)
                BY <1>1, <2>2, <3>3
            <4>2. r[k - 1] = s[k - 1]
                BY <1>2, <4>1
            <4> QED
                BY <1>4, <2>2, <3>1, <3>3, <4>2
        <3>4. ASSUME NEW j \in 1 .. Len(r), j < k PROVE r[j].to < r[k].from
            <4>1. j \in 1 .. Len(s)
                BY <1>1, <1>2, <2>2, <3>4
            <4> QED
                BY <1>2, <1>4, <2>2, <3>1, <3>4, <4>1
        <3> QED
            BY <3>1, <3>2, <3>3, <3>4
    <2> QED
        BY <1>2, <1>3, <2>1, <2>2
<1>7. r[Len(r)].to = n
    BY <1>2
<1> QED
    BY <1>6, <1>7 DEF Chain, r

(* So do the newest of its frames among themselves.                        *)
LEMMA ChainLast ==
    ASSUME NEW s \in Seq(Frame), NEW m \in Nat, NEW z \in Nat, z > 0, Chain(s, m)
    PROVE  Chain(Last(s, z), m)
<1> DEFINE r == Last(s, z)
           o == Len(s) - Len(r)
<1>1. /\ r \in Seq(Frame)
      /\ Len(r) = IF Len(s) > z THEN z ELSE Len(s)
      /\ \A i \in 1 .. Len(r) : r[i] = s[i + o]
    BY LastProperties
<1>2. Len(s) \in Nat
    BY LenProperties
<1> HIDE DEF r
<1>3. /\ Len(r) \in Nat /\ o \in Nat /\ Len(r) + o = Len(s)
      /\ Len(r) = 0 <=> Len(s) = 0
    BY <1>1, <1>2
<1> HIDE DEF o
<1>4. \A i \in 1 .. Len(r) : i + o \in 1 .. Len(s) /\ r[i] = s[i + o]
    BY <1>1, <1>2, <1>3
<1>5. ASSUME NEW k \in 1 .. Len(r)
      PROVE  /\ r[k].kind = "out" /\ 0 < r[k].from /\ r[k].from <= r[k].to /\ r[k].to <= m
             /\ k # 1 => r[k].from = r[k - 1].to + 1
             /\ \A j \in 1 .. Len(r) : j < k => r[j].to < r[k].from
    <2>1. k + o \in 1 .. Len(s) /\ r[k] = s[k + o]
        BY <1>4
    <2>2. /\ s[k + o].kind = "out" /\ 0 < s[k + o].from /\ s[k + o].from <= s[k + o].to
          /\ s[k + o].to <= m
        BY <2>1 DEF Chain
    <2>3. ASSUME k # 1 PROVE r[k].from = r[k - 1].to + 1
        <3>1. k - 1 \in 1 .. Len(r) /\ k + o # 1 /\ (k - 1) + o = (k + o) - 1
            BY <1>3, <2>3
        <3>2. r[k - 1] = s[(k - 1) + o]
            BY <1>4, <3>1
        <3>3. s[k + o].from = s[(k + o) - 1].to + 1
            BY <2>1, <3>1 DEF Chain
        <3> QED
            BY <2>1, <3>1, <3>2, <3>3
    <2>4. ASSUME NEW j \in 1 .. Len(r), j < k PROVE r[j].to < r[k].from
        <3>1. j + o \in 1 .. Len(s) /\ r[j] = s[j + o] /\ j + o < k + o
            BY <1>3, <1>4, <2>4
        <3>2. s[j + o].to < s[k + o].from
            BY <2>1, <3>1 DEF Chain
        <3> QED
            BY <2>1, <3>1, <3>2
    <2> QED
        BY <2>1, <2>2, <2>3, <2>4
<1>6. Len(r) # 0 => r[Len(r)].to = m
    <2> SUFFICES ASSUME Len(r) # 0 PROVE r[Len(r)].to = m
        OBVIOUS
    <2>1. Len(r) \in 1 .. Len(r)
        BY <1>3
    <2>2. r[Len(r)] = s[Len(s)]
        BY <1>3, <1>4, <2>1
    <2> QED
        BY <1>3, <2>2 DEF Chain
<1> QED
    BY <1>5, <1>6 DEF Chain, r

(* A viewer that has got nothing and is given such frames gets them in     *)
(* order, and what is broadcast next continues them.                       *)
LEMMA Replayed ==
    ASSUME NEW c \in Connection, NEW m \in Nat, Chain(c.queue, m), c.seen = 0
    PROVE  Sound(c, m) /\ Gapless(c) /\ CaughtUp(c, m)
<1>1. /\ Len(c.queue) \in Nat /\ Outputs(c) \subseteq 1 .. Len(c.queue)
      /\ \A k \in 1 .. Len(c.queue) : c.queue[k].from \in Nat /\ c.queue[k].to \in Nat
      /\ Outputs(c) = {k \in 1 .. Len(c.queue) : c.queue[k].kind = "out"}
    BY OutputsProperties
<1>2. \A k \in 1 .. Len(c.queue) :
         /\ 0 < c.queue[k].from /\ c.queue[k].from <= c.queue[k].to /\ c.queue[k].to <= m
         /\ c.queue[k].kind = "out"
    BY DEF Chain
<1>3. /\ \A k \in 1 .. Len(c.queue) : k # 1 => c.queue[k].from = c.queue[k - 1].to + 1
      /\ \A k, j \in 1 .. Len(c.queue) : j < k => c.queue[j].to < c.queue[k].from
    BY DEF Chain
<1>4. Outputs(c) = 1 .. Len(c.queue)
    BY <1>1, <1>2
<1>5. Sound(c, m)
    BY <1>2, <1>3, <1>4 DEF Sound
<1>6. ASSUME NEW k \in Outputs(c), Begun(c, k) PROVE Ends(c, k, c.queue[k].from - 1)
    <2>1. PICK j \in Outputs(c) : j < k
        BY <1>6 DEF Begun
    <2>2. k # 1 /\ k - 1 \in 1 .. Len(c.queue) /\ k - 1 < k
        BY <1>1, <1>4, <2>1
    <2>3. c.queue[k - 1].to = c.queue[k].from - 1
        <3>1. c.queue[k].from = c.queue[k - 1].to + 1
            BY <1>3, <1>4, <2>2
        <3>2. c.queue[k].from \in Nat /\ c.queue[k - 1].to \in Nat
            BY <1>1, <1>4, <2>2
        <3> QED
            BY <3>1, <3>2
    <2> QED
        BY <1>4, <2>2, <2>3 DEF Ends
<1>7. ASSUME Begun(c, Len(c.queue) + 1) PROVE Ends(c, Len(c.queue) + 1, m)
    <2>1. PICK j \in Outputs(c) : j < Len(c.queue) + 1
        BY <1>7 DEF Begun
    <2>2. Len(c.queue) # 0 /\ Len(c.queue) \in 1 .. Len(c.queue) /\ Len(c.queue) < Len(c.queue) + 1
        BY <1>1, <1>4, <2>1
    <2>3. c.queue[Len(c.queue)].to = m
        BY <2>2 DEF Chain
    <2> QED
        BY <1>4, <2>2, <2>3 DEF Ends
<1> QED
    BY <1>5, <1>6, <1>7 DEF Gapless, CaughtUp

-----------------------------------------------------------------------------
(* Steps keep the order.                                                   *)

Flow ==
    /\ Chain(scrollback, flushed)
    /\ \A w \in Viewers : /\ Sound(conn[w], flushed) /\ Gapless(conn[w])
                          /\ alive => CaughtUp(conn[w], flushed)

(* To begin with there is no output, in order or out of it.                *)
LEMMA InitFlow == Init => Flow
<1> SUFFICES ASSUME Init PROVE Flow
    OBVIOUS
<1>1. <<>> \in Seq(Frame) /\ Len(<<>>) = 0
    BY EmptySeq
<1>2. Chain(<<>>, 0)
    BY <1>1 DEF Chain
<1>3. Out \in Connection /\ Out.queue = <<>> /\ Out.seen = 0
    BY OutProperties
<1>4. Sound(Out, 0) /\ Gapless(Out) /\ CaughtUp(Out, 0)
    BY <1>2, <1>3, Replayed
<1> QED
    BY <1>2, <1>4 DEF Init, Flow

(* The batch is the output that was read since the last flush.             *)
LEMMA BatchFrame ==
    ASSUME TypeOK, NEW n \in Nat
    PROVE  /\ Batch(n) \in Frame /\ Batch(n).kind = "out"
           /\ Batch(n).from = flushed + 1 /\ Batch(n).to = n
<1>1. flushed + 1 \in Nat
    BY DEF TypeOK
<1> QED
    BY <1>1, Frames DEF Batch

(* A broadcast of the batch keeps the order of every viewer's queue.       *)
LEMMA BroadcastOrder ==
    ASSUME TypeOK, Phases, Flow, alive, NEW n \in Nat, flushed < n, NEW w \in Viewers
    PROVE  /\ Sound(Broadcast(conn, Batch(n))[w], n) /\ Gapless(Broadcast(conn, Batch(n))[w])
           /\ CaughtUp(Broadcast(conn, Batch(n))[w], n)
<1> DEFINE d == Broadcast(conn, Batch(n))[w]
           f == Batch(n)
<1>1. /\ f \in Frame /\ f.kind = "out" /\ f.from = flushed + 1 /\ f.to = n
      /\ flushed \in Nat /\ flushed <= n
    BY BatchFrame DEF TypeOK
<1> HIDE DEF f
<1>2. conn \in [Viewers -> Connection] /\ \A v \in Viewers : Len(conn[v].queue) <= QueueMax
    BY DEF TypeOK
<1>3. /\ w \in subs => d = OnData(conn[w], f)
      /\ w \notin subs /\ conn[w].phase = "marking" => d = [conn[w] EXCEPT !.lossy = TRUE]
      /\ w \notin subs /\ conn[w].phase # "marking" => d = conn[w]
    BY <1>1, <1>2, BroadcastProperties DEF f
<1> HIDE DEF d
<1>4. /\ Sound(conn[w], flushed) /\ Gapless(conn[w]) /\ CaughtUp(conn[w], flushed)
      /\ conn[w] \in Connection /\ Len(conn[w].queue) <= QueueMax
    BY <1>2 DEF Flow
<1>5. (w \in subs => conn[w].phase = "open") /\ (conn[w].phase = "open" => w \in subs)
    BY DEF Phases
<1>6. CASE w \in subs
    <2>1. /\ Sound(OnData(conn[w], f), n) /\ Gapless(OnData(conn[w], f))
          /\ CaughtUp(OnData(conn[w], f), n)
        BY <1>1, <1>4, <1>5, <1>6, OnDataOrder
    <2> QED
        BY <1>3, <1>6, <2>1 DEF d
<1>7. CASE w \notin subs /\ conn[w].phase = "marking"
    <2>1. d.queue = conn[w].queue /\ d.seen = conn[w].seen /\ d.lossy
        BY <1>3, <1>4, <1>7 DEF Connection
    <2>2. Sound(d, n) /\ Gapless(d) /\ (~Listening(d) => CaughtUp(d, n))
        BY <1>1, <1>4, <2>1, SameOrder
    <2> QED
        BY <2>1, <2>2 DEF Listening, d
<1>8. CASE w \notin subs /\ conn[w].phase # "marking"
    <2>1. d = conn[w]
        BY <1>3, <1>8
    <2>2. ~Listening(d)
        BY <1>5, <1>8, <2>1 DEF Listening
    <2>3. Sound(d, n) /\ Gapless(d) /\ (~Listening(d) => CaughtUp(d, n))
        BY <1>1, <1>4, <2>1, SameOrder
    <2> QED
        BY <2>2, <2>3 DEF d
<1> QED
    BY <1>6, <1>7, <1>8

(* A flush does. *)
LEMMA FlushFlow ==
    ASSUME TypeOK, Phases, Flow, alive, NEW n \in Nat, flushed < n, Flush(n)
    PROVE  Flow'
<1>1. /\ flushed' = n /\ conn' = Broadcast(conn, Batch(n))
      /\ scrollback' = Last(Append(scrollback, Batch(n)), MaxScroll)
    BY DEF Flush
<1>2. ASSUME NEW w \in Viewers
      PROVE  Sound(conn'[w], flushed') /\ Gapless(conn'[w]) /\ CaughtUp(conn'[w], flushed')
    BY <1>1, BroadcastOrder
<1>3. /\ Batch(n) \in Frame /\ Batch(n).kind = "out"
      /\ Batch(n).from = flushed + 1 /\ Batch(n).to = n
    BY BatchFrame
<1>4. scrollback \in Seq(Frame) /\ flushed \in Nat /\ Chain(scrollback, flushed)
    BY DEF TypeOK, Flow
<1> DEFINE s == Append(scrollback, Batch(n))
<1>5. s \in Seq(Frame)
    BY <1>3, <1>4, AppendProperties
<1>6. Chain(s, n)
    BY <1>3, <1>4, ChainAppend
<1> HIDE DEF s
<1>7. Chain(Last(s, MaxScroll), n)
    BY <1>5, <1>6, Bounds, ChainLast
<1>8. Chain(scrollback', flushed')
    BY <1>1, <1>7 DEF s
<1> QED
    BY <1>2, <1>8 DEF Flow

(* The manager appends to every queue what it appends to the buffer.       *)
LEMMA ManagerFlow ==
    ASSUME TypeOK, Phases, Flow, Manager
    PROVE  Flow'
<1>1. CASE OnReadable
    <2>1. read' \in Nat /\ flushed < read' /\ alive /\ alive' = alive
        <3>1. alive /\ alive' = alive /\ read' = read + 1
            BY <1>1 DEF OnReadable
        <3>2. read \in Nat /\ flushed \in Nat /\ flushed <= read
            BY Typed
        <3> QED
            BY <3>1, <3>2
    <2>2. CASE Flush(read')
        BY <2>1, <2>2, FlushFlow
    <2>3. CASE UNCHANGED <<flushed, scrollback, conn, requesters, reader>>
        BY <2>1, <2>3 DEF Flow
    <2> QED
        BY <1>1, <2>2, <2>3 DEF OnReadable
<1>2. CASE FlushTimer
    <2>1. read \in Nat /\ Flush(read) /\ alive /\ flushed < read
        BY <1>2 DEF FlushTimer, TypeOK
    <2> QED
        BY <2>1, FlushFlow
<1>3. SessionGone => Chain(scrollback', flushed') /\ alive' = FALSE
    <2>1. <<>> \in Seq(Frame) /\ Len(<<>>) = 0
        BY EmptySeq
    <2>2. SessionGone => scrollback' = <<>> /\ alive' = FALSE
        BY DEF SessionGone
    <2> QED
        BY <2>1, <2>2 DEF Chain
<1>4. CASE EndOfFile
    <2>1. SessionGone /\ flushed' = read /\ alive
        BY <1>4 DEF EndOfFile
    <2>2. ASSUME NEW w \in Viewers PROVE Sound(conn'[w], read) /\ Gapless(conn'[w])
        <3>1. /\ w \in subs => conn'[w] = OnData(Rest[w], Exit)
              /\ w \notin subs => conn'[w] = Rest[w]
              /\ Rest[w] \in Connection /\ Len(Rest[w].queue) <= QueueMax
              /\ Rest[w].phase = conn[w].phase
            BY <1>4, EndStep
        <3>2. /\ read \in Nat /\ flushed \in Nat /\ flushed <= read
              /\ (w \in subs => conn[w].phase = "open")
            BY Typed DEF Phases
        <3>3. Sound(Rest[w], read) /\ Gapless(Rest[w]) /\ CaughtUp(Rest[w], read)
            <4>1. CASE flushed < read
                <5>1. Rest = Broadcast(conn, Batch(read))
                    BY <4>1 DEF Rest
                <5>2. /\ Sound(Broadcast(conn, Batch(read))[w], read)
                      /\ Gapless(Broadcast(conn, Batch(read))[w])
                      /\ CaughtUp(Broadcast(conn, Batch(read))[w], read)
                    BY <2>1, <3>2, <4>1, BroadcastOrder
                <5> QED
                    BY <5>1, <5>2
            <4>2. CASE ~(flushed < read)
                <5>1. Rest = conn /\ read = flushed
                    BY <3>2, <4>2 DEF Rest
                <5> QED
                    BY <2>1, <5>1 DEF Flow
            <4> QED
                BY <4>1, <4>2
        <3>4. CASE w \in subs
            <4>1. Exit \in Frame /\ Exit.kind # "out"
                BY Frames
            <4>2. Sound(OnData(Rest[w], Exit), read) /\ Gapless(OnData(Rest[w], Exit))
                BY <3>1, <3>2, <3>3, <3>4, <4>1, OnDataOrder
            <4> QED
                BY <3>1, <3>4, <4>2
        <3>5. CASE w \notin subs
            BY <3>1, <3>3, <3>5
        <3> QED
            BY <3>4, <3>5
    <2> QED
        BY <1>3, <2>1, <2>2 DEF Flow
<1>5. CASE DestroySession
    <2>1. SessionGone /\ conn' = conn /\ flushed' = flushed
        BY <1>5 DEF DestroySession
    <2> QED
        BY <1>3, <2>1 DEF Flow
<1> QED
    BY <1>1, <1>2, <1>4, <1>5 DEF Manager

(* A viewer gets a snapshot and then, from its queue, what followed it.    *)
LEMMA ViewerFlow ==
    ASSUME TypeOK, Phases, Flow, NEW w \in Viewers,
           \/ Connect(w) \/ Leave(w) \/ Handler(w) \/ SendWorker(w) \/ SendFails(w)
           \/ RenderPause(w) \/ RenderResume(w)
    PROVE  Flow'
<1>0. /\ alive' = alive /\ flushed' = flushed /\ scrollback' = scrollback
      /\ conn[w] \in Connection /\ flushed \in Nat /\ flushed <= flushed
      /\ Sound(conn[w], flushed) /\ Gapless(conn[w]) /\ (alive => CaughtUp(conn[w], flushed))
      /\ PhaseOK(conn[w])
    BY DEF Connect, Leave, Handler, Replay, PutEnd, JoinFails, CleanUp, SendWorker, SendFails,
           RenderPause, RenderResume, TypeOK, Flow, Phases
(* The viewer's queue is the only one the step can touch. *)
<1>1. ASSUME Others(w), Sound(conn'[w], flushed), Gapless(conn'[w]),
             alive => CaughtUp(conn'[w], flushed)
      PROVE  Flow'
    <2>1. ASSUME NEW v \in Viewers
          PROVE  /\ Sound(conn'[v], flushed) /\ Gapless(conn'[v])
                 /\ alive => CaughtUp(conn'[v], flushed)
        <3>1. CASE v = w
            BY <1>1, <3>1
        <3>2. CASE v # w
            BY <1>1, <3>2 DEF Others, Flow
        <3> QED
            BY <3>1, <3>2
    <2>2. Chain(scrollback, flushed)
        BY DEF Flow
    <2> QED
        BY <1>0, <2>1, <2>2 DEF Flow
<1>2. ASSUME Connect(w) PROVE Flow'
    <2>1. /\ Others(w) /\ conn'[w].phase = "joining" /\ conn'[w].queue = conn[w].queue
          /\ conn'[w].seen = conn[w].seen /\ conn'[w].lossy = conn[w].lossy
        BY <1>2, ConnectStep
    <2>2. ~Listening(conn'[w])
        BY <2>1 DEF Listening
    <2>3. /\ Sound(conn'[w], flushed)
          /\ Gapless(conn[w]) /\ conn'[w].lossy = conn[w].lossy => Gapless(conn'[w])
          /\ ~Listening(conn'[w]) => CaughtUp(conn'[w], flushed)
        BY <1>0, <2>1, SameOrder
    <2> QED
        BY <1>0, <1>1, <2>1, <2>2, <2>3
<1>3. ASSUME Leave(w) \/ JoinFails(w) PROVE Flow'
    <2>1. Others(w) /\ conn'[w] = Out
        BY <1>3, Leaving, CleanUpStep
    <2>2. <<>> \in Seq(Frame) /\ Len(<<>>) = 0
        BY EmptySeq
    <2>3. Out \in Connection /\ Chain(Out.queue, flushed) /\ Out.seen = 0
        BY <2>2, OutProperties DEF Chain
    <2>4. Sound(Out, flushed) /\ Gapless(Out) /\ CaughtUp(Out, flushed)
        BY <1>0, <2>3, Replayed
    <2> QED
        BY <1>1, <2>1, <2>4
<1>4. ASSUME Replay(w) PROVE Flow'
    <2> DEFINE q == Last(scrollback, QueueMax)
               d == conn'[w]
               e == [d EXCEPT !.queue = q, !.lossy = d.lossy]
    <2>1. /\ Others(w) /\ Connected' /\ d.seen = conn[w].seen /\ q \in Seq(Frame)
          /\ \/ d.queue = Append(q, End) /\ d.phase = "open"
             \/ d.queue = q /\ d.phase = "marking"
        BY <1>4, ReplayStep
    <2>2. d \in Connection
        BY <2>1 DEF Connected
    <2>3. d.seen = 0
        BY <1>0, <1>4, <2>1 DEF Replay, PhaseOK
    <2>4. Chain(q, flushed)
        <3>1. scrollback \in Seq(Frame) /\ Chain(scrollback, flushed)
            BY DEF TypeOK, Flow
        <3> QED
            BY <1>0, <3>1, Bounds, ChainLast
    <2> HIDE DEF q, d
    <2>5. CASE d.queue = q
        <3>1. Sound(d, flushed) /\ Gapless(d) /\ CaughtUp(d, flushed)
            BY <1>0, <2>2, <2>3, <2>4, <2>5, Replayed
        <3> QED
            BY <1>1, <2>1, <3>1 DEF d
    <2>6. CASE d.queue = Append(q, End) /\ d.phase = "open"
        <3>1. d.lossy \in BOOLEAN
            BY <2>2 DEF Connection
        <3>2. e \in Connection /\ e.queue = q /\ e.seen = d.seen /\ e.phase = d.phase /\ e.lossy = d.lossy
            BY <2>1, <2>2, <3>1 DEF Connection
        <3> HIDE DEF e
        <3>3. Sound(e, flushed) /\ Gapless(e) /\ CaughtUp(e, flushed)
            BY <1>0, <2>3, <2>4, <3>2, Replayed
        <3>4. End \in Frame /\ End.kind # "out"
            BY Frames
        <3>5. d.queue = Append(e.queue, End) /\ d.seen = e.seen
            BY <2>6, <3>2
        <3>6. /\ Sound(d, flushed)
              /\ d.lossy \/ (Gapless(e) /\ d.lossy = e.lossy) => Gapless(d)
              /\ d.lossy \/ (CaughtUp(e, flushed) /\ Listening(e)) => CaughtUp(d, flushed)
            BY <1>0, <2>2, <3>2, <3>3, <3>4, <3>5, PutPlain
        <3>7. d.lossy \/ Listening(e)
            BY <2>6, <3>2 DEF Listening
        <3> QED
            BY <1>1, <2>1, <3>2, <3>3, <3>6, <3>7 DEF d
    <2> QED
        BY <2>1, <2>5, <2>6
<1>5. ASSUME PutEnd(w) PROVE Flow'
    <2> DEFINE c == conn[w]
               d == conn'[w]
    <2>1. /\ Others(w) /\ Connected' /\ d.queue = Append(c.queue, End)
          /\ d.seen = c.seen /\ d.lossy = c.lossy
        BY <1>5, PutEndStep
    <2>2. c \in Connection /\ d \in Connection /\ c.phase = "marking" /\ alive
        BY <1>0, <1>5, <2>1 DEF Connected, PutEnd
    <2>3. Sound(c, flushed) /\ Gapless(c) /\ CaughtUp(c, flushed)
        BY <1>0, <2>2
    <2> HIDE DEF c, d
    <2>4. End \in Frame /\ End.kind # "out"
        BY Frames
    <2>5. /\ Sound(d, flushed)
          /\ d.lossy \/ (Gapless(c) /\ d.lossy = c.lossy) => Gapless(d)
          /\ d.lossy \/ (CaughtUp(c, flushed) /\ Listening(c)) => CaughtUp(d, flushed)
        BY <1>0, <2>1, <2>2, <2>3, <2>4, PutPlain
    <2>6. d.lossy \/ Listening(c)
        BY <2>1, <2>2 DEF Listening
    <2> QED
        BY <1>1, <2>1, <2>3, <2>5, <2>6 DEF d
<1>6. ASSUME SendWorker(w) PROVE Flow'
    <2>1. Others(w) /\ conn'[w] = Sent(conn[w]) /\ conn[w].queue # <<>>
        BY <1>6, SendStep
    <2>2. /\ Sound(Sent(conn[w]), flushed)
          /\ Gapless(conn[w]) => Gapless(Sent(conn[w]))
          /\ CaughtUp(conn[w], flushed) => CaughtUp(Sent(conn[w]), flushed)
        BY <1>0, <2>1, SentOrder
    <2> QED
        BY <1>0, <1>1, <2>1, <2>2
<1>7. ASSUME SendFails(w) PROVE Flow'
    <2>1. /\ Others(w) /\ Connected' /\ conn[w].queue # <<>>
          /\ conn'[w].queue = Tail(conn[w].queue)
          /\ conn'[w].seen = conn[w].seen /\ conn'[w].lossy = TRUE
        BY <1>7, SendFailsStep
    <2>2. conn'[w] \in Connection
        BY <2>1 DEF Connected
    <2>3. Sound(conn'[w], flushed)
        BY <1>0, <2>1, <2>2, DropSound
    <2> QED
        BY <1>1, <2>1, <2>3 DEF Gapless, CaughtUp, Listening
<1>8. ASSUME RenderPause(w) \/ RenderResume(w) PROVE Flow'
    <2>1. /\ Others(w)
          /\ conn'[w].phase = conn[w].phase /\ conn'[w].queue = conn[w].queue
          /\ conn'[w].seen = conn[w].seen /\ conn'[w].lossy = conn[w].lossy
        BY <1>8, RenderStep
    <2>2. /\ Sound(conn'[w], flushed)
          /\ Gapless(conn[w]) /\ conn'[w].lossy = conn[w].lossy => Gapless(conn'[w])
          /\ CaughtUp(conn[w], flushed) /\ flushed = flushed /\ conn'[w].lossy = conn[w].lossy
                /\ conn'[w].phase = conn[w].phase => CaughtUp(conn'[w], flushed)
        BY <1>0, <2>1, SameOrder
    <2> QED
        BY <1>0, <1>1, <2>1, <2>2
<1> QED
    BY <1>2, <1>3, <1>4, <1>5, <1>6, <1>7, <1>8 DEF Handler

(* After every step what a viewer has and what is under way follow each    *)
(* other.                                                                  *)
LEMMA NextFlow == TypeOK /\ Phases /\ Flow /\ [Next]_vars => Flow'
<1> SUFFICES ASSUME TypeOK, Phases, Flow, [Next]_vars PROVE Flow'
    OBVIOUS
<1>1. CASE Manager
    BY <1>1, ManagerFlow
<1>2. ASSUME NEW w \in Viewers,
             \/ Connect(w) \/ Leave(w) \/ Handler(w) \/ SendWorker(w) \/ SendFails(w)
             \/ RenderPause(w) \/ RenderResume(w)
      PROVE  Flow'
    BY <1>2, ViewerFlow
<1>3. CASE UNCHANGED vars
    BY <1>3 DEF vars, Flow
<1> QED
    BY <1>1, <1>2, <1>3 DEF Next

(* Scrollback and live output reach a viewer through its queue in the      *)
(* order they were read and nothing twice, and without a gap unless its    *)
(* queue overflowed or it waited for room while a frame was flushed.       *)
THEOREM OutputInOrder == Spec => []InOrder
<1> DEFINE I == TypeOK /\ Phases /\ Flow
<1>1. Init => I
    BY InitTypes, InitPhases, InitFlow
<1>2. I /\ [Next]_vars => I'
    BY NextTypes, NextPhases, NextFlow
<1>3. I => InOrder
    <2> SUFFICES ASSUME I, NEW w \in Viewers, NEW k \in Outputs(conn[w])
                 PROVE  /\ \A n \in Before(conn[w], k) : conn[w].queue[k].from > n
                        /\ Before(conn[w], k) # {0} /\ ~conn[w].lossy
                              => conn[w].queue[k].from - 1 \in Before(conn[w], k)
        BY DEF InOrder
    <2>1. conn[w] \in Connection /\ flushed \in Nat /\ Sound(conn[w], flushed) /\ Gapless(conn[w])
        BY DEF TypeOK, Flow
    <2> QED
        BY <2>1, OrderOfOne
<1> QED
    BY <1>1, <1>2, <1>3, PTL DEF Spec
=============================================================================
