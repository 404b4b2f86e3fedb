------------------------------ MODULE PtyOutput ------------------------------
(***************************************************************************)
(* The way of a terminal's output from the PTY to the browsers: the reader *)
(* callback, batching and scrollback of server/pty_manager.py, and the     *)
(* send queue, replay and backpressure of the terminal WebSocket in        *)
(* server/routes/pty.py.                                                   *)
(*                                                                         *)
(* It is one PTY session and its viewers, the WebSockets that show it.     *)
(* All of it runs on one event loop: an action is what runs between two    *)
(* awaits.  What one os.read returns is a chunk, numbered from 1; a flush  *)
(* turns the chunks since the last flush into one frame.                   *)
(*                                                                         *)
(* Operators named X_... are slips of X: what a mistake in that code would *)
(* make of it.  No specification uses them; a property is checked to fail  *)
(* when one of them takes the place of X.                                  *)
(***************************************************************************)
EXTENDS Integers, Sequences, FiniteSets

CONSTANTS Viewers,      \* WebSockets
          High,         \* WS_QUEUE_HIGH
          Low,          \* WS_QUEUE_LOW
          MaxPerSession,\* WS_MAX_PER_SESSION
          MaxScroll,    \* how many frames the scrollback has room for
          MaxRead       \* bound: how many chunks the program writes

ASSUME PtyOutputAssumption ==
    /\ High \in Nat /\ High >= 2 /\ Low \in 1 .. High
    /\ MaxPerSession \in Nat \ {0}
    /\ MaxScroll \in Nat \ {0} /\ MaxRead \in Nat

QueueMax == 2 * High

VARIABLES alive,      \* the session is in PTYManager._sessions
          reader,     \* its descriptor is registered with the event loop
          requesters, \* _pause_requesters
          read,       \* how many chunks have been read
          flushed,    \* how many of them have been broadcast; the rest is _out_buf
          scrollback, \* the frames kept for viewers to come
          subs,       \* _subscribers
          conn,       \* conn[w]: the connection of viewer w
          count       \* ws_count_per_session

vars == <<alive, reader, requesters, read, flushed, scrollback, subs, conn, count>>

-----------------------------------------------------------------------------
(* A frame of output holds the chunks from .. to.  "end" is the mark that  *)
(* the replay of the scrollback is over, "exit" the message that the       *)
(* program has exited.                                                     *)
Frame == [kind : {"out", "end", "exit"}, from : Nat, to : Nat]

Output(from, to) == [kind |-> "out", from |-> from, to |-> to]
End  == [kind |-> "end", from |-> 0, to |-> 0]
Exit == [kind |-> "exit", from |-> 0, to |-> 0]

(* A connection is out; accepted and joining (the end-to-end handshake);   *)
(* marking, that is, waiting to put the end mark behind the scrollback; or *)
(* open.  seen, ended and lossy are history: the last chunk the viewer     *)
(* got, whether it got the end mark, and whether output was lost to it.    *)
Connection == [phase  : {"out", "joining", "marking", "open"},
               queue  : Seq(Frame),
               worker : BOOLEAN,   \* _send_worker has not met a failed send
               paused : BOOLEAN,   \* pty_paused
               render : BOOLEAN,   \* the browser has sent render_pause
               seen   : Nat, ended : BOOLEAN, lossy : BOOLEAN]

Out == [phase |-> "out", queue |-> <<>>, worker |-> TRUE, paused |-> FALSE,
        render |-> FALSE, seen |-> 0, ended |-> FALSE, lossy |-> FALSE]

Init ==
    /\ alive = TRUE /\ reader = TRUE /\ requesters = {}
    /\ read = 0 /\ flushed = 0
    /\ scrollback = <<>>
    /\ subs = {}
    /\ conn = [w \in Viewers |-> Out]
    /\ count = 0

Last(s, n) == IF Len(s) > n THEN SubSeq(s, Len(s) - n + 1, Len(s)) ELSE s

Lost(c) == [c EXCEPT !.lossy = TRUE]

-----------------------------------------------------------------------------
(* Backpressure.  Who pauses is a viewer's send queue or its renderer.     *)

(* resume_read, for some requesters at a time. *)
Resume(who) ==
    /\ requesters' = requesters \ who
    /\ reader' = (alive /\ (reader \/ requesters' = {}))

Put_NoLimit(c, f) == [c EXCEPT !.queue = Append(@, f)]

(* _on_data up to its pause: a frame is put, over the oldest if it must. *)
Put(c, f) ==
    IF Len(c.queue) < QueueMax
    THEN [c EXCEPT !.queue = Append(@, f)]
    ELSE Lost([c EXCEPT !.queue = Append(Tail(@), f)])

OnData_NoPause(c, f) == Put(c, f)

(* _on_data, as the queue sees it: above High it pauses, below Low it      *)
(* resumes.                                                                *)
OnData(c, f) ==
    LET d == Put(c, f)
    IN  [d EXCEPT !.paused = Len(d.queue) > High \/ (c.paused /\ Len(d.queue) >= Low)]

(* The connections after a frame was broadcast.  A viewer that is between  *)
(* its scrollback and its subscription misses the frame.                   *)
Broadcast(conns, f) ==
    [w \in Viewers |->
        IF w \in subs THEN OnData(conns[w], f)
        ELSE IF conns[w].phase = "marking" THEN Lost(conns[w]) ELSE conns[w]]

(* What the callbacks of a broadcast do to the reader, in whatever order.  *)
PauseOrResume ==
    LET pausing  == {w \in Viewers : ~conn[w].paused /\ conn'[w].paused}
        resuming == {w \in Viewers : conn[w].paused /\ ~conn'[w].paused}
    IN  /\ requesters' = (requesters \cup {<<w, "queue">> : w \in pausing})
                            \ {<<w, "queue">> : w \in resuming}
        /\ reader' = IF requesters' = {} THEN reader \/ resuming # {}
                                         ELSE reader /\ pausing = {}

-----------------------------------------------------------------------------
(* PTYManager. *)

(* What _out_buf holds when n chunks have been read. *)
Batch_NotCleared(n) == Output(1, n)

Batch(n) == Output(flushed + 1, n)

(* _flush_session, after which n chunks have been read. *)
Flush(n) ==
    LET f == Batch(n)
    IN  /\ flushed' = n
        /\ scrollback' = Last(Append(scrollback, f), MaxScroll)
        /\ conn' = Broadcast(conn, f)
        /\ PauseOrResume

(* _on_readable: a chunk joins the batch, which is flushed at once when it *)
(* has grown large enough.                                                 *)
OnReadable ==
    /\ alive /\ reader /\ read < MaxRead
    /\ read' = read + 1
    /\ \/ Flush(read')
       \/ UNCHANGED <<flushed, scrollback, conn, requesters, reader>>
    /\ UNCHANGED <<alive, subs, count>>

FlushTimer ==
    /\ alive /\ flushed < read
    /\ Flush(read)
    /\ UNCHANGED <<alive, read, subs, count>>

(* The session leaves _sessions, and its scrollback, its subscribers and   *)
(* its requesters go with it.                                              *)
SessionGone ==
    /\ alive' = FALSE /\ reader' = FALSE
    /\ requesters' = {} /\ scrollback' = <<>> /\ subs' = {}
    /\ UNCHANGED <<read, count>>

(* _on_readable at the end of file: the batch first, then the exit message. *)
EndOfFile ==
    /\ alive /\ reader
    /\ flushed' = read
    /\ LET rest == IF flushed < read THEN Broadcast(conn, Batch(read)) ELSE conn
       IN  conn' = [w \in Viewers |-> IF w \in subs THEN OnData(rest[w], Exit) ELSE rest[w]]
    /\ SessionGone

(* destroy_session: a request or the sweep of dead tmux sessions. *)
DestroySession ==
    /\ alive
    /\ SessionGone
    /\ UNCHANGED <<flushed, conn>>

-----------------------------------------------------------------------------
(* ws_terminal, viewer by viewer. *)

Connect(w) ==
    /\ conn[w].phase = "out" /\ alive /\ count < MaxPerSession
    /\ count' = count + 1
    /\ conn' = [conn EXCEPT ![w].phase = "joining"]
    /\ UNCHANGED <<alive, reader, requesters, read, flushed, scrollback, subs>>

(* The pauses a viewer that leaves takes back. *)
OwnPauses_QueueOnly(w) == IF conn[w].paused THEN {<<w, "queue">>} ELSE {}

OwnPauses(w) == {<<w, "render">>} \cup IF conn[w].paused THEN {<<w, "queue">>} ELSE {}

(* The finally clause. *)
CleanUp(w) ==
    /\ subs' = subs \ {w}
    /\ Resume(OwnPauses(w))
    /\ conn' = [conn EXCEPT ![w] = Out]
    /\ count' = IF count > 0 THEN count - 1 ELSE 0
    /\ UNCHANGED <<alive, read, flushed, scrollback>>

(* The handler awaits the browser, and learns that it has disconnected,    *)
(* that its handshake fails, that the heartbeat timed out, or that it has  *)
(* input for a session that is gone.                                       *)
Leave(w) == conn[w].phase \in {"joining", "open"} /\ CleanUp(w)

(* The viewer's queue has room for the end mark: it is put, and the viewer *)
(* subscribes, without another await.                                      *)
Open(w, queue) ==
    /\ conn' = [conn EXCEPT ![w].queue = Append(queue, End), ![w].phase = "open"]
    /\ subs' = subs \cup {w}

(* The scrollback is put into the empty queue, the newest frames if it     *)
(* does not fit.  When it fills the queue the mark has to wait.            *)
Replay(w) ==
    /\ conn[w].phase = "joining" /\ alive
    /\ LET queue == Last(scrollback, QueueMax)
       IN  IF Len(queue) < QueueMax
           THEN Open(w, queue)
           ELSE /\ conn' = [conn EXCEPT ![w].queue = queue, ![w].phase = "marking"]
                /\ UNCHANGED subs
    /\ UNCHANGED <<alive, reader, requesters, read, flushed, scrollback, count>>

PutEnd(w) ==
    /\ conn[w].phase = "marking" /\ alive
    /\ Len(conn[w].queue) < QueueMax
    /\ Open(w, conn[w].queue)
    /\ UNCHANGED <<alive, reader, requesters, read, flushed, scrollback, count>>

(* get_scrollback or subscribe raises: the session is gone. *)
JoinFails(w) ==
    /\ ~alive
    /\ \/ conn[w].phase = "joining"
       \/ conn[w].phase = "marking" /\ Len(conn[w].queue) < QueueMax
    /\ CleanUp(w)

(* _send_worker: the next frame goes out. *)
Sent(c) ==
    LET f == Head(c.queue)
    IN  [c EXCEPT !.queue = Tail(@),
                  !.seen  = IF f.kind = "out" THEN f.to ELSE @,
                  !.ended = (@ \/ f = End)]

SendWorker_AfterReplay(w) ==
    /\ conn[w].phase = "open" /\ conn[w].worker /\ conn[w].queue # <<>>
    /\ conn' = [conn EXCEPT ![w] = Sent(@)]
    /\ UNCHANGED <<alive, reader, requesters, read, flushed, scrollback, subs, count>>

SendWorker(w) ==
    /\ conn[w].worker /\ conn[w].queue # <<>>
    /\ conn' = [conn EXCEPT ![w] = Sent(@)]
    /\ UNCHANGED <<alive, reader, requesters, read, flushed, scrollback, subs, count>>

(* The connection is lost: the frame is out of the queue, its sending      *)
(* raises, and the worker ends.  The handler does not know yet.            *)
Unsent(c) == Lost([c EXCEPT !.queue = Tail(@), !.worker = FALSE])

SendFails(w) ==
    /\ conn[w].worker /\ conn[w].queue # <<>>
    /\ conn' = [conn EXCEPT ![w] = Unsent(@)]
    /\ UNCHANGED <<alive, reader, requesters, read, flushed, scrollback, subs, count>>

(* The browser's terminal cannot keep up with what it got, and when it has *)
(* caught up it says so.                                                   *)
RenderPause(w) ==
    /\ conn[w].phase = "open" /\ conn[w].worker /\ ~conn[w].render
    /\ conn[w].seen > 0
    /\ conn' = [conn EXCEPT ![w].render = TRUE]
    /\ IF alive THEN requesters' = requesters \cup {<<w, "render">>} /\ reader' = FALSE
                ELSE UNCHANGED <<requesters, reader>>
    /\ UNCHANGED <<alive, read, flushed, scrollback, subs, count>>

RenderResume(w) ==
    /\ conn[w].phase = "open" /\ conn[w].worker /\ conn[w].render
    /\ conn' = [conn EXCEPT ![w].render = FALSE]
    /\ Resume({<<w, "render">>})
    /\ UNCHANGED <<alive, read, flushed, scrollback, subs, count>>

-----------------------------------------------------------------------------
Manager == OnReadable \/ FlushTimer \/ EndOfFile \/ DestroySession

Handler(w) == Replay(w) \/ PutEnd(w) \/ JoinFails(w)

Next == \/ Manager
        \/ \E w \in Viewers : \/ Connect(w) \/ Leave(w)
                              \/ Handler(w) \/ SendWorker(w) \/ SendFails(w)
                              \/ RenderPause(w) \/ RenderResume(w)

(* The event loop runs its callbacks, timers and tasks, browsers take what *)
(* they are sent and catch up with it; the handshake has a timeout.  That  *)
(* a connection is lost the handler learns, by the heartbeat at the latest. *)
Fairness ==
    /\ WF_vars(OnReadable) /\ WF_vars(FlushTimer)
    /\ \A w \in Viewers : /\ WF_vars(Handler(w))
                          /\ WF_vars(SendWorker(w))
                          /\ WF_vars(RenderResume(w))
                          /\ WF_vars(~conn[w].worker /\ Leave(w))

Spec == Init /\ [][Next]_vars /\ Fairness

-----------------------------------------------------------------------------
TypeOK ==
    /\ alive \in BOOLEAN /\ reader \in BOOLEAN
    /\ requesters \subseteq Viewers \X {"queue", "render"}
    /\ read \in Nat /\ flushed \in 0 .. read
    /\ scrollback \in Seq(Frame) /\ Len(scrollback) <= MaxScroll
    /\ subs \subseteq Viewers
    /\ conn \in [Viewers -> Connection]
    /\ \A w \in Viewers : Len(conn[w].queue) <= QueueMax
    /\ count \in Nat

(* The descriptor is read exactly while nobody asks for a pause, and who   *)
(* asks is a connected viewer that knows it does.  A viewer that left in   *)
(* whatever state does not hold the terminal for the others, and does not  *)
(* give up a place among the connections twice or never.                   *)
PausesAreOwned ==
    /\ alive =>
         /\ reader <=> requesters = {}
         /\ requesters = {<<w, "queue">> : w \in {v \in Viewers : conn[v].paused}}
                    \cup {<<w, "render">> : w \in {v \in Viewers : conn[v].render}}
    /\ count = Cardinality({w \in Viewers : conn[w].phase # "out"})
    /\ count <= MaxPerSession

\* The places of the frames of output in the queue of c.
Outputs(c) == {k \in DOMAIN c.queue : c.queue[k].kind = "out"}

\* The chunks at which what a viewer has got or gets before place k ends.
Before(c, k) == {c.seen} \cup {c.queue[j].to : j \in {i \in Outputs(c) : i < k}}

(* comment C3 of ws_terminal: scrollback and live output reach a viewer    *)
(* through one queue in the order they were read, nothing twice; and       *)
(* nothing is missing in between, unless its queue overflowed or a frame   *)
(* was flushed while it waited to put the end mark.                        *)
InOrder ==
    \A w \in Viewers : \A k \in Outputs(conn[w]) :
        LET first == conn[w].queue[k].from
            ends  == Before(conn[w], k)
        IN  /\ \A n \in ends : first > n
            /\ ends # {0} /\ ~conn[w].lossy => first - 1 \in ends

(* comments on _SCROLLBACK_END: the mark reaches a viewer that stays, for  *)
(* frames put over the oldest ones never displace it.                      *)
EndMarkKept ==
    \A w \in Viewers :
        conn[w].phase = "open" =>
            \/ conn[w].ended \/ ~conn[w].worker
            \/ \E k \in DOMAIN conn[w].queue : conn[w].queue[k] = End

(* The replay comes to its end though the queue may be full, for the       *)
(* worker empties it meanwhile; and when the worker fails first, the       *)
(* handler does not wait for the room for ever, but gets to its end.       *)
ReplayEnds ==
    \A w \in Viewers : conn[w].phase # "out" ~> conn[w].ended \/ conn[w].phase = "out"

(* CHANGELOG: send queue with backpressure, "qsize 200/50 -> PTY           *)
(* pause/resume".  A viewer that paused the terminal and whose queue is    *)
(* short again resumes it, while the program still has output.             *)
ShortQueueResumes ==
    \A w \in Viewers :
        (alive /\ read < MaxRead /\ conn[w].paused /\ Len(conn[w].queue) < Low)
            ~> (~alive \/ ~conn[w].paused)
=============================================================================
