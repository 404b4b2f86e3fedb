----------------------------- MODULE WaitingGate -----------------------------
(***************************************************************************)
(* How the server learns that an agent waits for an approval, and how the  *)
(* prompt queue keeps from typing into that agent's pane.                  *)
(*                                                                         *)
(*   routes/agents.py          hooks and reports of agents change the      *)
(*                             status table; a done status schedules a     *)
(*                             drain of the queue                          *)
(*   agent_prompt_detect.py    looks for prompt texts in the output of a   *)
(*                             web terminal's PTY                          *)
(*   deps.py                   carries what it finds over to the table     *)
(*   queue_runner.py           the drain looks the status up, then finds   *)
(*                             the pane, then sends                        *)
(*                                                                         *)
(* A terminal's PTY shows one tmux session.  The queue itself is           *)
(* PromptQueue; here a drain finds an item with some target.  One drain at *)
(* a time is followed (PromptQueue has several): a stop during a drain by  *)
(* hand counts as one after it.                                            *)
(*                                                                         *)
(* X_... are slips of X, see AgentStatus.                                  *)
(***************************************************************************)
EXTENDS AgentStatus

CONSTANTS Ptys,       \* web terminals
          TmuxOf,     \* TmuxOf[p]: the tmux session terminal p shows
          MaxReports  \* bound: how often agents report their status themselves

ASSUME WaitingGateAssumption ==
    /\ TmuxOf \in [Ptys -> Sessions]
    /\ MaxReports \in Nat

VARIABLES st,       \* agent_status._state
          flagged,  \* flagged[p]: PromptDetector._waiting
          window,   \* window[p]: the kinds of text in the last output of p
          guard,    \* guard[p]: less than FLAP_GUARD_SEC since it changed
          job,      \* the drain in progress
          reports   \* how many reports there were

vars == <<st, flagged, window, guard, job, reports>>

NoJob == [phase |-> "none", target |-> NoTarget, stopped |-> NoTarget,
          pane |-> NoTarget, warned |-> FALSE]

(* The kinds of text the patterns tell apart: an approval prompt, a sign   *)
(* that the agent works again, anything else.                              *)
Chunk == {"prompt", "busy", "plain"}

Init ==
    /\ st = [x \in Keys |-> Gone]
    /\ flagged = [p \in Ptys |-> FALSE]
    /\ window = [p \in Ptys |-> {}]
    /\ guard = [p \in Ptys |-> FALSE]
    /\ job = NoJob
    /\ reports = 0

detector == <<flagged, window, guard>>

-----------------------------------------------------------------------------
(* POST /api/agent/event.  The hook may not tell the session it came from. *)
(* Whenever the entry is done afterwards a drain is scheduled, unless one  *)
(* is pending, for the session of the event or of the entry, or the one    *)
(* whose working directory is that of the entry, if there is one such.     *)
AgentEvent(x, event, s) ==
    /\ st' = OnEvent(st, x, event, s)
    /\ IF st'[x].status = "done" /\ job = NoJob
       THEN \E stopped \in CASE s # NoTarget              -> {s}
                            [] st'[x].session # NoTarget -> {st'[x].session}
                            [] OTHER                     -> Target :
               job' = [NoJob EXCEPT !.phase = "due", !.stopped = stopped]
       ELSE UNCHANGED job
    /\ UNCHANGED <<detector, reports>>

(* POST /api/agent/report, from a pane whose tmux session is s. *)
AgentReport(s, status) ==
    /\ reports < MaxReports
    /\ reports' = reports + 1
    /\ st' = Report(st, s, status, s)
    /\ UNCHANGED <<detector, job>>

(* An entry outlives the time to live of its status.  error has none. *)
TtlPasses(x) ==
    /\ st[x].status \notin {"gone", "error"} /\ ~st[x].old
    /\ st' = [st EXCEPT ![x].old = TRUE]
    /\ UNCHANGED <<detector, job, reports>>

(* get_state: the heartbeat of an agent WebSocket, or any reader. *)
ReadState ==
    /\ st' = Sweep(st)
    /\ UNCHANGED <<detector, job, reports>>

-----------------------------------------------------------------------------
Notified_PaneKey(p, waiting) ==
    LET s == TmuxOf[p]
        u == OnWaiting(Sweep(st), s, waiting)
    IN  IF u[s].status = "gone" THEN u ELSE [u EXCEPT ![s].session = s]

(* _on_waiting_change: every entry bound to the tmux session of p, or a    *)
(* new one for its pane.                                                   *)
Notified(p, waiting) ==
    LET t == Sweep(st)
        s == TmuxOf[p]
        targets == BoundTo(t, s)
    IN  IF targets # {}
        THEN [x \in Keys |-> IF x \in targets THEN OnWaiting(t, x, waiting)[x] ELSE t[x]]
        ELSE LET u == OnWaiting(t, s, waiting)
             IN  IF u[s].status = "gone" THEN u ELSE [u EXCEPT ![s].session = s]

(* PromptDetector._set: a change within the flap guard is dropped. *)
SetFlag(p, waiting) ==
    IF flagged[p] = waiting \/ guard[p]
    THEN UNCHANGED <<st, flagged, guard>>
    ELSE /\ flagged' = [flagged EXCEPT ![p] = waiting]
         /\ guard' = [guard EXCEPT ![p] = TRUE]
         /\ st' = Notified(p, waiting)

(* feed: a chunk of output; older chunks may have left the window.  While  *)
(* the auto responder has just answered, a prompt is not reported.         *)
Feed(p, chunk) ==
    /\ \E kept \in SUBSET window[p] :
          window' = [window EXCEPT ![p] = kept \cup ({chunk} \ {"plain"})]
    /\ IF "busy" \in window'[p] THEN SetFlag(p, FALSE)
       ELSE IF "prompt" \in window'[p]
            THEN SetFlag(p, TRUE) \/ UNCHANGED <<st, flagged, guard>>
       ELSE UNCHANGED <<st, flagged, guard>>
    /\ UNCHANGED <<job, reports>>

(* on_user_input: the user types into the terminal. *)
UserInput(p) ==
    /\ flagged[p]
    /\ window' = [window EXCEPT ![p] = {}]
    /\ SetFlag(p, FALSE)
    /\ UNCHANGED <<job, reports>>

GuardEnds(p) ==
    /\ guard[p]
    /\ guard' = [guard EXCEPT ![p] = FALSE]
    /\ UNCHANGED <<st, flagged, window, job, reports>>

(* DELETE /api/sessions/{id}: the detector forgets the terminal. *)
ClosePty(p) ==
    /\ flagged' = [flagged EXCEPT ![p] = FALSE]
    /\ window' = [window EXCEPT ![p] = {}]
    /\ guard' = [guard EXCEPT ![p] = FALSE]
    /\ UNCHANGED <<st, job, reports>>

-----------------------------------------------------------------------------
(* POST /api/queue/run: a drain for whatever item is first. *)
RunNow ==
    /\ job = NoJob
    /\ job' = [NoJob EXCEPT !.phase = "now"]
    /\ UNCHANGED <<st, detector, reports>>

(* The targets of the items the drain may pop: an automatic one is scoped  *)
(* to the session that stopped.                                            *)
Poppable == IF job.phase = "now" THEN Target ELSE {job.stopped, NoTarget}

(* _is_waiting looks up the session the item is for, else the one that     *)
(* stopped.                                                                *)
GateSession_StoppedOnly(target) == job.stopped

GateSession(target) == IF target # NoTarget THEN target ELSE job.stopped

(* _resolve_pane: the target's pane, or the pane voice input goes to (the  *)
(* locked session, the active pane, any pane).                             *)
PaneOf(target) == IF target # NoTarget THEN {target} ELSE Sessions

(* The drain pops an item and passes the gate, and finds the pane.  With   *)
(* warned, the model remembers that this pane's session was waiting when   *)
(* the gate was passed.                                                    *)
GatePasses ==
    /\ job.phase \in {"due", "now"}
    /\ \E target \in Poppable :
          LET s == GateSession(target)
          IN  /\ st' = IF s = NoTarget THEN st ELSE Sweep(st)
              /\ StatusForSession(st', s) # "waiting"
              /\ \E pane \in PaneOf(target) :
                    job' = [job EXCEPT !.phase = "send", !.target = target, !.pane = pane,
                             !.warned = StatusForSession(st', pane) = "waiting"]
    /\ UNCHANGED <<detector, reports>>

(* The queue is empty, the gate or the safe mode refuses the item, there   *)
(* is no pane, or the keys have been sent: the drain is over.              *)
EndJob ==
    /\ job # NoJob
    /\ job' = NoJob
    /\ st' \in {st, Sweep(st)}
    /\ UNCHANGED <<detector, reports>>

-----------------------------------------------------------------------------
Agents ==
    \/ \E x \in HookIds, event \in {"pre", "post", "stop"}, s \in Target :
          AgentEvent(x, event, s)
    \/ \E s \in Sessions, status \in Statuses : AgentReport(s, status)

Terminals == \E p \in Ptys : \/ \E chunk \in Chunk : Feed(p, chunk)
                             \/ UserInput(p)
                             \/ GuardEnds(p)
                             \/ ClosePty(p)

Drain == RunNow \/ GatePasses \/ EndJob

Next == Agents \/ (\E x \in Keys : TtlPasses(x)) \/ ReadState \/ Terminals \/ Drain

(* Time passes, and while an expired entry is in the table somebody reads  *)
(* it: the heartbeat of a connected page does so every 15 seconds, much    *)
(* more often than a prompt can be raised anew.                            *)
Fairness ==
    \A x \in Keys : /\ WF_vars(TtlPasses(x))
                    /\ SF_vars(st[x].old /\ ReadState)

Spec == Init /\ [][Next]_vars /\ Fairness

-----------------------------------------------------------------------------
TypeOK ==
    /\ st \in Table
    /\ \A x \in Keys : st[x].status = "gone" => st[x] = Gone
    /\ flagged \in [Ptys -> BOOLEAN]
    /\ window \in [Ptys -> SUBSET {"prompt", "busy"}]
    /\ guard \in [Ptys -> BOOLEAN]
    /\ job \in [phase : {"none", "due", "now", "send"}, target : Target,
                stopped : Target, pane : Target, warned : BOOLEAN]
    /\ reports \in 0 .. MaxReports

(* docstring of on_waiting: a prompt noticed late does not turn a finished *)
(* (or idle) agent back into a waiting one.  Only an agent at work, or one *)
(* the table does not know, starts to wait, unless it says so itself.      *)
OnlyWorkWaits ==
    [][\A x \in Keys :
          st[x].status # "waiting" /\ st'[x].status = "waiting"
          => st[x].status \in {"working", "gone"} \/ reports' # reports
             \/ (st[x].old /\ st[x].status = "idle")]_vars

(* When the detector sees a prompt, the gate of that session closes, or    *)
(* none of the session's agents is at work; when it sees the prompt go,    *)
(* none of them is left waiting, however many agents share the session.    *)
DetectionReachesGate ==
    [][\A p \in Ptys :
          /\ ~flagged[p] /\ flagged'[p] =>
                \/ StatusForSession(st', TmuxOf[p]) = "waiting"
                \/ /\ BoundTo(st', TmuxOf[p]) # {}
                   /\ \A x \in BoundTo(st', TmuxOf[p]) : st'[x].status # "working"
          /\ flagged[p] /\ ~flagged'[p] /\ guard'[p] =>
                StatusForSession(st', TmuxOf[p]) # "waiting"]_vars

(* What the gate does keep: the only way to a pane the server knew to wait *)
(* for an approval when the gate was passed is an item without a target,   *)
(* typed into a pane other than that of the session that stopped.          *)
GateCoversTarget ==
    job.phase = "send" /\ job.warned =>
        job.target = NoTarget /\ job.pane # job.stopped

(* The fifth gate as queue_runner.py states it: never into a pane that     *)
(* waits for an approval, whatever item it is.                             *)
GateCoversPane == job.phase = "send" => ~job.warned

(* A wrong or forgotten detection does not close the gate for good: an     *)
(* entry that waits stops waiting, by its time to live if by nothing else. *)
WaitingEnds == \A x \in Keys : st[x].status = "waiting" ~> st[x].status # "waiting"
=============================================================================
