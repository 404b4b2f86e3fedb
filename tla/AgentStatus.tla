----------------------------- MODULE AgentStatus -----------------------------
(***************************************************************************)
(* server/agent_status.py: the table of agent sessions and their status.   *)
(* Everything here is a function from one table to the next; WaitingGate   *)
(* holds the table and calls them as the handlers do.                      *)
(*                                                                         *)
(* Keys are the session ids agents put in their hooks, and "pane:<name>"   *)
(* for agents without hooks; the key of the latter is written as the name  *)
(* of the tmux session.  Of an entry the model keeps the status, the tmux  *)
(* session it was bound to, and whether it is older than the time to live  *)
(* of its status: clocks are abstracted to that bit.  The tool, the input  *)
(* and the working directory are for display.                              *)
(***************************************************************************)
EXTENDS Integers, FiniteSets

CONSTANTS HookIds,   \* session ids of agents with hooks
          Sessions,  \* names of tmux sessions
          NoTarget   \* no tmux session could be told

ASSUME AgentStatusAssumption ==
    /\ HookIds \cap Sessions = {}
    /\ NoTarget \notin Sessions

Keys     == HookIds \cup Sessions
Target   == Sessions \cup {NoTarget}
Statuses == {"idle", "working", "waiting", "done", "error"}

(* "gone" stands for a key that is not in the table. *)
Entry == [status : Statuses \cup {"gone"}, session : Target, old : BOOLEAN]
Gone  == [status |-> "gone", session |-> NoTarget, old |-> FALSE]

Table == [Keys -> Entry]

(* _set_status: the status, and updated_at = now. *)
SetStatus(e, status) == [e EXCEPT !.status = status, !.old = FALSE]

(* _entry: the entry of a key, a fresh idle one if there is none. *)
EntryOf(t, x) == IF t[x].status = "gone" THEN SetStatus(Gone, "idle") ELSE t[x]

(* An event that names no session leaves the binding it finds. *)
Bind(e, s) == IF s = NoTarget THEN e ELSE [e EXCEPT !.session = s]

-----------------------------------------------------------------------------
(* Operators named X_... are slips of X: what a mistake in that code would *)
(* make of it.  No specification uses them; a property is checked to fail  *)
(* when one of them takes the place of X.                                  *)

Expired_KeepsBinding(e) ==
    CASE e.status = "working" -> SetStatus(e, "idle")
      [] e.status = "waiting" -> SetStatus(e, "working")
      [] e.status = "done"    -> SetStatus(e, "idle")
      [] e.status = "idle"    -> SetStatus(e, "gone")
      [] OTHER                -> e

Expired_WaitingStays(e) ==
    CASE e.status \in {"working", "done"} -> SetStatus(e, "idle")
      [] e.status = "idle"                -> Gone
      [] OTHER                            -> e

(* Every entry point first lets the entries expire. *)
Expired(e) ==
    CASE e.status = "working" -> SetStatus(e, "idle")
      [] e.status = "waiting" -> SetStatus(e, "working")
      [] e.status = "done"    -> SetStatus(e, "idle")
      [] e.status = "idle"    -> Gone
      [] OTHER                -> e

Sweep(t) == [x \in Keys |-> IF t[x].old THEN Expired(t[x]) ELSE t[x]]

(* on_event, for the hooks pre, post and stop; other events change nothing. *)
OnEvent(table, x, event, s) ==
    LET t == Sweep(table)
        e == Bind(EntryOf(t, x), s)
    IN  CASE event = "pre"  -> [t EXCEPT ![x] = SetStatus(e, "working")]
          [] event = "post" -> [t EXCEPT ![x] = e]
          [] event = "stop" -> [t EXCEPT ![x] = SetStatus(e, "done")]
          [] OTHER          -> t

OnWaiting_Finished(table, x, waiting) ==
    LET t == Sweep(table)
        e == t[x]
    IN  CASE waiting                          -> [t EXCEPT ![x] = SetStatus(e, "waiting")]
          [] ~waiting /\ e.status = "waiting" -> [t EXCEPT ![x] = SetStatus(e, "working")]
          [] OTHER                            -> t

(* on_waiting: an approval prompt appeared or went away. *)
OnWaiting(table, x, waiting) ==
    LET t == Sweep(table)
        e == t[x]
    IN  CASE waiting /\ e.status = "gone"       -> [t EXCEPT ![x] = SetStatus(e, "waiting")]
          [] waiting /\ e.status = "working"    -> [t EXCEPT ![x] = SetStatus(e, "waiting")]
          [] ~waiting /\ e.status = "waiting"   -> [t EXCEPT ![x] = SetStatus(e, "working")]
          [] OTHER                              -> t

(* report: an agent without hooks says its status itself. *)
Report(table, x, status, s) ==
    LET t == Sweep(table)
    IN  [t EXCEPT ![x] = SetStatus(Bind(EntryOf(t, x), s), status)]

(* status_for_session, on a swept table: the most urgent status of the     *)
(* entries bound to s.                                                     *)
BoundTo(t, s) == {x \in Keys : t[x].status # "gone" /\ t[x].session = s}

Urgency == <<"waiting", "done", "working", "error", "idle">>

StatusForSession(t, s) ==
    LET found == {t[x].status : x \in BoundTo(t, s)}
    IN  IF s = NoTarget \/ found = {} THEN "idle"
        ELSE LET rank == {k \in DOMAIN Urgency : Urgency[k] \in found}
             IN  Urgency[CHOOSE k \in rank : \A l \in rank : k <= l]
=============================================================================
