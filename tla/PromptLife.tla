----------------------------- MODULE PromptLife -----------------------------
(***************************************************************************)
(* What the prompt queue promises of every prompt, whoever drains it and   *)
(* whatever fails: the life of a prompt, as the user may count on it.      *)
(*                                                                         *)
(*              Discard        Discard                                     *)
(*     deleted <------- pending      blocked -------> deleted              *)
(*                     ^   |  ^     |    ^                                 *)
(*              Submit |   |  +-----+    | PutBack                         *)
(*                     |   |  Unblock    |                                 *)
(*                   none  +--> taken ---+                                 *)
(*                        Take  |    |                                     *)
(*                 delivered <--+    +--> lost                             *)
(*                        Deliver    Lose                                  *)
(*                                                                         *)
(* What is deleted, lost or delivered stays so, what is blocked waits to   *)
(* be unblocked, one failure loses one prompt, and what is refused is not  *)
(* typed into a pane.                                                      *)
(***************************************************************************)
EXTENDS Naturals, Sequences

CONSTANTS Prompts, \* the prompts that may be submitted, in that order
          Refused  \* those that safe_mode refuses

VARIABLES place,   \* place[p]: where p is in its life
          log      \* the prompts that were typed into a pane, in order

vars == <<place, log>>

Moves(p, from, to) == place[p] = from /\ place' = [place EXCEPT ![p] = to]

Init == place = [p \in Prompts |-> "none"] /\ log = <<>>

Submit(p) ==
    /\ Moves(p, "none", "pending") /\ UNCHANGED log
    /\ \A q \in Prompts : q < p => place[q] # "none"

(* The user deletes a prompt, or all that are in the queue.                *)
Waits(p) == place[p] \in {"pending", "blocked"}

Discard(p) ==
    /\ Waits(p) /\ place' = [place EXCEPT ![p] = "deleted"]
    /\ UNCHANGED log

DiscardAll ==
    /\ place' = [p \in Prompts |-> IF Waits(p) THEN "deleted" ELSE place[p]]
    /\ UNCHANGED log

Unblock(p) == Moves(p, "blocked", "pending") /\ UNCHANGED log
Take(p)    == Moves(p, "pending", "taken") /\ UNCHANGED log
PutBack(p) == Moves(p, "taken", "blocked") /\ UNCHANGED log
Lose(p)    == Moves(p, "taken", "lost") /\ UNCHANGED log

Typed(p)   == p \notin Refused /\ log' = Append(log, p)
Deliver(p) == Moves(p, "taken", "delivered") /\ Typed(p)

(* tmux does what it is told, and says so too late to be believed.         *)
DeliverUnnoticed(p) == place[p] = "taken" /\ UNCHANGED place /\ Typed(p)

(* Drains start, wait for each other and find nothing to do: no prompt     *)
(* moves.                                                                  *)
Rest == UNCHANGED vars

Next ==
    \/ Rest
    \/ \E p \in Prompts :
          \/ Submit(p) \/ Discard(p) \/ Unblock(p)
          \/ Take(p) \/ PutBack(p) \/ Lose(p)
          \/ Deliver(p) \/ DeliverUnnoticed(p)
    \/ DiscardAll

Spec == Init /\ [][Next]_vars
=============================================================================
