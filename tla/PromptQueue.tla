----------------------------- MODULE PromptQueue -----------------------------
(***************************************************************************)
(* The prompt queue at work: who puts prompts in (web, voice, command      *)
(* line), and who drains it (server/queue_runner.py).  The operations of   *)
(* queue_store.py are atomic here, as QueueStore shows.  A drain is not:   *)
(* it pops an item and checks it, sends it to tmux and, when any of that   *)
(* fails, puts it back as blocked; others act between these steps.         *)
(*                                                                         *)
(* Three kinds of actors drain.                                            *)
(*   Scheduled  the one pending task of the server, scheduled when an      *)
(*              agent stops (drain_after_grace); it waits for the grace    *)
(*              period, and its pop is scoped to the session that stopped  *)
(*   Manual     requests POST /api/queue/run (drain_now)                   *)
(*   Cli        processes "fsh queue run", which call drain_once           *)
(* Scheduled and Manual run in the server and take _drain_lock, an         *)
(* asyncio.Lock that serves its waiters in order; Cli has a lock of its    *)
(* own that no one else uses, that is, none.                               *)
(*                                                                         *)
(* X_... are slips of X, see QueueOps.                                     *)
(***************************************************************************)
EXTENDS QueueOps

CONSTANTS Scheduled,  \* the server's pending drain task
          Manual,     \* manual run requests
          Cli,        \* command-line runs
          Dangerous,  \* ids of the prompts safe_mode refuses
          MaxAdds,    \* bound: how many prompts are ever submitted
          MaxSent,    \* bound: how many deliveries are made
          MaxLost     \* bound: how many failures take prompts in flight with them

ASSUME PromptQueueAssumption ==
    /\ Scheduled \notin Manual \cup Cli
    /\ Manual \cap Cli = {}
    /\ IsFiniteSet(Cli)
    /\ MaxAdds \in Nat /\ MaxSent \in Nat /\ MaxLost \in Nat

Server   == {Scheduled} \cup Manual
Drainers == Server \cup Cli

VARIABLES queue,       \* the list in queue.json
          issued,      \* how many prompts have been submitted
          pc,          \* pc[d]: the step drainer d is about to take
          held,        \* held[d]: the item d popped and has not settled
          stopped,     \* the session whose stop scheduled the pending task
          lockQ        \* _drain_lock: its holder, then its waiters in order

VARIABLES sent,        \* history: the deliveries, in order
          deleted,     \* history: ids the user removed or cleared
          lost,        \* history: ids that were held when their drain died
          everBlocked, \* history: ids that were put back as blocked
          unsure       \* history: ids delivered by a send reported as failed

store   == <<queue, issued>>
drain   == <<pc, held, stopped, lockQ>>
history == <<sent, deleted, lost, everBlocked, unsure>>
vars    == <<store, drain, history>>

NoItem == NewItem(0, NoTarget)
Ids    == 1 .. issued

Init ==
    /\ queue = <<>> /\ issued = 0
    /\ pc = [d \in Drainers |-> "idle"]
    /\ held = [d \in Drainers |-> NoItem]
    /\ stopped = NoTarget
    /\ lockQ = <<>>
    /\ sent = <<>>
    /\ deleted = {} /\ lost = {} /\ everBlocked = {} /\ unsure = {}

-----------------------------------------------------------------------------
(* The users of the queue. *)

Add(t) ==
    /\ issued < MaxAdds
    /\ ~IsFull(queue)
    /\ issued' = issued + 1
    /\ queue' = Added(queue, NewItem(issued + 1, t))
    /\ UNCHANGED <<drain, history>>

RemoveItem(k) ==
    /\ queue' = RemoveAt(queue, k)
    /\ deleted' = deleted \cup {queue[k].id}
    /\ UNCHANGED <<issued, drain, sent, lost, everBlocked, unsure>>

Clear ==
    /\ queue # <<>>
    /\ queue' = <<>>
    /\ deleted' = deleted \cup IdsOf(queue)
    /\ UNCHANGED <<issued, drain, sent, lost, everBlocked, unsure>>

Unblock(k) ==
    /\ queue[k].status = "blocked"
    /\ queue' = Unblocked(queue, k)
    /\ UNCHANGED <<issued, drain, history>>

-----------------------------------------------------------------------------
(* Starting a drain. *)

Goto(d, step) == pc' = [pc EXCEPT ![d] = step]

(* An agent of session s (or one whose session cannot be told) stops and   *)
(* schedule_drain is called: it does nothing while a task is pending.      *)
ScheduleDrain(s) ==
    /\ PendingCount(queue) > 0
    /\ pc[Scheduled] = "idle"
    /\ Goto(Scheduled, "grace")
    /\ stopped' = s
    /\ UNCHANGED <<store, held, lockQ, history>>

AskForLock(d) ==
    /\ Goto(d, "lock")
    /\ lockQ' = Append(lockQ, d)
    /\ UNCHANGED <<store, held, stopped, history>>

GraceEnds  == pc[Scheduled] = "grace" /\ AskForLock(Scheduled)
RunNow(m)  == pc[m] = "idle" /\ AskForLock(m)

RunCli(c) ==
    /\ pc[c] = "idle"
    /\ Goto(c, "pop")
    /\ UNCHANGED <<store, held, stopped, lockQ, history>>

Locked_NoLock(d) ==
    /\ pc[d] = "lock"
    /\ Goto(d, "pop")
    /\ UNCHANGED <<store, held, stopped, lockQ, history>>

Locked(d) ==
    /\ pc[d] = "lock" /\ Head(lockQ) = d
    /\ Goto(d, "pop")
    /\ UNCHANGED <<store, held, stopped, lockQ, history>>

-----------------------------------------------------------------------------
(* drain_once. *)

Release_Never(d) == UNCHANGED lockQ

Release(d) == lockQ' = IF d \in Server THEN Tail(lockQ) ELSE lockQ

(* The drain ends: d lets its item and the lock go. *)
Finish(d) ==
    /\ Goto(d, "idle")
    /\ held' = [held EXCEPT ![d] = NoItem]
    /\ stopped' = IF d = Scheduled THEN NoTarget ELSE stopped
    /\ Release(d)

(* _check_safe on the text of what was popped: where the drain goes next.  *)
AfterPop(item) == IF item.id \in Dangerous THEN "mark" ELSE "send"

PopNext(d) ==
    LET k == NextIndex(queue, stopped, d = Scheduled)
    IN  /\ pc[d] = "pop" /\ k # 0
        /\ held' = [held EXCEPT ![d] = queue[k]]
        /\ queue' = RemoveAt(queue, k)
        /\ Goto(d, AfterPop(queue[k]))
        /\ UNCHANGED <<issued, stopped, lockQ, history>>

(* There is nothing to pop, or writing the shorter list raises. *)
PopNone(d) ==
    /\ pc[d] = "pop"
    /\ Finish(d)
    /\ UNCHANGED <<store, history>>

Delivery(d) == [id |-> held[d].id, target |-> held[d].target, by |-> d]

(* tmux send-keys: done. *)
SendOk(d) ==
    /\ pc[d] = "send" /\ Len(sent) < MaxSent
    /\ sent' = Append(sent, Delivery(d))
    /\ Finish(d)
    /\ UNCHANGED <<store, deleted, lost, everBlocked, unsure>>

(* The keys went in, but tmux answered after the two seconds' timeout. *)
SendLate(d) ==
    /\ pc[d] = "send" /\ Len(sent) < MaxSent
    /\ sent' = Append(sent, Delivery(d))
    /\ unsure' = unsure \cup {held[d].id}
    /\ Goto(d, "mark")
    /\ UNCHANGED <<store, held, stopped, lockQ, deleted, lost, everBlocked>>

(* The session waits for an approval, there is no pane to send to, or tmux *)
(* refuses: all the same to the queue.  WaitingGate is about the first.    *)
NotSent(d) ==
    /\ pc[d] = "send"
    /\ Goto(d, "mark")
    /\ UNCHANGED <<store, held, stopped, lockQ, history>>

MarkBlocked(d) ==
    /\ pc[d] = "mark"
    /\ queue' = Reinsert(queue, held[d])
    /\ everBlocked' = everBlocked \cup {held[d].id}
    /\ Finish(d)
    /\ UNCHANGED <<issued, sent, deleted, lost, unsure>>

(* Writing the queue file raises, or looking at the status table does: the *)
(* drain runs in a thread, and the event loop changes the table meanwhile. *)
(* The exception leaves drain_once, and the item is nowhere.               *)
DrainRaises(d) ==
    /\ pc[d] \in {"send", "mark"}
    /\ lost' = lost \cup {held[d].id}
    /\ Cardinality(lost) < MaxLost
    /\ Finish(d)
    /\ UNCHANGED <<store, sent, deleted, everBlocked, unsure>>

-----------------------------------------------------------------------------
HeldIds(D) == {held[d].id : d \in {e \in D : held[e] # NoItem}}

(* The server stops or dies: its tasks, its lock and its in-flight items.  *)
ServerRestarts ==
    /\ pc' = [d \in Drainers |-> IF d \in Server THEN "idle" ELSE pc[d]]
    /\ held' = [d \in Drainers |-> IF d \in Server THEN NoItem ELSE held[d]]
    /\ lost' = lost \cup HeldIds(Server)
    /\ HeldIds(Server) # {} => Cardinality(lost) < MaxLost
    /\ stopped' = NoTarget
    /\ lockQ' = <<>>
    /\ UNCHANGED <<store, sent, deleted, everBlocked, unsure>>

CliDies(c) ==
    /\ pc[c] # "idle"
    /\ lost' = lost \cup HeldIds({c})
    /\ HeldIds({c}) # {} => Cardinality(lost) < MaxLost
    /\ Finish(c)
    /\ UNCHANGED <<store, sent, deleted, everBlocked, unsure>>

-----------------------------------------------------------------------------
Users ==
    \/ \E t \in Target : Add(t)
    \/ \E k \in DOMAIN queue : RemoveItem(k)
    \/ \E k \in DOMAIN queue : Unblock(k)
    \/ Clear

Triggers ==
    \/ \E s \in Target : ScheduleDrain(s)
    \/ \E m \in Manual : RunNow(m)
    \/ \E c \in Cli : RunCli(c)

Work(d) ==
    \/ Locked(d)
    \/ PopNext(d) \/ PopNone(d)
    \/ SendOk(d) \/ SendLate(d) \/ NotSent(d)
    \/ MarkBlocked(d) \/ DrainRaises(d)

Crashes == ServerRestarts \/ \E c \in Cli : CliDies(c)

Next == Users \/ Triggers \/ GraceEnds \/ (\E d \in Drainers : Work(d)) \/ Crashes

(* The event loop runs its timers, and threads and processes run on. *)
Fairness == WF_vars(GraceEnds) /\ \A d \in Drainers : WF_vars(Work(d))

Spec == Init /\ [][Next]_vars /\ Fairness

-----------------------------------------------------------------------------
Steps == {"idle", "grace", "lock", "pop", "send", "mark"}

TypeOK ==
    /\ queue \in Seq(Item)
    /\ issued \in Nat
    /\ pc \in [Drainers -> Steps]
    /\ held \in [Drainers -> Item]
    /\ stopped \in Target
    /\ lockQ \in Seq(Server)
    /\ sent \in Seq([id : Nat, target : Target, by : Drainers])
    /\ deleted \subseteq Nat /\ lost \subseteq Nat
    /\ everBlocked \subseteq Nat /\ unsure \subseteq Nat

InFlight == HeldIds(Drainers)
SentIds  == {sent[k].id : k \in DOMAIN sent}

(* Every prompt the user submitted is in the queue, in flight, delivered,  *)
(* deleted by the user or known to have died with its drain; and it is in  *)
(* only one of these places, except that a prompt whose send timed out     *)
(* after the keys went in is both delivered and put back, and only such a  *)
(* prompt is delivered twice.  No interleaving of drains in two processes  *)
(* and of users drops or doubles a prompt.                                 *)
Accounted ==
    /\ Ids = IdsOf(queue) \cup InFlight \cup SentIds \cup deleted \cup lost
    /\ Distinct(queue)
    /\ \A d, e \in Drainers :
          held[d] # NoItem /\ held[d].id = held[e].id => d = e
    /\ IdsOf(queue) \cap InFlight = {}
    /\ (IdsOf(queue) \cup InFlight) \cap (deleted \cup lost) = {}
    /\ deleted \cap lost = {}
    /\ SentIds \cap (IdsOf(queue) \cup InFlight \cup deleted \cup lost) \subseteq unsure
    /\ \A k, l \in DOMAIN sent :
          k # l /\ sent[k].id = sent[l].id => sent[k].id \in unsure

(* Design rule 1 of queue_store.py, as far as _drain_lock takes it: the    *)
(* server delivers the prompts of one target in the order of submission,   *)
(* unless the later delivered one was held back as blocked.                *)
InOrder(D) ==
    \A k, l \in DOMAIN sent :
        k < l /\ {sent[k].by, sent[l].by} \subseteq D
              /\ sent[k].target = sent[l].target
              /\ sent[k].id > sent[l].id
        => sent[l].id \in everBlocked

ServerInOrder == InOrder(Server)

(* The same rule for the whole system, command line included. *)
AllInOrder == InOrder(Drainers)

(* docstring of mark_blocked: prompts held back as blocked keep the order  *)
(* of submission among themselves.                                         *)
BlockedInOrder ==
    \A k, l \in DOMAIN queue :
        k < l /\ queue[k].status = "blocked" /\ queue[l].status = "blocked"
        => queue[k].id < queue[l].id

(* Putting an item back does not look at MAX_ITEMS.  The queue can outgrow *)
(* the limit, but only by what the one server drain and the command-line   *)
(* runs hold at a time.                                                    *)
Capacity ==
    Len(queue) + Cardinality(InFlight) <= MaxItems + 1 + Cardinality(Cli)

(* A prompt safe_mode refuses is never typed into a pane, however often    *)
(* the user unblocks it.                                                   *)
NoDangerousSent == SentIds \cap Dangerous = {}

(* A prompt leaves the blocked state only by a user's hand: no drain takes *)
(* it, and it stays behind until it is unblocked or deleted.               *)
BlockedStays ==
    [][\A k \in DOMAIN queue :
          queue[k].status = "blocked" =>
            \/ queue[k] \in {queue'[l] : l \in DOMAIN queue'}
            \/ queue[k].id \in deleted'
            \/ Users /\ queue[k].id \in IdsOf(queue')]_vars

(* Where a prompt is in its life: in the queue, in a drain's hands, or     *)
(* where it ended.                                                         *)
BlockedIn(q) == {q[k].id : k \in {l \in DOMAIN q : q[l].status = "blocked"}}

PlaceOf(p) ==
    IF p \in BlockedIn(queue) THEN "blocked"
    ELSE IF p \in IdsOf(queue) THEN "pending"
    ELSE IF p \in InFlight THEN "taken"
    ELSE IF p \in deleted THEN "deleted"
    ELSE IF p \in lost THEN "lost"
    ELSE IF p \in SentIds THEN "delivered" ELSE "none"

Places == [p \in 1 .. MaxAdds |-> PlaceOf(p)]
Log    == [k \in DOMAIN sent |-> sent[k].id]

Life == INSTANCE PromptLife WITH
    Prompts <- 1 .. MaxAdds, Refused <- Dangerous, place <- Places, log <- Log

(* The queue at work keeps the promise of PromptLife: whatever drains,     *)
(* users, exceptions and restarts do between each other's steps, a prompt  *)
(* goes through its life one promised step at a time, no failure takes     *)
(* more than one prompt with it, and nothing comes back from its end.      *)
LivesAsPromised == Life!Spec

(* Every drain that starts comes to its end, and with it its item leaves   *)
(* its hands and the next waiter gets the lock, whatever raises.           *)
DrainsEnd == \A d \in Drainers : pc[d] # "idle" ~> pc[d] = "idle"
=============================================================================
