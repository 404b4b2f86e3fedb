---------------------------- MODULE QueueService ----------------------------
(***************************************************************************)
(* What server/queue_store.py promises its callers (the web server's       *)
(* threads and the command-line processes): a list on which every          *)
(* operation takes effect at one moment between its call and its return.   *)
(* A caller may die, and an operation may fail, before that moment or      *)
(* after it; it never takes effect in part.                                *)
(***************************************************************************)
EXTENDS QueueOps

CONSTANTS Clients,  \* the threads and processes that use the queue
          Ops,      \* the operations they may call
          NoResult  \* the result of an operation that has not returned

VARIABLES items,    \* the list
          phase,    \* phase[c]: has c called, and has its call taken effect?
          op,       \* op[c]: the operation c called last
          result    \* result[c]: what it returns

vars == <<items, phase, op, result>>

-----------------------------------------------------------------------------
(* The effect of operation o on list q: does it write, what, and what does *)
(* it return.  One case per function of queue_store.py.                    *)
Effect(o, q) ==
    LET keep(answer)   == [writes |-> FALSE, list |-> q,
                           result |-> [answer |-> answer, item |-> o.item]]
        write(l, item) == [writes |-> TRUE, list |-> l,
                           result |-> [answer |-> "ok", item |-> item]]
        at   == IndexOf(q, o.item.id)
        next == NextIndex(q, o.session, o.scoped)
    IN  CASE o.kind = "list"    -> keep("ok")
          [] o.kind = "add"     -> IF IsFull(q) THEN keep("full")
                                   ELSE write(Added(q, o.item), o.item)
          [] o.kind = "remove"  -> IF at = 0 THEN keep("not_found")
                                   ELSE write(RemoveAt(q, at), o.item)
          [] o.kind = "unblock" -> IF at = 0 THEN keep("not_found")
                                   ELSE write(Unblocked(q, at), o.item)
          [] o.kind = "clear"   -> write(<<>>, o.item)
          [] o.kind = "pop"     -> IF next = 0 THEN keep("none")
                                   ELSE write(RemoveAt(q, next), q[next])
          [] o.kind = "mark"    -> write(Reinsert(q, o.item), o.item)

-----------------------------------------------------------------------------
Init ==
    /\ items = <<>>
    /\ phase = [c \in Clients |-> "idle"]
    /\ op = [c \in Clients |-> NoResult]
    /\ result = [c \in Clients |-> NoResult]

Call(c) ==
    /\ phase[c] = "idle"
    /\ phase' = [phase EXCEPT ![c] = "called"]
    /\ UNCHANGED <<items, result>>
    /\ \E o \in Ops : op' = [op EXCEPT ![c] = o]

TakeEffect(c) ==
    /\ phase[c] = "called"
    /\ items' = Effect(op[c], items).list
    /\ result' = [result EXCEPT ![c] = Effect(op[c], items).result]
    /\ phase' = [phase EXCEPT ![c] = "done"]
    /\ UNCHANGED op

Return(c) ==
    /\ phase[c] = "done"
    /\ phase' = [phase EXCEPT ![c] = "idle"]
    /\ op' = [op EXCEPT ![c] = NoResult]
    /\ result' = [result EXCEPT ![c] = NoResult]
    /\ UNCHANGED items

(* The caller dies or the operation raises: before or after its effect. *)
Abort(c) ==
    /\ phase' = [phase EXCEPT ![c] = "idle"]
    /\ op' = [op EXCEPT ![c] = NoResult]
    /\ result' = [result EXCEPT ![c] = NoResult]
    /\ UNCHANGED items

Next == \E c \in Clients :
            \/ Call(c)
            \/ TakeEffect(c)
            \/ Return(c)
            \/ Abort(c)

Spec == Init /\ [][Next]_vars
=============================================================================
