----------------------------- MODULE QueueStore -----------------------------
(***************************************************************************)
(* server/queue_store.py in detail: the file lock, the read of             *)
(* ~/.vt/queue.json, the temporary file and its replacement.               *)
(*                                                                         *)
(* A client is a thread of the web server or a command-line process; each  *)
(* opens the lock file itself, so flock excludes them all from each other. *)
(* A client's call goes through the steps between which other clients run: *)
(*                                                                         *)
(*   lock     waits for flock(LOCK_EX)                                     *)
(*   read     _read_unlocked, and the decision what to write, if anything  *)
(*   open     opens queue.json.tmp, which truncates it                     *)
(*   dump     writes the new list to it                                    *)
(*   replace  os.replace onto queue.json                                   *)
(*   unlock   flock(LOCK_UN) and close, then the call returns              *)
(*                                                                         *)
(* X_... are slips of X, see QueueOps.                                     *)
(***************************************************************************)
EXTENDS QueueOps

CONSTANTS Clients,   \* threads of the server and command-line processes
          Nobody,    \* the lock is free
          NoResult,  \* nothing returned yet
          MaxAdds    \* bound: how many items are ever submitted

ASSUME QueueStoreAssumption ==
    /\ Nobody \notin Clients
    /\ MaxAdds \in Nat

VARIABLES file,    \* queue.json: its list, and whether it is a whole JSON text
          tmp,     \* queue.json.tmp
          owner,   \* who holds the flock on queue.lock
          pc,      \* pc[c]: the step c is about to take, "idle" between calls
          op,      \* op[c]: the operation of c's call
          snap,    \* snap[c]: the list c read
          result,  \* result[c]: what c's call will return
          carried, \* carried[c]: the item c popped and may have to put back
          issued   \* how many ids have been drawn

vars == <<file, tmp, owner, pc, op, snap, result, carried, issued>>

-----------------------------------------------------------------------------
(* The operations.  Fields an operation does not use have a fixed value.   *)
Kinds    == {"list", "add", "remove", "unblock", "clear", "pop", "mark"}
AnyItem  == NewItem(0, NoTarget)
Ids      == 0 .. MaxAdds
IdItem   == [id : Ids, target : Target, status : Status]
Ops      == [kind : Kinds, item : IdItem, session : Target, scoped : BOOLEAN]

Answers  == [answer : {"ok", "full", "not_found", "none"}, item : IdItem]

ASSUME NoResultAssumption == NoResult \notin Ops \cup Answers

Request(kind, item, session, scoped) ==
    [kind |-> kind, item |-> item, session |-> session, scoped |-> scoped]

Text == [whole : BOOLEAN, list : Seq(IdItem)]
Whole(l) == [whole |-> TRUE, list |-> l]
Torn     == [whole |-> FALSE, list |-> <<>>]

(* _read_unlocked: a file that is not JSON is read as the empty list.      *)
Readable(f) == IF f.whole THEN f.list ELSE <<>>

(* The list and the return value of each operation are those the service   *)
(* promises; this module is about when they are computed and written.      *)
Service == INSTANCE QueueService
             WITH items <- Readable(file),
                  phase <- [c \in Clients |->
                              CASE pc[c] = "idle"   -> "idle"
                                [] pc[c] = "unlock" -> "done"
                                [] OTHER            -> "called"],
                  op    <- op,
                  result <- result

Outcome(c) == Service!Effect(op[c], snap[c])

-----------------------------------------------------------------------------
Init ==
    /\ file = Whole(<<>>)
    /\ tmp = Whole(<<>>)
    /\ owner = Nobody
    /\ pc = [c \in Clients |-> "idle"]
    /\ op = [c \in Clients |-> NoResult]
    /\ snap = [c \in Clients |-> <<>>]
    /\ result = [c \in Clients |-> NoResult]
    /\ carried = [c \in Clients |-> AnyItem]
    /\ issued = 0

Goto(c, step) == pc' = [pc EXCEPT ![c] = step]

(* The call is over and its local variables with it. *)
LeaveCall(c) ==
    /\ Goto(c, "idle")
    /\ op' = [op EXCEPT ![c] = NoResult]
    /\ snap' = [snap EXCEPT ![c] = <<>>]
    /\ result' = [result EXCEPT ![c] = NoResult]

Enter(c, o) ==
    /\ pc[c] = "idle"
    /\ Goto(c, "lock")
    /\ op' = [op EXCEPT ![c] = o]
    /\ UNCHANGED <<file, tmp, owner, snap, result>>

(* add draws a fresh uuid for the item. *)
CallAdd(c) ==
    /\ issued < MaxAdds
    /\ \E t \in Target :
          Enter(c, Request("add", NewItem(issued + 1, t), NoTarget, FALSE))
    /\ issued' = issued + 1
    /\ UNCHANGED carried

(* remove and unblock are given an id the user saw in the list. *)
CallById(c, kind) ==
    /\ \E i \in 1 .. issued :
          Enter(c, Request(kind, NewItem(i, NoTarget), NoTarget, FALSE))
    /\ UNCHANGED <<carried, issued>>

CallPlain(c, kind) ==
    /\ Enter(c, Request(kind, AnyItem, NoTarget, FALSE))
    /\ UNCHANGED <<carried, issued>>

(* pop_next, for the drain: for any session, or only for the one that stopped. *)
CallPop(c) ==
    /\ carried[c] = AnyItem
    /\ \/ Enter(c, Request("pop", AnyItem, NoTarget, FALSE))
       \/ \E s \in Target : Enter(c, Request("pop", AnyItem, s, TRUE))
    /\ UNCHANGED <<carried, issued>>

(* mark_blocked puts back the item this client popped. *)
CallMark(c) ==
    /\ carried[c] # AnyItem
    /\ Enter(c, Request("mark", carried[c], NoTarget, FALSE))
    /\ carried' = [carried EXCEPT ![c] = AnyItem]
    /\ UNCHANGED issued

(* The drain delivered the item it popped and is done with it. *)
Deliver(c) ==
    /\ pc[c] = "idle" /\ carried[c] # AnyItem
    /\ carried' = [carried EXCEPT ![c] = AnyItem]
    /\ UNCHANGED <<file, tmp, owner, pc, op, snap, result, issued>>

Call(c) ==
    \/ CallAdd(c)
    \/ \E kind \in {"remove", "unblock"} : CallById(c, kind)
    \/ \E kind \in {"list", "clear"} : CallPlain(c, kind)
    \/ CallPop(c)
    \/ CallMark(c)
    \/ Deliver(c)

-----------------------------------------------------------------------------
Lock_OwnFile(c) ==
    /\ pc[c] = "lock"
    /\ owner' = c
    /\ Goto(c, "read")
    /\ UNCHANGED <<file, tmp, op, snap, result, carried, issued>>

Lock(c) ==
    /\ pc[c] = "lock" /\ owner = Nobody
    /\ owner' = c
    /\ Goto(c, "read")
    /\ UNCHANGED <<file, tmp, op, snap, result, carried, issued>>

(* _read_unlocked returns this list, and the operation decides. *)
ReadAs(c, list) ==
    /\ pc[c] = "read"
    /\ snap' = [snap EXCEPT ![c] = list]
    /\ LET effect == Service!Effect(op[c], list)
       IN  IF effect.writes
           THEN /\ Goto(c, "open")
                /\ UNCHANGED result
           ELSE /\ Goto(c, "unlock")
                /\ result' = [result EXCEPT ![c] = effect.result]
    /\ UNCHANGED <<file, tmp, owner, op, carried, issued>>

Read(c) == ReadAs(c, Readable(file))

OpenTmp(c) ==
    /\ pc[c] = "open"
    /\ tmp' = Torn
    /\ Goto(c, "dump")
    /\ UNCHANGED <<file, owner, op, snap, result, carried, issued>>

Dump(c) ==
    /\ pc[c] = "dump"
    /\ tmp' = Whole(Outcome(c).list)
    /\ Goto(c, "replace")
    /\ UNCHANGED <<file, owner, op, snap, result, carried, issued>>

Replace(c) ==
    /\ pc[c] = "replace"
    /\ file' = tmp
    /\ result' = [result EXCEPT ![c] = Outcome(c).result]
    /\ Goto(c, "unlock")
    /\ UNCHANGED <<tmp, owner, op, snap, carried, issued>>

(* The call returns; a pop hands its item to the drain. *)
Unlock(c) ==
    /\ pc[c] = "unlock"
    /\ owner' = Nobody
    /\ carried' = IF op[c].kind = "pop" /\ result[c].answer = "ok"
                  THEN [carried EXCEPT ![c] = result[c].item] ELSE carried
    /\ LeaveCall(c)
    /\ UNCHANGED <<file, tmp, issued>>

WriteFails_NoFinally(c) ==
    /\ pc[c] \in {"open", "dump", "replace"}
    /\ LeaveCall(c)
    /\ UNCHANGED <<file, tmp, owner, carried, issued>>

(* The disk is full or the directory is gone: open, dump or replace raises *)
(* OSError, and the lock is released on the way out (finally).             *)
WriteFails(c) ==
    /\ pc[c] \in {"open", "dump", "replace"}
    /\ owner' = Nobody
    /\ LeaveCall(c)
    /\ UNCHANGED <<file, tmp, carried, issued>>

(* The process of c dies at any step, between two calls too.  The kernel   *)
(* closes its descriptors, which frees its flock; what it carried is gone. *)
Crash(c) ==
    /\ pc[c] # "idle" \/ carried[c] # AnyItem
    /\ owner' = IF owner = c THEN Nobody ELSE owner
    /\ carried' = [carried EXCEPT ![c] = AnyItem]
    /\ LeaveCall(c)
    /\ UNCHANGED <<file, tmp, issued>>

Step(c) == \/ Read(c) \/ OpenTmp(c) \/ Dump(c)
           \/ Replace(c) \/ Unlock(c)

Next == \E c \in Clients :
            \/ Call(c)
            \/ Lock(c)
            \/ Step(c)
            \/ WriteFails(c)
            \/ Crash(c)

(* The file is there but cannot be opened or read now (no descriptor left, *)
(* an I/O error): _read_unlocked takes it for an empty list.  It is no     *)
(* part of Next: Spec is the store on a file system that reads back what   *)
(* was written, SpecMisread the one on which reading may fail.             *)
ReadFails(c) == Readable(file) # <<>> /\ ReadAs(c, <<>>)

(* A client that runs goes on; nothing is assumed about who gets the lock. *)
Fairness == \A c \in Clients : WF_vars(Step(c))

Spec == Init /\ [][Next]_vars /\ Fairness

SpecMisread == Init /\ [][Next \/ \E c \in Clients : ReadFails(c)]_vars

-----------------------------------------------------------------------------
Steps == {"idle", "lock", "read", "open", "dump", "replace", "unlock"}

TypeOK ==
    /\ file \in Text /\ tmp \in Text
    /\ owner \in Clients \cup {Nobody}
    /\ pc \in [Clients -> Steps]
    /\ op \in [Clients -> Ops \cup {NoResult}]
    /\ \A c \in Clients : (op[c] = NoResult) <=> (pc[c] = "idle")
    /\ snap \in [Clients -> Seq(IdItem)]
    /\ result \in [Clients -> Answers \cup {NoResult}]
    /\ \A c \in Clients : (result[c] = NoResult) <=> (pc[c] # "unlock")
    /\ carried \in [Clients -> IdItem]
    /\ issued \in Ids

(* The flock excludes every other client, thread or process, from the      *)
(* first read to the end of the call, and is held by nobody else, so that  *)
(* whatever raises or dies leaves it free.                                 *)
Holding == {"read", "open", "dump", "replace", "unlock"}

LockExcludes == \A c \in Clients : pc[c] \in Holding <=> owner = c

(* What a client read is still what the file says when it writes: nobody   *)
(* slips a write in between the read and the replacement (the lost update  *)
(* the docstring of queue_store.py takes flock for), and what it is about  *)
(* to move over the file is the whole new list and not another client's.   *)
ReadIsCurrent ==
    \A c \in Clients :
        /\ pc[c] \in {"open", "dump", "replace"} => snap[c] = Readable(file)
        /\ pc[c] = "replace" => tmp = Whole(Outcome(c).list)

(* Every call takes effect at one moment, however calls, failures and      *)
(* crashes interleave: the store implements the queue service.             *)
Linearizable == Service!Spec

(* Design rule 3 of queue_store.py, no silent loss: an item leaves the     *)
(* list only because it was removed by its id, popped, or cleared.         *)
NoSilentLoss ==
    [][\A k \in DOMAIN Readable(file) :
          \/ Readable(file)[k].id \in IdsOf(Readable(file'))
          \/ \E c \in Clients :
                /\ pc[c] = "replace"
                /\ \/ op[c].kind = "clear"
                   \/ /\ op[c].kind \in {"pop", "remove"}
                      /\ Outcome(c).result.item.id = Readable(file)[k].id]_vars

(* The lock is never held for good, whichever step raises or dies. *)
LockReleased == []<>(owner = Nobody)
=============================================================================
