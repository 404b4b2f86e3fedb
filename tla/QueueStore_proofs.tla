-------------------------- MODULE QueueStore_proofs --------------------------
(***************************************************************************)
(* The file-locked store of QueueStore, for any number of clients, items   *)
(* and crashes: its types, the exclusion of the lock, that what a client   *)
(* read is current until it has written, and from that the implementation  *)
(* of QueueService.                                                        *)
(***************************************************************************)
EXTENDS QueueStore, QueueOps_proofs

-----------------------------------------------------------------------------
(* The operators of the service are those of QueueOps. *)
LEMMA SameOperators ==
    ASSUME NEW q, NEW x, NEW i, NEW session, NEW scoped
    PROVE  /\ Service!IsFull(q) = IsFull(q)
           /\ Service!Added(q, x) = Added(q, x)
           /\ Service!RemoveAt(q, i) = RemoveAt(q, i)
           /\ Service!Unblocked(q, i) = Unblocked(q, i)
           /\ Service!IndexOf(q, i) = IndexOf(q, i)
           /\ Service!NextIndex(q, session, scoped) = NextIndex(q, session, scoped)
           /\ Service!Reinsert(q, x) = Reinsert(q, x)
<1>1. Service!IsFull(q) = IsFull(q)
    BY DEF Service!IsFull, IsFull
<1>2. Service!Added(q, x) = Added(q, x)
    BY DEF Service!Added, Added
<1>3. Service!RemoveAt(q, i) = RemoveAt(q, i)
    BY DEF Service!RemoveAt, RemoveAt
<1>4. Service!Unblocked(q, i) = Unblocked(q, i)
    BY DEF Service!Unblocked, Unblocked, Service!ReplaceAt, ReplaceAt
<1>5. Service!IndexOf(q, i) = IndexOf(q, i)
    BY DEF Service!IndexOf, IndexOf, Service!SelectInSeq, SelectInSeq, Service!Min, Min
<1>6. Service!NextIndex(q, session, scoped) = NextIndex(q, session, scoped)
    BY DEF Service!NextIndex, NextIndex, Service!SelectInSeq, SelectInSeq,
           Service!Min, Min, Service!Eligible, Eligible
<1>7. Service!Reinsert(q, x) = Reinsert(q, x)
    BY DEF Service!Reinsert, Reinsert, Service!SelectLastInSeq, SelectLastInSeq,
           Service!Max, Max, Service!InsertAt, InsertAt
<1> QED
    BY <1>1, <1>2, <1>3, <1>4, <1>5, <1>6, <1>7

(* Every operation of the service turns a list of items into one, and one  *)
(* that does not write leaves the list as it is.                           *)
LEMMA EffectType ==
    ASSUME NEW o \in Ops, NEW q \in Seq(IdItem)
    PROVE  LET e == Service!Effect(o, q)
           IN  /\ e.writes \in BOOLEAN
               /\ e.list \in Seq(IdItem)
               /\ e.result \in Answers
               /\ ~e.writes => e.list = q
<1> DEFINE at == IndexOf(q, o.item.id)
           next == NextIndex(q, o.session, o.scoped)
<1>1. o.item \in IdItem /\ o.kind \in Kinds
    BY DEF Ops
<1>2. at \in 0 .. Len(q)
    BY IndexOfProperties
<1>3. next \in 0 .. Len(q)
    BY NextIndexProperties
<1>4. Added(q, o.item) \in Seq(IdItem)
    BY <1>1, AppendProperties DEF Added
<1>5. \A k \in 1 .. Len(q) : RemoveAt(q, k) \in Seq(IdItem)
    BY RemoveAtProperties
<1>6. \A k \in 1 .. Len(q) : Unblocked(q, k) \in Seq(IdItem)
    <2> SUFFICES ASSUME NEW k \in 1 .. Len(q)
                 PROVE  Unblocked(q, k) \in Seq(IdItem)
        OBVIOUS
    <2>1. q[k] \in IdItem
        BY ElementOfSeq
    <2>2. [q[k] EXCEPT !.status = "pending"] \in IdItem
        BY <2>1 DEF IdItem, Status
    <2> QED
        BY <2>2, ExceptSeq DEF Unblocked, ReplaceAt
<1>7. Reinsert(q, o.item) \in Seq(IdItem)
    <2>1. [o.item EXCEPT !.status = "blocked"] \in IdItem
        BY <1>1 DEF IdItem, Status
    <2>2. PICK k \in 1 .. Len(q) + 1 :
              Reinsert(q, o.item) = InsertAt(q, k, [o.item EXCEPT !.status = "blocked"])
        BY ReinsertProperties
    <2> QED
        BY <2>1, <2>2, InsertAtProperties
<1>8. next # 0 => q[next] \in IdItem
    BY <1>3, ElementOfSeq, LenProperties
<1>9. <<>> \in Seq(IdItem)
    OBVIOUS
<1> DEFINE Keep(answer)   == [writes |-> FALSE, list |-> q,
                              result |-> [answer |-> answer, item |-> o.item]]
           Write(l, item) == [writes |-> TRUE, list |-> l,
                              result |-> [answer |-> "ok", item |-> item]]
           Good(e) == /\ e.writes \in BOOLEAN
                      /\ e.list \in Seq(IdItem)
                      /\ e.result \in Answers
                      /\ ~e.writes => e.list = q
<1>10. \A answer \in {"ok", "full", "not_found", "none"} : Good(Keep(answer))
    BY <1>1 DEF Answers
<1>11. \A l \in Seq(IdItem), item \in IdItem : Good(Write(l, item))
    BY DEF Answers
<1> SUFFICES Good(Service!Effect(o, q))
    OBVIOUS
<1> HIDE DEF at, next, Good
<1>20. CASE o.kind = "list"
    <2>1. Service!Effect(o, q) = Keep("ok")
        BY <1>20 DEF Service!Effect
    <2> QED
        BY <2>1, <1>10
<1>21. CASE o.kind = "add"
    <2>1. Service!Effect(o, q) = IF IsFull(q) THEN Keep("full") ELSE Write(Added(q, o.item), o.item)
        BY <1>21, SameOperators DEF Service!Effect
    <2> QED
        BY <2>1, <1>1, <1>4, <1>10, <1>11
<1>22. CASE o.kind = "remove"
    <2>1. Service!Effect(o, q) = IF at = 0 THEN Keep("not_found") ELSE Write(RemoveAt(q, at), o.item)
        BY <1>22, SameOperators DEF Service!Effect, at
    <2> QED
        BY <2>1, <1>1, <1>2, <1>5, <1>10, <1>11
<1>23. CASE o.kind = "unblock"
    <2>1. Service!Effect(o, q) = IF at = 0 THEN Keep("not_found") ELSE Write(Unblocked(q, at), o.item)
        BY <1>23, SameOperators DEF Service!Effect, at
    <2> QED
        BY <2>1, <1>1, <1>2, <1>6, <1>10, <1>11
<1>24. CASE o.kind = "clear"
    <2>1. Service!Effect(o, q) = Write(<<>>, o.item)
        BY <1>24 DEF Service!Effect
    <2> QED
        BY <2>1, <1>1, <1>9, <1>11
<1>25. CASE o.kind = "pop"
    <2>1. Service!Effect(o, q) = IF next = 0 THEN Keep("none") ELSE Write(RemoveAt(q, next), q[next])
        BY <1>25, SameOperators DEF Service!Effect, next
    <2> QED
        BY <2>1, <1>3, <1>5, <1>8, <1>10, <1>11
<1>26. CASE o.kind = "mark"
    <2>1. Service!Effect(o, q) = Write(Reinsert(q, o.item), o.item)
        BY <1>26, SameOperators DEF Service!Effect
    <2> QED
        BY <2>1, <1>1, <1>7, <1>11
<1> QED
    BY <1>1, <1>20, <1>21, <1>22, <1>23, <1>24, <1>25, <1>26 DEF Kinds

-----------------------------------------------------------------------------
(* The inductive invariant: the types, the lock, and what holds of the     *)
(* snapshot and of the temporary file while the lock is held.              *)
IInv == TypeOK /\ LockExcludes /\ ReadIsCurrent

(* It holds of the empty queue with nobody at it.                          *)
LEMMA InitIInv == Init => IInv
<1> SUFFICES ASSUME Init PROVE IInv
    OBVIOUS
<1>1. AnyItem \in IdItem
    BY QueueStoreAssumption DEF AnyItem, NewItem, IdItem, Ids, Target, Status
<1>2. TypeOK
    BY <1>1, QueueStoreAssumption
    DEF Init, TypeOK, Text, Whole, Steps, Ids
<1>3. LockExcludes
    BY QueueStoreAssumption DEF Init, LockExcludes, Holding
<1>4. ReadIsCurrent
    BY DEF Init, ReadIsCurrent
<1> QED
    BY <1>2, <1>3, <1>4 DEF IInv

(* A call starts: of the steps only pc and op change.                      *)
LEMMA EnterIInv ==
    ASSUME IInv, NEW c \in Clients, NEW o \in Ops, Enter(c, o),
           carried' \in [Clients -> IdItem], issued' \in Ids
    PROVE  IInv'
<1>1. TypeOK'
    BY NoResultAssumption DEF IInv, TypeOK, Enter, Goto, Steps
<1>2. LockExcludes'
    BY DEF IInv, TypeOK, LockExcludes, Enter, Goto, Holding
<1>3. ReadIsCurrent'
    BY DEF IInv, TypeOK, ReadIsCurrent, Enter, Goto, Readable, Outcome
<1> QED
    BY <1>1, <1>2, <1>3 DEF IInv

(* Every call but the delivery starts with an operation to be done.        *)
LEMMA CallEnters ==
    ASSUME IInv, NEW c \in Clients, Call(c)
    PROVE  \/ Deliver(c)
           \/ \E o \in Ops : /\ Enter(c, o)
                            /\ carried' \in [Clients -> IdItem]
                            /\ issued' \in Ids
<1>1. AnyItem \in IdItem /\ NoTarget \in Target
    BY QueueStoreAssumption DEF AnyItem, NewItem, IdItem, Ids, Target, Status
<1>2. \A i \in Ids, t \in Target : NewItem(i, t) \in IdItem
    BY DEF NewItem, IdItem, Status
<1>3. \A kind \in Kinds, item \in IdItem, s \in Target, scoped \in BOOLEAN :
          Request(kind, item, s, scoped) \in Ops
    BY DEF Request, Ops
<1>4. carried \in [Clients -> IdItem] /\ issued \in Ids
    BY DEF IInv, TypeOK
<1>5. CASE CallAdd(c)
    <2>1. PICK t \in Target : Enter(c, Request("add", NewItem(issued + 1, t), NoTarget, FALSE))
        BY <1>5 DEF CallAdd
    <2>2. issued + 1 \in Ids /\ issued' = issued + 1 /\ carried' = carried
        BY <1>4, <1>5, QueueStoreAssumption DEF CallAdd, Ids
    <2>3. Request("add", NewItem(issued + 1, t), NoTarget, FALSE) \in Ops
        BY <1>1, <1>2, <1>3, <2>2 DEF Kinds
    <2> QED
        BY <1>4, <2>1, <2>2, <2>3
<1>6. ASSUME NEW kind \in {"remove", "unblock"}, CallById(c, kind)
      PROVE  \E o \in Ops : Enter(c, o) /\ carried' = carried /\ issued' = issued
    <2>1. PICK i \in 1 .. issued : Enter(c, Request(kind, NewItem(i, NoTarget), NoTarget, FALSE))
        BY <1>6 DEF CallById
    <2>2. i \in Ids /\ issued' = issued /\ carried' = carried
        BY <1>4, <1>6, QueueStoreAssumption DEF CallById, Ids
    <2>3. Request(kind, NewItem(i, NoTarget), NoTarget, FALSE) \in Ops
        BY <1>1, <1>2, <1>3, <2>2 DEF Kinds
    <2> QED
        BY <2>1, <2>2, <2>3
<1>7. ASSUME NEW kind \in {"list", "clear"}, CallPlain(c, kind)
      PROVE  \E o \in Ops : Enter(c, o) /\ carried' = carried /\ issued' = issued
    <2>1. Request(kind, AnyItem, NoTarget, FALSE) \in Ops
        BY <1>1, <1>3 DEF Kinds
    <2> QED
        BY <1>7, <2>1 DEF CallPlain
<1>8. CASE CallPop(c)
    <2>1. \A s \in Target, scoped \in BOOLEAN : Request("pop", AnyItem, s, scoped) \in Ops
        BY <1>1, <1>3 DEF Kinds
    <2>2. PICK s \in Target, scoped \in BOOLEAN : Enter(c, Request("pop", AnyItem, s, scoped))
        BY <1>1, <1>8 DEF CallPop
    <2>3. carried' = carried /\ issued' = issued
        BY <1>8 DEF CallPop
    <2> QED
        BY <1>4, <2>1, <2>2, <2>3
<1>9. CASE CallMark(c)
    <2>1. Request("mark", carried[c], NoTarget, FALSE) \in Ops
        BY <1>1, <1>3, <1>4 DEF Kinds
    <2>2. Enter(c, Request("mark", carried[c], NoTarget, FALSE))
        BY <1>9 DEF CallMark
    <2>3. carried' \in [Clients -> IdItem] /\ issued' = issued
        BY <1>1, <1>4, <1>9 DEF CallMark
    <2> QED
        BY <1>4, <2>1, <2>2, <2>3
<1> QED
    BY <1>4, <1>5, <1>6, <1>7, <1>8, <1>9 DEF Call

(* Every way to start a call, and the delivery between two calls, keeps    *)
(* the invariant.                                                          *)
LEMMA CallIInv ==
    ASSUME IInv, NEW c \in Clients, Call(c)
    PROVE  IInv'
<1>1. CASE Deliver(c)
    <2>1. AnyItem \in IdItem
        BY QueueStoreAssumption DEF AnyItem, NewItem, IdItem, Ids, Target, Status
    <2>2. TypeOK'
        BY <1>1, <2>1 DEF Deliver, IInv, TypeOK
    <2>3. LockExcludes' /\ ReadIsCurrent'
        BY <1>1 DEF Deliver, IInv, LockExcludes, ReadIsCurrent, Readable, Outcome
    <2> QED
        BY <2>2, <2>3 DEF IInv
<1>2. CASE \E o \in Ops : /\ Enter(c, o)
                         /\ carried' \in [Clients -> IdItem]
                         /\ issued' \in Ids
    BY <1>2, EnterIInv
<1> QED
    BY <1>1, <1>2, CallEnters

(* The lock is taken by one client only when it is free.                   *)
LEMMA LockIInv ==
    ASSUME IInv, NEW c \in Clients, Lock(c)
    PROVE  IInv'
<1>1. TypeOK'
    BY DEF IInv, TypeOK, Lock, Goto, Steps
<1>2. LockExcludes'
    BY QueueStoreAssumption DEF IInv, TypeOK, LockExcludes, Lock, Goto, Holding
<1>3. ReadIsCurrent'
    BY DEF IInv, TypeOK, ReadIsCurrent, Lock, Goto, Readable, Outcome
<1> QED
    BY <1>1, <1>2, <1>3 DEF IInv

(* The facts of the invariant about one client that is at work on the file: *)
(* no other one is.                                                         *)
LEMMA AtWork ==
    ASSUME IInv, NEW c \in Clients, pc[c] \in Holding
    PROVE  /\ owner = c
           /\ \A d \in Clients : d # c => pc[d] \notin Holding
           /\ op[c] \in Ops
           /\ Readable(file) \in Seq(IdItem)
           /\ snap[c] \in Seq(IdItem)
<1>1. owner = c /\ \A d \in Clients : d # c => pc[d] \notin Holding
    BY DEF IInv, LockExcludes
<1>2. op[c] \in Ops
    BY DEF IInv, TypeOK, Holding
<1>3. Readable(file) \in Seq(IdItem) /\ snap[c] \in Seq(IdItem)
    BY DEF IInv, TypeOK, Text, Readable
<1> QED
    BY <1>1, <1>2, <1>3

(* What a client reads is the file, and is so until it has written.        *)
LEMMA ReadIInv ==
    ASSUME IInv, NEW c \in Clients, Read(c)
    PROVE  IInv'
<1> DEFINE e == Service!Effect(op[c], Readable(file))
<1>1. pc[c] \in Holding
    BY DEF Read, ReadAs, Holding
<1>2. e.result \in Answers /\ e.writes \in BOOLEAN
    BY <1>1, AtWork, EffectType
<1>3. /\ snap' = [snap EXCEPT ![c] = Readable(file)]
      /\ UNCHANGED <<file, tmp, owner, op, carried, issued>>
      /\ pc[c] = "read"
    BY DEF Read, ReadAs
<1>4. \/ pc' = [pc EXCEPT ![c] = "open"] /\ result' = result
      \/ /\ pc' = [pc EXCEPT ![c] = "unlock"]
         /\ result' = [result EXCEPT ![c] = e.result]
    BY DEF Read, ReadAs, Goto
<1> HIDE DEF e
<1>5. Readable(file) \in Seq(IdItem)
    BY <1>1, AtWork
<1>6. TypeOK'
    BY <1>2, <1>3, <1>4, <1>5, NoResultAssumption DEF IInv, TypeOK, Steps
<1>7. LockExcludes'
    BY <1>3, <1>4 DEF IInv, TypeOK, LockExcludes, Holding
<1>8. ReadIsCurrent'
    BY <1>1, <1>3, <1>4, AtWork DEF IInv, TypeOK, ReadIsCurrent, Readable, Outcome, Holding
<1> QED
    BY <1>6, <1>7, <1>8 DEF IInv

(* The temporary file is opened by the holder of the lock.                 *)
LEMMA OpenTmpIInv ==
    ASSUME IInv, NEW c \in Clients, OpenTmp(c)
    PROVE  IInv'
<1>1. pc[c] \in Holding
    BY DEF OpenTmp, Holding
<1>2. TypeOK'
    BY DEF IInv, TypeOK, OpenTmp, Goto, Steps, Text, Torn
<1>3. LockExcludes'
    BY DEF IInv, TypeOK, LockExcludes, OpenTmp, Goto, Holding
<1>4. ReadIsCurrent'
    BY <1>1, AtWork DEF IInv, TypeOK, ReadIsCurrent, OpenTmp, Goto, Readable, Outcome, Holding
<1> QED
    BY <1>2, <1>3, <1>4 DEF IInv

(* The temporary file then holds the new list of the holder, and of nobody *)
(* else.                                                                   *)
LEMMA DumpIInv ==
    ASSUME IInv, NEW c \in Clients, Dump(c)
    PROVE  IInv'
<1>1. pc[c] \in Holding
    BY DEF Dump, Holding
<1>2. Outcome(c).list \in Seq(IdItem)
    BY <1>1, AtWork, EffectType DEF Outcome
<1>3. /\ tmp' = Whole(Outcome(c).list)
      /\ pc' = [pc EXCEPT ![c] = "replace"]
      /\ UNCHANGED <<file, owner, op, snap, result, carried, issued>>
      /\ pc[c] = "dump"
    BY DEF Dump, Goto
<1>4. tmp' \in Text
    BY <1>2, <1>3 DEF Text, Whole
<1>5. TypeOK'
    BY <1>3, <1>4 DEF IInv, TypeOK, Steps
<1>6. LockExcludes'
    BY <1>3 DEF IInv, TypeOK, LockExcludes, Holding
<1>7. Outcome(c)' = Outcome(c)
    BY <1>3 DEF Outcome
<1>8. ReadIsCurrent'
    BY <1>1, <1>3, <1>7, AtWork DEF IInv, TypeOK, ReadIsCurrent, Readable, Holding
<1> QED
    BY <1>5, <1>6, <1>8 DEF IInv

(* The file is replaced when nobody else relies on what it read.           *)
LEMMA ReplaceIInv ==
    ASSUME IInv, NEW c \in Clients, Replace(c)
    PROVE  IInv'
<1>1. pc[c] \in Holding
    BY DEF Replace, Holding
<1>2. Outcome(c).result \in Answers
    BY <1>1, AtWork, EffectType DEF Outcome
<1>3. /\ file' = tmp
      /\ result' = [result EXCEPT ![c] = Outcome(c).result]
      /\ pc' = [pc EXCEPT ![c] = "unlock"]
      /\ UNCHANGED <<tmp, owner, op, snap, carried, issued>>
      /\ pc[c] = "replace"
    BY DEF Replace, Goto
<1>4. TypeOK'
    BY <1>2, <1>3, NoResultAssumption DEF IInv, TypeOK, Steps
<1>5. LockExcludes'
    BY <1>3 DEF IInv, TypeOK, LockExcludes, Holding
<1>6. ReadIsCurrent'
    BY <1>1, <1>3, AtWork DEF IInv, TypeOK, ReadIsCurrent, Holding
<1> QED
    BY <1>4, <1>5, <1>6 DEF IInv

(* A client that leaves its call, in whatever way, lets the lock go if it  *)
(* has it and leaves the files alone.                                      *)
LEMMA LeaveIInv ==
    ASSUME IInv, NEW c \in Clients, LeaveCall(c),
           UNCHANGED <<file, tmp, issued>>,
           carried' \in [Clients -> IdItem],
           owner' = IF owner = c THEN Nobody ELSE owner
    PROVE  IInv'
<1>1. TypeOK'
    <2>1. /\ owner' \in Clients \cup {Nobody}
          /\ pc' \in [Clients -> Steps]
          /\ op' \in [Clients -> Ops \cup {NoResult}]
          /\ result' \in [Clients -> Answers \cup {NoResult}]
        BY DEF IInv, TypeOK, LeaveCall, Goto, Steps
    <2>2. <<>> \in Seq(IdItem)
        OBVIOUS
    <2>3. snap' \in [Clients -> Seq(IdItem)]
        BY <2>2 DEF IInv, TypeOK, LeaveCall
    <2>4. \A d \in Clients : /\ (op[d] = NoResult)' <=> (pc[d] = "idle")'
                             /\ (result[d] = NoResult)' <=> (pc[d] # "unlock")'
        BY DEF IInv, TypeOK, LeaveCall, Goto
    <2> QED
        BY <2>1, <2>3, <2>4 DEF IInv, TypeOK
<1>2. LockExcludes'
    BY QueueStoreAssumption DEF IInv, TypeOK, LockExcludes, LeaveCall, Goto, Holding
<1>3. ReadIsCurrent'
    BY DEF IInv, TypeOK, ReadIsCurrent, LeaveCall, Goto, Readable, Outcome
<1> QED
    BY <1>1, <1>2, <1>3 DEF IInv

(* The return of the call.                                                 *)
LEMMA UnlockIInv ==
    ASSUME IInv, NEW c \in Clients, Unlock(c)
    PROVE  IInv'
<1>1. pc[c] \in Holding /\ pc[c] = "unlock"
    BY DEF Unlock, Holding
<1>2. owner = c
    BY <1>1, AtWork
<1>3. result[c] \in Answers
    BY <1>1 DEF IInv, TypeOK
<1>4. result[c].item \in IdItem
    BY <1>3 DEF Answers
<1>5. carried' \in [Clients -> IdItem]
    BY <1>4 DEF Unlock, IInv, TypeOK
<1> QED
    BY <1>2, <1>5, LeaveIInv DEF Unlock

(* The failure of a write and the death of a client.                       *)
LEMMA FailureIInv ==
    ASSUME IInv, NEW c \in Clients, WriteFails(c) \/ Crash(c)
    PROVE  IInv'
<1>1. AnyItem \in IdItem
    BY QueueStoreAssumption DEF AnyItem, NewItem, IdItem, Ids, Target, Status
<1>2. CASE WriteFails(c)
    <2>1. pc[c] \in Holding
        BY <1>2 DEF WriteFails, Holding
    <2>2. carried' \in [Clients -> IdItem]
        BY <1>2 DEF WriteFails, IInv, TypeOK
    <2> QED
        BY <1>2, <2>1, <2>2, AtWork, LeaveIInv DEF WriteFails
<1>3. CASE Crash(c)
    <2>1. carried' \in [Clients -> IdItem]
        BY <1>1, <1>3 DEF Crash, IInv, TypeOK
    <2> QED
        BY <1>3, <2>1, LeaveIInv DEF Crash
<1> QED
    BY <1>2, <1>3

(* The invariant is inductive.                                             *)
LEMMA NextIInv == IInv /\ [Next]_vars => IInv'
<1> SUFFICES ASSUME IInv, [Next]_vars PROVE IInv'
    OBVIOUS
<1>1. CASE UNCHANGED vars
    BY <1>1 DEF vars, IInv, TypeOK, LockExcludes, ReadIsCurrent, Readable, Outcome
<1>2. ASSUME NEW c \in Clients,
             \/ Call(c) \/ Lock(c) \/ Step(c) \/ WriteFails(c) \/ Crash(c)
      PROVE  IInv'
    BY <1>2, CallIInv, LockIInv, ReadIInv, OpenTmpIInv, DumpIInv, ReplaceIInv,
       UnlockIInv, FailureIInv DEF Step
<1> QED
    BY <1>1, <1>2 DEF Next

(* So it holds in every state.                                             *)
THEOREM Invariance == Spec => []IInv
<1>1. Init => IInv
    BY InitIInv
<1>2. IInv /\ [Next]_vars => IInv'
    BY NextIInv
<1> QED
    BY <1>1, <1>2, PTL DEF Spec

(* Every variable of the store always has its type; in particular no call  *)
(* ever writes anything but a list of items.                               *)
THEOREM TypeCorrect == Spec => []TypeOK
<1>1. IInv => TypeOK
    BY DEF IInv
<1> QED
    BY <1>1, Invariance, PTL

(* The lock of _locked excludes all clients from one another from the read *)
(* to the return of a call, and is free when they are outside.             *)
THEOREM Exclusion == Spec => []LockExcludes
<1>1. IInv => LockExcludes
    BY DEF IInv
<1> QED
    BY <1>1, Invariance, PTL

(* No update of queue.json is ever lost: what a call decided upon is still *)
(* in the file when it writes, and it writes a whole list of its own.      *)
THEOREM NoLostUpdate == Spec => []ReadIsCurrent
<1>1. IInv => ReadIsCurrent
    BY DEF IInv
<1> QED
    BY <1>1, Invariance, PTL

-----------------------------------------------------------------------------
(* The refinement: to the service, a call is made when it starts to wait   *)
(* for the lock, takes effect when it replaces the file (or, when it has   *)
(* nothing to write, when it reads it) and returns when it unlocks.        *)
LEMMA InitRefines == Init => Service!Init
BY DEF Init, Service!Init, Readable, Whole

(* What the client sees of the steps in between is nothing.                *)
LEMMA Stutter ==
    ASSUME IInv, NEW c \in Clients, NEW step \in {"read", "dump", "open", "replace"},
           pc[c] \in {"lock", "read", "open", "dump"},
           pc' = [pc EXCEPT ![c] = step],
           UNCHANGED <<file, op, result>>
    PROVE  UNCHANGED Service!vars
<1> DEFINE P(s) == CASE s = "idle"   -> "idle"
                     [] s = "unlock" -> "done"
                     [] OTHER        -> "called"
<1>1. \A d \in Clients : P(pc'[d]) = P(pc[d])
    BY DEF IInv, TypeOK, Steps
<1>2. [d \in Clients |-> P(pc'[d])] = [d \in Clients |-> P(pc[d])]
    BY <1>1
<1>3. Readable(file)' = Readable(file)
    BY DEF Readable
<1> QED
    BY <1>2, <1>3 DEF Service!vars

(* A step that moves client c and no other one moves its phase and no      *)
(* other one.                                                              *)
LEMMA PhaseMoves ==
    ASSUME IInv, NEW c \in Clients, NEW step \in Steps,
           pc' = [pc EXCEPT ![c] = step]
    PROVE  LET P(s) == CASE s = "idle"   -> "idle"
                         [] s = "unlock" -> "done"
                         [] OTHER        -> "called"
           IN  [d \in Clients |-> P(pc'[d])]
                 = [[d \in Clients |-> P(pc[d])] EXCEPT ![c] = P(step)]
BY DEF IInv, TypeOK

(* Calling is calling.                                                     *)
LEMMA EnterRefines ==
    ASSUME IInv, NEW c \in Clients, NEW o \in Ops, Enter(c, o)
    PROVE  Service!Call(c)
<1>1. pc[c] = "idle" /\ pc' = [pc EXCEPT ![c] = "lock"] /\ op' = [op EXCEPT ![c] = o]
    BY DEF Enter, Goto
<1>2. file' = file /\ result' = result
    BY DEF Enter
<1>3. Readable(file)' = Readable(file)
    BY <1>2 DEF Readable
<1> QED
    BY <1>1, <1>2, <1>3, PhaseMoves DEF Service!Call, Steps

(* A call takes effect when its client gets to the unlock step with the    *)
(* list and the result the service promises for the list it finds.         *)
LEMMA EffectRefines ==
    ASSUME IInv, NEW c \in Clients, pc[c] \in {"read", "replace"},
           pc' = [pc EXCEPT ![c] = "unlock"], op' = op,
           Readable(file)' = Service!Effect(op[c], Readable(file)).list,
           result' = [result EXCEPT ![c] = Service!Effect(op[c], Readable(file)).result]
    PROVE  Service!TakeEffect(c)
BY PhaseMoves DEF Service!TakeEffect, Steps

(* A call without anything to write takes effect when it reads.            *)
LEMMA ReadRefines ==
    ASSUME IInv, NEW c \in Clients, Read(c)
    PROVE  [Service!Next]_(Service!vars)
<1> DEFINE e == Service!Effect(op[c], Readable(file))
<1>1. pc[c] = "read" /\ file' = file /\ op' = op
    BY DEF Read, ReadAs
<1>2. e.writes \in BOOLEAN /\ (~e.writes => e.list = Readable(file))
    BY <1>1, AtWork, EffectType DEF Holding
<1>3. CASE e.writes
    <2>1. pc' = [pc EXCEPT ![c] = "open"] /\ result' = result
        BY <1>3 DEF Read, ReadAs, Goto
    <2> QED
        BY <1>1, <2>1, Stutter
<1>4. CASE ~e.writes
    <2>1. pc' = [pc EXCEPT ![c] = "unlock"] /\ result' = [result EXCEPT ![c] = e.result]
        BY <1>4 DEF Read, ReadAs, Goto
    <2>2. Readable(file)' = e.list
        BY <1>1, <1>2, <1>4 DEF Readable
    <2>3. Service!TakeEffect(c)
        BY <1>1, <2>1, <2>2, EffectRefines
    <2> QED
        BY <2>3 DEF Service!Next
<1> QED
    BY <1>2, <1>3, <1>4

(* A call that writes takes effect when it replaces the file: what it read *)
(* is then still what the file says.                                       *)
LEMMA ReplaceRefines ==
    ASSUME IInv, NEW c \in Clients, Replace(c)
    PROVE  Service!TakeEffect(c)
<1>1. /\ pc[c] = "replace" /\ pc' = [pc EXCEPT ![c] = "unlock"]
      /\ file' = tmp /\ op' = op
      /\ result' = [result EXCEPT ![c] = Outcome(c).result]
    BY DEF Replace, Goto
<1>2. Outcome(c) = Service!Effect(op[c], Readable(file))
    BY <1>1 DEF IInv, ReadIsCurrent, Outcome
<1>3. Readable(file)' = Outcome(c).list
    <2>1. file' = Whole(Outcome(c).list)
        BY <1>1 DEF IInv, ReadIsCurrent
    <2> HIDE DEF Outcome
    <2> QED
        BY <2>1 DEF Whole, Readable
<1> QED
    BY <1>1, <1>2, <1>3, EffectRefines

(* The return of a call, its failure and the death of its client.          *)
LEMMA LeaveRefines ==
    ASSUME IInv, NEW c \in Clients, LeaveCall(c), file' = file
    PROVE  Service!Abort(c) /\ (pc[c] = "unlock" => Service!Return(c))
<1>1. pc' = [pc EXCEPT ![c] = "idle"]
    BY DEF LeaveCall, Goto
<1>2. Readable(file)' = Readable(file)
    BY DEF Readable
<1> QED
    BY <1>1, <1>2, PhaseMoves DEF Service!Abort, Service!Return, LeaveCall, Steps, IInv, TypeOK

(* Every step of the store is a step of the service or none.               *)
LEMMA NextRefines ==
    ASSUME IInv, [Next]_vars
    PROVE  [Service!Next]_(Service!vars)
<1>1. CASE UNCHANGED vars
    BY <1>1 DEF vars, Service!vars, Readable
<1>2. ASSUME NEW c \in Clients, Call(c)
      PROVE  [Service!Next]_(Service!vars)
    <2>1. CASE Deliver(c)
        BY <2>1 DEF Deliver, Service!vars, Readable
    <2>2. CASE \E o \in Ops : Enter(c, o)
        BY <2>2, EnterRefines DEF Service!Next
    <2> QED
        BY <1>2, <2>1, <2>2, CallEnters
<1>3. ASSUME NEW c \in Clients, Lock(c)
      PROVE  [Service!Next]_(Service!vars)
    BY <1>3, Stutter DEF Lock, Goto
<1>4. ASSUME NEW c \in Clients, Read(c)
      PROVE  [Service!Next]_(Service!vars)
    BY <1>4, ReadRefines
<1>5. ASSUME NEW c \in Clients, OpenTmp(c) \/ Dump(c)
      PROVE  [Service!Next]_(Service!vars)
    BY <1>5, Stutter DEF OpenTmp, Dump, Goto
<1>6. ASSUME NEW c \in Clients, Replace(c)
      PROVE  [Service!Next]_(Service!vars)
    BY <1>6, ReplaceRefines DEF Service!Next
<1>7. ASSUME NEW c \in Clients, Unlock(c) \/ WriteFails(c) \/ Crash(c)
      PROVE  [Service!Next]_(Service!vars)
    <2>1. LeaveCall(c) /\ file' = file
        BY <1>7 DEF Unlock, WriteFails, Crash
    <2> QED
        BY <2>1, LeaveRefines DEF Service!Next
<1> QED
    BY <1>1, <1>2, <1>3, <1>4, <1>5, <1>6, <1>7 DEF Next, Step

(* The store implements the queue service: whatever clients call, fail and *)
(* die, every operation takes effect on the list at one moment or not at   *)
(* all.                                                                    *)
THEOREM Refinement == Spec => Linearizable
<1>1. Init => Service!Init
    BY InitRefines
<1>2. IInv /\ [Next]_vars => [Service!Next]_(Service!vars)
    BY NextRefines
<1> QED
    BY <1>1, <1>2, Invariance, PTL DEF Spec, Linearizable, Service!Spec
=============================================================================
