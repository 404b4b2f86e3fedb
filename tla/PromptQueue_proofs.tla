-------------------------- MODULE PromptQueue_proofs --------------------------
(***************************************************************************)
(* The prompt queue at work, for any number of prompts, sessions, manual   *)
(* requests and command-line runs.                                         *)
(***************************************************************************)
EXTENDS PromptQueue, QueueOps_proofs, FiniteSetTheorems

-----------------------------------------------------------------------------
(* What the steps and the locks mean: a drain has an item between its pop  *)
(* and its settlement and at no other step, and in the server only the     *)
(* head of the lock's queue is past the lock.                              *)
Inside == {"pop", "send", "mark"}

Control ==
    /\ \A d \in Drainers : held[d] # NoItem <=> pc[d] \in {"send", "mark"}
    /\ \A c \in Cli : pc[c] \notin {"grace", "lock"}
    /\ \A d \in Server : pc[d] \in {"lock"} \cup Inside => \E k \in 1 .. Len(lockQ) : lockQ[k] = d
    /\ \A d \in Server : pc[d] \in Inside => lockQ[1] = d
    /\ \A k, l \in 1 .. Len(lockQ) : lockQ[k] = lockQ[l] => k = l
    /\ \A k \in 1 .. Len(lockQ) : pc[lockQ[k]] \in {"lock"} \cup Inside

(* Nobody is a drain of two kinds, and an item that is no item is of the   *)
(* type of items.                                                          *)
LEMMA Actors ==
    /\ Scheduled \in Server
    /\ \A c \in Cli : c \notin Server
    /\ \A d \in Drainers : d \in Server \/ d \in Cli
    /\ NoItem \in Item
    /\ NoTarget \in Target
BY PromptQueueAssumption DEF Server, Drainers, NoItem, NewItem, Item, Target, Status

(* A drain that ends leaves the controls in order: it is past its lock, or *)
(* has none.                                                               *)
LEMMA FinishControl ==
    ASSUME TypeOK, Control, NEW d \in Drainers, Finish(d),
           d \in Cli \/ pc[d] \in Inside
    PROVE  /\ Control'
           /\ pc' \in [Drainers -> Steps] /\ held' \in [Drainers -> Item]
           /\ stopped' \in Target /\ lockQ' \in Seq(Server)
<1>1. /\ pc' = [pc EXCEPT ![d] = "idle"]
      /\ held' = [held EXCEPT ![d] = NoItem]
      /\ stopped' = IF d = Scheduled THEN NoTarget ELSE stopped
      /\ lockQ' = IF d \in Server THEN Tail(lockQ) ELSE lockQ
    BY DEF Finish, Goto, Release
<1>2. /\ pc' \in [Drainers -> Steps] /\ held' \in [Drainers -> Item]
      /\ stopped' \in Target
    BY <1>1, Actors DEF TypeOK, Steps
<1>3. CASE d \in Server
    <2>1. pc[d] \in Inside /\ lockQ # <<>> /\ lockQ[1] = d
        BY <1>3, Actors, EmptySeq DEF Control, TypeOK
    <2>2. /\ lockQ' = Tail(lockQ)
          /\ lockQ' \in Seq(Server)
          /\ Len(lockQ') = Len(lockQ) - 1
          /\ \A i \in 1 .. Len(lockQ') : lockQ'[i] = lockQ[i + 1]
        BY <1>1, <1>3, <2>1, HeadTailProperties DEF TypeOK
    <2>3. Len(lockQ) \in Nat /\ Len(lockQ') \in Nat
        BY <2>2, LenProperties DEF TypeOK
    <2>4. \A k \in 1 .. Len(lockQ') : k + 1 \in 1 .. Len(lockQ) /\ lockQ'[k] # d
        BY <2>1, <2>2, <2>3 DEF Control
    <2>5. \A e \in Server : pc'[e] \notin Inside
        BY <1>1, <1>3, <2>1 DEF TypeOK, Control, Inside, Drainers
    <2>6. \A k \in 1 .. Len(lockQ') : lockQ'[k] \in Drainers /\ pc'[lockQ'[k]] = pc[lockQ'[k]]
        BY <1>1, <2>2, <2>4, ElementOfSeq DEF TypeOK, Drainers
    <2>7. Control'
        <3>1. \A e \in Drainers : held'[e] # NoItem <=> pc'[e] \in {"send", "mark"}
            BY <1>1 DEF TypeOK, Control
        <3>2. \A c \in Cli : pc'[c] \notin {"grace", "lock"}
            BY <1>1 DEF TypeOK, Control, Drainers
        <3>3. \A k, l \in 1 .. Len(lockQ') : lockQ'[k] = lockQ'[l] => k = l
            BY <2>2, <2>3, <2>4 DEF Control
        <3>4. \A k \in 1 .. Len(lockQ') : pc'[lockQ'[k]] \in {"lock"} \cup Inside
            BY <2>2, <2>4, <2>6 DEF Control
        <3>5. ASSUME NEW e \in Server, pc'[e] \in {"lock"} \cup Inside
              PROVE  \E k \in 1 .. Len(lockQ') : lockQ'[k] = e
            <4>1. e # d /\ pc'[e] = pc[e]
                BY <1>1, <3>5 DEF TypeOK, Drainers, Inside
            <4>2. PICK k \in 1 .. Len(lockQ) : lockQ[k] = e
                BY <3>5, <4>1 DEF Control
            <4>3. k - 1 \in 1 .. Len(lockQ') /\ lockQ'[k - 1] = e
                BY <2>1, <2>2, <2>3, <4>1, <4>2
            <4> QED
                BY <4>3
        <3> QED
            BY <2>5, <3>1, <3>2, <3>3, <3>4, <3>5 DEF Control
    <2> QED
        BY <1>2, <2>2, <2>7
<1>4. CASE d \in Cli
    <2>1. lockQ' = lockQ /\ lockQ \in Seq(Server)
        BY <1>1, <1>4, Actors DEF TypeOK
    <2>2. \A e \in Server : pc'[e] = pc[e]
        BY <1>1, <1>4, Actors DEF TypeOK, Drainers
    <2>3. \A k \in 1 .. Len(lockQ) : lockQ[k] \in Server
        BY <2>1, ElementOfSeq
    <2>4. Control'
        <3>1. \A e \in Drainers : held'[e] # NoItem <=> pc'[e] \in {"send", "mark"}
            BY <1>1 DEF TypeOK, Control
        <3>2. \A c \in Cli : pc'[c] \notin {"grace", "lock"}
            BY <1>1 DEF TypeOK, Control, Drainers
        <3> QED
            BY <2>1, <2>2, <2>3, <3>1, <3>2 DEF Control
    <2> QED
        BY <1>2, <2>1, <2>4
<1> QED
    BY <1>3, <1>4, Actors

-----------------------------------------------------------------------------
(* The types and the controls hold at the start.                           *)
LEMMA InitBase == Init => TypeOK /\ Control
<1> SUFFICES ASSUME Init PROVE TypeOK /\ Control
    OBVIOUS
<1>1. TypeOK
    BY Actors DEF Init, TypeOK, Steps
<1>2. Control
    BY DEF Init, Control, Inside, Server, Drainers
<1> QED
    BY <1>1, <1>2

(* What the operations make of a list of items is one again.               *)
LEMMA QueueTypes ==
    ASSUME TypeOK
    PROVE  /\ Len(queue) \in Nat /\ DOMAIN queue = 1 .. Len(queue)
           /\ \A k \in 1 .. Len(queue) : queue[k] \in Item
           /\ \A k \in 1 .. Len(queue) : RemoveAt(queue, k) \in Seq(Item)
           /\ \A k \in 1 .. Len(queue) : Unblocked(queue, k) \in Seq(Item)
           /\ \A x \in Item : Added(queue, x) \in Seq(Item)
           /\ \A x \in Item : Reinsert(queue, x) \in Seq(Item)
<1>1. queue \in Seq(Item)
    BY DEF TypeOK
<1>2. \A k \in 1 .. Len(queue) : queue[k] \in Item
    BY <1>1, ElementOfSeq
<1>3. ASSUME NEW k \in 1 .. Len(queue)
      PROVE  Unblocked(queue, k) \in Seq(Item)
    <2>1. [queue[k] EXCEPT !.status = "pending"] \in Item
        BY <1>2 DEF Item, Status
    <2> QED
        BY <1>1, <2>1, ExceptSeq DEF Unblocked, ReplaceAt
<1>4. ASSUME NEW x \in Item
      PROVE  Reinsert(queue, x) \in Seq(Item)
    <2>1. [x EXCEPT !.status = "blocked"] \in Item
        BY DEF Item, Status
    <2>2. PICK k \in 1 .. Len(queue) + 1 :
              Reinsert(queue, x) = InsertAt(queue, k, [x EXCEPT !.status = "blocked"])
        BY <1>1, ReinsertProperties
    <2> QED
        BY <1>1, <2>1, <2>2, InsertAtProperties
<1> QED
    BY <1>1, <1>2, <1>3, <1>4, LenProperties, RemoveAtProperties, AppendProperties DEF Added

(* What users do does not touch the drains.                                *)
LEMMA UsersBase ==
    ASSUME TypeOK, Control, Users
    PROVE  TypeOK' /\ Control'
<1>1. UNCHANGED <<drain, sent, lost, everBlocked, unsure>>
    BY DEF Users, Add, RemoveItem, Unblock, Clear, drain, history
<1>2. Control'
    BY <1>1 DEF Control, drain
<1>3. queue' \in Seq(Item) /\ issued' \in Nat /\ deleted' \subseteq Nat
    <2>1. CASE \E t \in Target : Add(t)
        <3>1. PICK t \in Target : Add(t)
            BY <2>1
        <3>2. NewItem(issued + 1, t) \in Item /\ issued + 1 \in Nat
            BY DEF TypeOK, NewItem, Item, Status
        <3> QED
            BY <3>1, <3>2, QueueTypes DEF Add, TypeOK, history
    <2>2. CASE \E k \in DOMAIN queue : RemoveItem(k)
        <3>1. PICK k \in 1 .. Len(queue) : RemoveItem(k)
            BY <2>2, QueueTypes
        <3>2. queue[k].id \in Nat
            BY QueueTypes DEF Item
        <3> QED
            BY <3>1, <3>2, QueueTypes DEF RemoveItem, TypeOK
    <2>3. CASE \E k \in DOMAIN queue : Unblock(k)
        BY <2>3, QueueTypes DEF Unblock, TypeOK, history
    <2>4. CASE Clear
        <3>1. IdsOf(queue) \subseteq Nat
            BY QueueTypes DEF IdsOf, Item
        <3>2. queue' = <<>> /\ issued' = issued /\ deleted' = deleted \cup IdsOf(queue)
            BY <2>4 DEF Clear
        <3> QED
            BY <3>1, <3>2, EmptySeq DEF TypeOK
    <2> QED
        BY <2>1, <2>2, <2>3, <2>4 DEF Users
<1>4. TypeOK'
    BY <1>1, <1>3 DEF TypeOK, drain
<1> QED
    BY <1>2, <1>4

(* A drain asks for the lock: it joins the lock's queue.                   *)
LEMMA AskBase ==
    ASSUME TypeOK, Control, NEW d \in Server, pc[d] \in {"idle", "grace"}, AskForLock(d)
    PROVE  TypeOK' /\ Control'
<1>1. /\ pc' = [pc EXCEPT ![d] = "lock"] /\ lockQ' = Append(lockQ, d)
      /\ UNCHANGED <<store, held, stopped, history>>
    BY DEF AskForLock, Goto
<1>2. /\ lockQ' \in Seq(Server) /\ Len(lockQ') = Len(lockQ) + 1 /\ Len(lockQ) \in Nat
      /\ \A i \in 1 .. Len(lockQ) : lockQ'[i] = lockQ[i]
      /\ lockQ'[Len(lockQ) + 1] = d
    BY <1>1, AppendProperties, LenProperties DEF TypeOK
<1>3. TypeOK'
    BY <1>1, <1>2 DEF TypeOK, Steps, store, history
<1>4. \A k \in 1 .. Len(lockQ) : lockQ[k] \in Drainers /\ lockQ[k] # d
    BY ElementOfSeq DEF TypeOK, Control, Inside, Drainers
<1>5. Control'
    <2>1. \A e \in Drainers : held'[e] # NoItem <=> pc'[e] \in {"send", "mark"}
        BY <1>1 DEF TypeOK, Control, Drainers
    <2>2. \A c \in Cli : pc'[c] \notin {"grace", "lock"}
        BY <1>1, Actors DEF TypeOK, Control, Drainers
    <2>3. ASSUME NEW e \in Server, pc'[e] \in {"lock"} \cup Inside
          PROVE  \E k \in 1 .. Len(lockQ') : lockQ'[k] = e
        <3>1. CASE e = d
            BY <1>2, <3>1
        <3>2. CASE e # d
            <4>1. PICK k \in 1 .. Len(lockQ) : lockQ[k] = e
                BY <1>1, <2>3, <3>2 DEF TypeOK, Control, Drainers
            <4> QED
                BY <1>2, <4>1
        <3> QED
            BY <3>1, <3>2
    <2>4. ASSUME NEW e \in Server, pc'[e] \in Inside
          PROVE  lockQ'[1] = e
        <3>1. e # d /\ pc[e] \in Inside
            BY <1>1, <2>4 DEF TypeOK, Drainers, Inside
        <3>2. lockQ[1] = e /\ 1 \in 1 .. Len(lockQ)
            BY <1>2, <3>1 DEF Control
        <3> QED
            BY <1>2, <3>2
    <2>5. \A k, l \in 1 .. Len(lockQ') : lockQ'[k] = lockQ'[l] => k = l
        BY <1>2, <1>4 DEF Control
    <2>6. \A k \in 1 .. Len(lockQ') : pc'[lockQ'[k]] \in {"lock"} \cup Inside
        BY <1>1, <1>2, <1>4 DEF Control, TypeOK, Drainers
    <2> QED
        BY <2>1, <2>2, <2>3, <2>4, <2>5, <2>6 DEF Control
<1> QED
    BY <1>3, <1>5

(* The triggers: the drain of the server is scheduled, a request asks for  *)
(* the lock, a command-line run begins.                                    *)
LEMMA TriggersBase ==
    ASSUME TypeOK, Control, Triggers \/ GraceEnds
    PROVE  TypeOK' /\ Control'
<1>1. CASE \E s \in Target : ScheduleDrain(s)
    <2>1. PICK s \in Target : ScheduleDrain(s)
        BY <1>1
    <2>2. /\ pc[Scheduled] = "idle" /\ pc' = [pc EXCEPT ![Scheduled] = "grace"] /\ stopped' = s
          /\ UNCHANGED <<store, held, lockQ, history>>
        BY <2>1 DEF ScheduleDrain, Goto
    <2>3. TypeOK'
        BY <2>2, Actors DEF TypeOK, Steps, store, history
    <2>4. \A d \in Drainers : d # Scheduled => pc'[d] = pc[d]
        BY <2>2 DEF TypeOK
    <2>5. \A k \in 1 .. Len(lockQ) : lockQ[k] \in Drainers /\ lockQ[k] # Scheduled
        BY <2>2, ElementOfSeq DEF TypeOK, Control, Inside, Drainers
    <2>6. pc'[Scheduled] = "grace" /\ Scheduled \in Drainers /\ Scheduled \notin Cli
        BY <2>2, Actors DEF TypeOK, Drainers
    <2>7. Control'
        BY <2>2, <2>4, <2>5, <2>6 DEF Control, Inside, Drainers
    <2> QED
        BY <2>3, <2>7
<1>2. CASE \E m \in Manual : RunNow(m)
    BY <1>2, AskBase DEF RunNow, Server
<1>3. CASE \E c \in Cli : RunCli(c)
    <2>1. PICK c \in Cli : RunCli(c)
        BY <1>3
    <2>2. /\ pc[c] = "idle" /\ pc' = [pc EXCEPT ![c] = "pop"]
          /\ UNCHANGED <<store, held, stopped, lockQ, history>>
        BY <2>1 DEF RunCli, Goto
    <2>3. TypeOK'
        BY <2>2 DEF TypeOK, Steps, store, history
    <2>4. \A k \in 1 .. Len(lockQ) : lockQ[k] \in Server
        BY ElementOfSeq DEF TypeOK
    <2>5. Control'
        BY <2>2, <2>4, Actors DEF Control, Inside, Drainers, TypeOK
    <2> QED
        BY <2>3, <2>5
<1>4. CASE GraceEnds
    BY <1>4, AskBase, Actors DEF GraceEnds
<1> QED
    BY <1>1, <1>2, <1>3, <1>4 DEF Triggers

(* A step of a drain within its hold of the lock: only its own pc and item *)
(* change, and it keeps having an item from its pop on.                    *)
LEMMA InsideControl ==
    ASSUME TypeOK, Control, NEW d \in Drainers,
           pc[d] \in Inside \/ (pc[d] = "lock" /\ Head(lockQ) = d),
           NEW step \in Inside, NEW x \in Item,
           x # NoItem <=> step \in {"send", "mark"},
           pc' = [pc EXCEPT ![d] = step], held' = [held EXCEPT ![d] = x],
           lockQ' = lockQ
    PROVE  Control'
<1>1. \A k \in 1 .. Len(lockQ) : lockQ[k] \in Server
    BY ElementOfSeq DEF TypeOK
<1>2. \A e \in Drainers : held'[e] # NoItem <=> pc'[e] \in {"send", "mark"}
    BY DEF TypeOK, Control
<1>3. \A c \in Cli : pc'[c] \notin {"grace", "lock"}
    BY DEF TypeOK, Control, Drainers, Inside
<1>4. \A e \in Server : pc'[e] \in {"lock"} \cup Inside =>
                              \E k \in 1 .. Len(lockQ) : lockQ[k] = e
    BY DEF TypeOK, Control, Drainers, Inside
<1>5. ASSUME NEW e \in Server, pc'[e] \in Inside
      PROVE  lockQ[1] = e
    <2>1. CASE e = d /\ pc[d] = "lock"
        <3>1. \E k \in 1 .. Len(lockQ) : lockQ[k] = d
            BY <2>1, <1>5 DEF Control
        <3>2. lockQ # <<>> /\ Head(lockQ) = d
            BY <3>1, <2>1, EmptySeq DEF TypeOK, Inside
        <3> QED
            BY <2>1, <3>2 DEF TypeOK
    <2>2. CASE e # d \/ pc[d] \in Inside
        BY <1>5, <2>2 DEF TypeOK, Control, Drainers
    <2> QED
        BY <2>1, <2>2
<1>6. \A k \in 1 .. Len(lockQ) : pc'[lockQ[k]] \in {"lock"} \cup Inside
    BY <1>1 DEF TypeOK, Control, Drainers
<1> QED
    BY <1>2, <1>3, <1>4, <1>5, <1>6 DEF Control

-----------------------------------------------------------------------------
(* Where the prompts are.  Accounted is a statement about sets of          *)
(* identities, and about three collections in which none occurs twice.     *)
Books ==
    /\ Ids = IdsOf(queue) \cup InFlight \cup SentIds \cup deleted \cup lost
    /\ IdsOf(queue) \cap InFlight = {}
    /\ (IdsOf(queue) \cup InFlight) \cap (deleted \cup lost) = {}
    /\ deleted \cap lost = {}
    /\ SentIds \cap (IdsOf(queue) \cup InFlight \cup deleted \cup lost) \subseteq unsure

HeldOnce ==
    \A d, e \in Drainers : held[d] # NoItem /\ held[d].id = held[e].id => d = e

SentOnce ==
    \A k, l \in DOMAIN sent : k # l /\ sent[k].id = sent[l].id => sent[k].id \in unsure

(* What Accounted says, part by part.                                      *)
LEMMA AccountedParts == Accounted <=> Books /\ Distinct(queue) /\ HeldOnce /\ SentOnce
BY DEF Accounted, Books, HeldOnce, SentOnce

(* The identities in flight are those of the items held.                   *)
LEMMA FlightIds ==
    /\ \A d \in Drainers : held[d] # NoItem => held[d].id \in InFlight
    /\ \A i \in InFlight : \E d \in Drainers : held[d] # NoItem /\ held[d].id = i
BY DEF InFlight, HeldIds

(* Every identity that is somewhere has been given to a prompt.            *)
LEMMA KnownIds ==
    ASSUME TypeOK, Accounted
    PROVE  /\ \A k \in 1 .. Len(queue) : queue[k].id \in 1 .. issued
           /\ \A d \in Drainers : held[d] # NoItem => held[d].id \in 1 .. issued
           /\ \A k \in 1 .. Len(sent) : sent[k].id \in 1 .. issued
           /\ SentIds \subseteq Ids /\ InFlight \subseteq Ids /\ IdsOf(queue) \subseteq Ids
<1>1. SentIds \subseteq Ids /\ InFlight \subseteq Ids /\ IdsOf(queue) \subseteq Ids
    BY DEF Accounted
<1>2. \A k \in 1 .. Len(queue) : queue[k].id \in IdsOf(queue)
    BY IdsAt DEF TypeOK
<1>3. \A d \in Drainers : held[d] # NoItem => held[d].id \in InFlight
    BY FlightIds
<1>4. \A k \in 1 .. Len(sent) : sent[k].id \in SentIds
    BY LenProperties DEF TypeOK, SentIds
<1> QED
    BY <1>1, <1>2, <1>3, <1>4 DEF Ids

(* When a drain lets its item go, that item is in flight no longer.        *)
LEMMA FlightLands ==
    ASSUME TypeOK, HeldOnce, InFlight \subseteq Ids, NEW d \in Drainers,
           held[d] # NoItem, held' = [held EXCEPT ![d] = NoItem]
    PROVE  InFlight' = InFlight \ {held[d].id} /\ HeldOnce'
<1>1. \A e \in Drainers : held'[e] = IF e = d THEN NoItem ELSE held[e]
    BY DEF TypeOK
<1>2. HeldOnce'
    <2>1. NoItem.id = 0 /\ 0 \notin Ids
        BY DEF NoItem, NewItem, Ids, TypeOK
    <2>2. \A e \in Drainers : held'[e] # NoItem => held'[e].id # 0
        BY <1>1, <2>1, FlightIds
    <2> QED
        BY <1>1, <2>1, <2>2 DEF HeldOnce
<1>3. ASSUME NEW i
      PROVE  i \in InFlight' <=> i \in InFlight \ {held[d].id}
    <2>1. ASSUME i \in InFlight' PROVE i \in InFlight \ {held[d].id}
        <3>1. PICK e \in Drainers : held'[e] # NoItem /\ held'[e].id = i
            BY <2>1 DEF InFlight, HeldIds
        <3>2. e # d /\ held[e] # NoItem /\ held[e].id = i
            BY <1>1, <3>1
        <3> QED
            BY <3>2, FlightIds DEF HeldOnce
    <2>2. ASSUME i \in InFlight \ {held[d].id} PROVE i \in InFlight'
        <3>1. PICK e \in Drainers : held[e] # NoItem /\ held[e].id = i
            BY <2>2, FlightIds
        <3>2. held'[e] # NoItem /\ held'[e].id = i
            BY <1>1, <2>2, <3>1
        <3> QED
            BY <3>2 DEF InFlight, HeldIds
    <2> QED
        BY <2>1, <2>2
<1> QED
    BY <1>2, <1>3

(* When a drain takes an item that nobody holds, it is in flight.          *)
LEMMA FlightStarts ==
    ASSUME TypeOK, HeldOnce, NEW d \in Drainers, held[d] = NoItem,
           NEW x \in Item, x # NoItem, x.id \notin InFlight, x.id # 0,
           InFlight \subseteq Ids,
           held' = [held EXCEPT ![d] = x]
    PROVE  InFlight' = InFlight \cup {x.id} /\ HeldOnce'
<1>1. \A e \in Drainers : held'[e] = IF e = d THEN x ELSE held[e]
    BY DEF TypeOK
<1>2. \A e \in Drainers : held[e].id # x.id
    <2>1. NoItem.id = 0
        BY DEF NoItem, NewItem
    <2> QED
        BY <2>1, FlightIds
<1>3. HeldOnce'
    BY <1>1, <1>2 DEF HeldOnce
<1>4. ASSUME NEW i
      PROVE  i \in InFlight' <=> i \in InFlight \cup {x.id}
    <2>1. ASSUME i \in InFlight' PROVE i \in InFlight \cup {x.id}
        <3>1. PICK e \in Drainers : held'[e] # NoItem /\ held'[e].id = i
            BY <2>1 DEF InFlight, HeldIds
        <3> QED
            BY <1>1, <3>1, FlightIds
    <2>2. ASSUME i \in InFlight PROVE i \in InFlight'
        <3>1. PICK e \in Drainers : held[e] # NoItem /\ held[e].id = i
            BY <2>2, FlightIds
        <3>2. held'[e] # NoItem /\ held'[e].id = i
            BY <1>1, <3>1
        <3> QED
            BY <3>2 DEF InFlight, HeldIds
    <2>3. x.id \in InFlight'
        BY <1>1 DEF InFlight, HeldIds
    <2> QED
        BY <2>1, <2>2, <2>3
<1> QED
    BY <1>3, <1>4

(* A delivery is put behind the earlier ones.                              *)
LEMMA SentGrows ==
    ASSUME TypeOK, NEW d \in Drainers, sent' = Append(sent, Delivery(d))
    PROVE  /\ sent' \in Seq([id : Nat, target : Target, by : Drainers])
           /\ Len(sent) \in Nat /\ Len(sent') = Len(sent) + 1
           /\ DOMAIN sent = 1 .. Len(sent) /\ DOMAIN sent' = 1 .. Len(sent) + 1
           /\ \A k \in 1 .. Len(sent) : sent'[k] = sent[k]
           /\ sent'[Len(sent) + 1] = Delivery(d)
           /\ SentIds' = SentIds \cup {held[d].id}
<1> DEFINE Deliveries == [id : Nat, target : Target, by : Drainers]
<1>1. Delivery(d) \in Deliveries /\ Delivery(d).id = held[d].id
    BY DEF Delivery, TypeOK, Item
<1>2. sent \in Seq(Deliveries)
    BY DEF TypeOK
<1> HIDE DEF Deliveries
<1>3. IdsOf(Append(sent, Delivery(d))) = IdsOf(sent) \cup {Delivery(d).id}
    <2>1. \A x \in Deliveries : IdsOf(Append(sent, x)) = IdsOf(sent) \cup {x.id}
        BY <1>2, AppendIds
    <2> QED
        BY <1>1, <2>1
<1>4. SentIds' = IdsOf(Append(sent, Delivery(d))) /\ SentIds = IdsOf(sent)
    BY DEF SentIds, IdsOf
<1>5. /\ sent' \in Seq(Deliveries)
      /\ Len(sent) \in Nat /\ Len(sent') = Len(sent) + 1
      /\ \A k \in 1 .. Len(sent) : sent'[k] = sent[k]
      /\ sent'[Len(sent) + 1] = Delivery(d)
    BY <1>1, <1>2, AppendProperties, LenProperties
<1> QED
    BY <1>1, <1>2, <1>3, <1>4, <1>5, LenProperties DEF Deliveries

-----------------------------------------------------------------------------
(* The inductive invariant: types, controls and the books.                 *)
IInv == TypeOK /\ Control /\ Accounted

(* It holds at the start, where nothing is anywhere.                       *)
LEMMA InitIInv == Init => IInv
<1> SUFFICES ASSUME Init PROVE IInv
    OBVIOUS
<1>1. TypeOK /\ Control
    BY InitBase
<1>2. Ids = {} /\ IdsOf(queue) = {} /\ SentIds = {} /\ deleted = {} /\ lost = {}
    BY DEF Init, Ids, IdsOf, SentIds
<1>3. \A d \in Drainers : held[d] = NoItem
    BY DEF Init
<1>4. InFlight = {}
    BY <1>3, FlightIds
<1>5. Distinct(queue) /\ HeldOnce /\ SentOnce
    BY <1>3 DEF Init, Distinct, HeldOnce, SentOnce
<1> QED
    BY <1>1, <1>2, <1>4, <1>5, AccountedParts DEF Books, IInv

(* Users move prompts from nowhere into the queue and from the queue to    *)
(* the deleted ones.                                                       *)
LEMMA UsersIInv ==
    ASSUME IInv, Users
    PROVE  IInv'
<1>1. TypeOK /\ Control /\ Books /\ Distinct(queue) /\ HeldOnce /\ SentOnce
    BY AccountedParts DEF IInv
<1>2. TypeOK' /\ Control'
    BY <1>1, UsersBase
<1>3. UNCHANGED <<pc, held, sent, lost, everBlocked, unsure>>
    BY DEF Users, Add, RemoveItem, Unblock, Clear, drain, history
<1>4. HeldOnce' /\ SentOnce' /\ InFlight' = InFlight /\ SentIds' = SentIds
    BY <1>1, <1>3 DEF HeldOnce, SentOnce, InFlight, HeldIds, SentIds
<1>5. CASE \E t \in Target : Add(t)
    <2>1. PICK t \in Target : Add(t)
        BY <1>5
    <2>2. /\ queue' = Append(queue, NewItem(issued + 1, t)) /\ issued' = issued + 1
          /\ deleted' = deleted
        BY <2>1 DEF Add, Added, history
    <2>3. NewItem(issued + 1, t) \in Item /\ NewItem(issued + 1, t).id = issued + 1
        BY <1>1 DEF TypeOK, NewItem, Item, Status
    <2>4. Ids' = Ids \cup {issued + 1} /\ issued + 1 \notin Ids
        BY <1>1, <2>2 DEF Ids, TypeOK
    <2>5. IdsOf(queue') = IdsOf(queue) \cup {issued + 1} /\ Distinct(queue')
        <3>1. issued + 1 \notin IdsOf(queue)
            BY <1>1, <2>4 DEF Books
        <3> QED
            BY <1>1, <2>2, <2>3, <3>1, AppendIds DEF TypeOK
    <2>6. Books'
        BY <1>1, <1>3, <1>4, <2>2, <2>4, <2>5 DEF Books
    <2> QED
        BY <1>2, <1>4, <2>5, <2>6 DEF IInv, Accounted, HeldOnce, SentOnce, Books
<1>6. CASE \E k \in DOMAIN queue : RemoveItem(k)
    <2>1. PICK k \in 1 .. Len(queue) : RemoveItem(k)
        BY <1>1, <1>6, QueueTypes
    <2>2. queue' = RemoveAt(queue, k) /\ deleted' = deleted \cup {queue[k].id} /\ issued' = issued
        BY <2>1 DEF RemoveItem
    <2>3. IdsOf(queue') = IdsOf(queue) \ {queue[k].id} /\ Distinct(queue')
        BY <1>1, <2>2, RemoveAtIds DEF TypeOK
    <2>4. queue[k].id \in IdsOf(queue) /\ Ids' = Ids
        BY <1>1, <2>2, IdsAt DEF TypeOK, Ids
    <2>5. Books'
        BY <1>1, <1>3, <1>4, <2>2, <2>3, <2>4 DEF Books
    <2> QED
        BY <1>2, <1>4, <2>3, <2>5 DEF IInv, Accounted, HeldOnce, SentOnce, Books
<1>7. CASE \E k \in DOMAIN queue : Unblock(k)
    <2>1. PICK k \in 1 .. Len(queue) : Unblock(k)
        BY <1>1, <1>7, QueueTypes
    <2>2. queue' = Unblocked(queue, k) /\ deleted' = deleted /\ issued' = issued
        BY <2>1 DEF Unblock, history
    <2>3. [queue[k] EXCEPT !.status = "pending"].id = queue[k].id
        BY <1>1, QueueTypes DEF Item
    <2>4. IdsOf(queue') = IdsOf(queue) /\ Distinct(queue') /\ Ids' = Ids
        BY <1>1, <2>2, <2>3, UnblockedIds DEF TypeOK, Ids
    <2>5. Books'
        BY <1>1, <1>3, <1>4, <2>2, <2>4 DEF Books
    <2> QED
        BY <1>2, <1>4, <2>4, <2>5 DEF IInv, Accounted, HeldOnce, SentOnce, Books
<1>8. CASE Clear
    <2>1. queue' = <<>> /\ deleted' = deleted \cup IdsOf(queue) /\ Ids' = Ids
        BY <1>8 DEF Clear, Ids
    <2>2. IdsOf(queue') = {} /\ Distinct(queue')
        BY <2>1 DEF IdsOf, Distinct
    <2>3. Books'
        BY <1>1, <1>3, <1>4, <2>1, <2>2 DEF Books
    <2> QED
        BY <1>2, <1>4, <2>2, <2>3 DEF IInv, Accounted, HeldOnce, SentOnce, Books
<1> QED
    BY <1>5, <1>6, <1>7, <1>8 DEF Users

(* Triggers move no prompt.                                                *)
LEMMA TriggersIInv ==
    ASSUME IInv, Triggers \/ GraceEnds
    PROVE  IInv'
<1>1. TypeOK' /\ Control'
    BY TriggersBase DEF IInv
<1>2. UNCHANGED <<store, held, history>>
    BY DEF Triggers, GraceEnds, ScheduleDrain, RunNow, RunCli, AskForLock
<1>3. Accounted'
    BY <1>2 DEF IInv, Accounted, store, history, Ids, InFlight, HeldIds, SentIds
<1> QED
    BY <1>1, <1>3 DEF IInv

(* PopNext moves a prompt from the queue into a drain's hands.             *)
LEMMA PopNextIInv ==
    ASSUME IInv, NEW d \in Drainers, PopNext(d)
    PROVE  IInv'
<1> DEFINE k == NextIndex(queue, stopped, d = Scheduled)
<1>1. TypeOK /\ Control /\ Books /\ Distinct(queue) /\ HeldOnce /\ SentOnce
    BY AccountedParts DEF IInv
<1>2. k \in 1 .. Len(queue)
    BY <1>1, NextIndexProperties, LenProperties DEF PopNext, TypeOK
<1>3. /\ pc[d] = "pop" /\ held' = [held EXCEPT ![d] = queue[k]]
      /\ queue' = RemoveAt(queue, k)
      /\ pc' = [pc EXCEPT ![d] = AfterPop(queue[k])]
      /\ UNCHANGED <<issued, stopped, lockQ, history>>
    BY DEF PopNext, Goto
<1> HIDE DEF k
<1>4. queue[k] \in Item /\ queue[k].id \in IdsOf(queue) /\ queue' \in Seq(Item)
    BY <1>1, <1>2, <1>3, QueueTypes, IdsAt DEF TypeOK
<1>5. queue[k].id \in Ids /\ queue[k].id # 0 /\ queue[k] # NoItem
    BY <1>1, <1>4 DEF Books, Ids, NoItem, NewItem, TypeOK
<1>6. AfterPop(queue[k]) \in {"send", "mark"}
    BY DEF AfterPop
<1>7. TypeOK'
    BY <1>1, <1>3, <1>4, <1>6 DEF TypeOK, Steps, history
<1>8. Control'
    BY <1>1, <1>3, <1>4, <1>5, <1>6, InsideControl DEF Inside
<1>9. IdsOf(queue') = IdsOf(queue) \ {queue[k].id} /\ Distinct(queue')
    BY <1>1, <1>2, <1>3, RemoveAtIds DEF TypeOK
<1>10. InFlight' = InFlight \cup {queue[k].id} /\ HeldOnce'
    <2>1. held[d] = NoItem
        BY <1>1, <1>3 DEF Control
    <2>2. queue[k].id \notin InFlight /\ InFlight \subseteq Ids
        BY <1>1, <1>4 DEF Books
    <2> QED
        BY <1>1, <1>3, <1>4, <1>5, <2>1, <2>2, FlightStarts
<1>11. Ids' = Ids /\ SentIds' = SentIds /\ SentOnce'
    BY <1>1, <1>3 DEF Ids, SentIds, SentOnce, history
<1>12. Books'
    BY <1>1, <1>3, <1>4, <1>9, <1>10, <1>11 DEF Books, history
<1> QED
    BY <1>7, <1>8, <1>9, <1>10, <1>11, <1>12 DEF IInv, Accounted, HeldOnce, SentOnce, Books

(* SendOk moves the prompt a drain holds to the delivered ones.            *)
LEMMA SendOkIInv ==
    ASSUME IInv, NEW d \in Drainers, SendOk(d)
    PROVE  IInv'
<1>1. TypeOK /\ Control /\ Books /\ Distinct(queue) /\ HeldOnce /\ SentOnce
    BY AccountedParts DEF IInv
<1>2. /\ pc[d] = "send" /\ sent' = Append(sent, Delivery(d)) /\ Finish(d)
      /\ UNCHANGED <<store, deleted, lost, everBlocked, unsure>>
    BY DEF SendOk
<1>3. held[d] # NoItem /\ held[d].id \in InFlight
    BY <1>1, <1>2, FlightIds DEF Control
<1>4. TypeOK' /\ Control'
    BY <1>1, <1>2, FinishControl, SentGrows DEF TypeOK, Inside, store
<1>5. InFlight' = InFlight \ {held[d].id} /\ HeldOnce'
    BY <1>1, <1>2, <1>3, FlightLands DEF Finish, Books
<1>6. SentIds' = SentIds \cup {held[d].id}
    BY <1>1, <1>2, SentGrows
<1>7. held[d].id \in SentIds => held[d].id \in unsure
    BY <1>1, <1>3 DEF Books
<1>8. SentOnce'
    <2>1. \A k \in DOMAIN sent : sent[k].id \in SentIds
        BY DEF SentIds
    <2>2. Delivery(d).id = held[d].id
        BY DEF Delivery
    <2> QED
        BY <1>1, <1>2, <1>7, <2>1, <2>2, SentGrows DEF SentOnce
<1>9. Ids' = Ids /\ queue' = queue
    BY <1>2 DEF store, Ids
<1>10. Books'
    BY <1>1, <1>2, <1>3, <1>5, <1>6, <1>7, <1>9 DEF Books
<1> QED
    BY <1>1, <1>4, <1>5, <1>8, <1>9, <1>10 DEF IInv, Accounted, HeldOnce, SentOnce, Books

(* SendLate delivers it too, and remembers that; the drain still holds it. *)
LEMMA SendLateIInv ==
    ASSUME IInv, NEW d \in Drainers, SendLate(d)
    PROVE  IInv'
<1>1. TypeOK /\ Control /\ Books /\ Distinct(queue) /\ HeldOnce /\ SentOnce
    BY AccountedParts DEF IInv
<1>2. /\ pc[d] = "send" /\ sent' = Append(sent, Delivery(d))
      /\ unsure' = unsure \cup {held[d].id}
      /\ pc' = [pc EXCEPT ![d] = "mark"]
      /\ UNCHANGED <<store, held, stopped, lockQ, deleted, lost, everBlocked>>
    BY DEF SendLate, Goto
<1>3. held[d] # NoItem /\ held[d] \in Item /\ held[d].id \in Nat
    BY <1>1, <1>2 DEF Control, TypeOK, Item
<1>4. TypeOK'
    BY <1>1, <1>2, <1>3, SentGrows DEF TypeOK, Steps, store
<1>5. Control'
    <2>1. held' = [held EXCEPT ![d] = held[d]]
        BY <1>1, <1>2 DEF TypeOK
    <2> QED
        BY <1>1, <1>2, <1>3, <2>1, InsideControl DEF Inside
<1>6. SentIds' = SentIds \cup {held[d].id}
    BY <1>1, <1>2, SentGrows
<1>7. SentOnce'
    <2>1. Delivery(d).id = held[d].id
        BY DEF Delivery
    <2> QED
        BY <1>1, <1>2, <2>1, SentGrows DEF SentOnce
<1>8. /\ Ids' = Ids /\ queue' = queue /\ InFlight' = InFlight /\ HeldOnce'
      /\ held[d].id \in InFlight
    BY <1>1, <1>2, <1>3, FlightIds DEF store, Ids, InFlight, HeldIds, HeldOnce
<1>9. Books'
    BY <1>1, <1>2, <1>6, <1>8 DEF Books
<1> QED
    BY <1>1, <1>4, <1>5, <1>7, <1>8, <1>9 DEF IInv, Accounted, HeldOnce, SentOnce, Books

(* MarkBlocked moves the prompt a drain holds back into the queue.         *)
LEMMA MarkBlockedIInv ==
    ASSUME IInv, NEW d \in Drainers, MarkBlocked(d)
    PROVE  IInv'
<1> DEFINE x == [held[d] EXCEPT !.status = "blocked"]
<1>1. TypeOK /\ Control /\ Books /\ Distinct(queue) /\ HeldOnce /\ SentOnce
    BY AccountedParts DEF IInv
<1>2. /\ pc[d] = "mark" /\ queue' = Reinsert(queue, held[d]) /\ Finish(d)
      /\ everBlocked' = everBlocked \cup {held[d].id}
      /\ UNCHANGED <<issued, sent, deleted, lost, unsure>>
    BY DEF MarkBlocked
<1>3. /\ held[d] # NoItem /\ held[d].id \in InFlight
      /\ held[d] \in Item /\ held[d].id \in Nat
    BY <1>1, <1>2, FlightIds DEF Control, TypeOK, Item
<1>4. TypeOK' /\ Control'
    BY <1>1, <1>2, <1>3, FinishControl, QueueTypes DEF TypeOK, Inside
<1>5. InFlight' = InFlight \ {held[d].id} /\ HeldOnce'
    BY <1>1, <1>2, <1>3, FlightLands DEF Finish, Books
<1>6. IdsOf(queue') = IdsOf(queue) \cup {held[d].id} /\ Distinct(queue')
    <2>1. x \in Item /\ x.id = held[d].id
        BY <1>3 DEF Item, Status
    <2>2. PICK k \in 1 .. Len(queue) + 1 : queue' = InsertAt(queue, k, x)
        BY <1>1, <1>2, ReinsertProperties DEF TypeOK
    <2>3. x.id \notin IdsOf(queue)
        BY <1>1, <1>3, <2>1 DEF Books
    <2> HIDE DEF x
    <2> QED
        BY <1>1, <2>1, <2>2, <2>3, InsertAtIds DEF TypeOK
<1>7. Ids' = Ids /\ SentIds' = SentIds /\ SentOnce'
    BY <1>1, <1>2 DEF Ids, SentIds, SentOnce
<1>8. Books'
    BY <1>1, <1>2, <1>3, <1>5, <1>6, <1>7 DEF Books
<1> QED
    BY <1>4, <1>5, <1>6, <1>7, <1>8 DEF IInv, Accounted, HeldOnce, SentOnce, Books

(* Steps that move nothing.                                                *)
LEMMA QuietIInv ==
    ASSUME IInv, NEW d \in Drainers, Locked(d) \/ PopNone(d) \/ NotSent(d)
    PROVE  IInv'
<1>0. TypeOK /\ Control
    BY DEF IInv
<1>1. CASE Locked(d)
    <2>1. /\ pc[d] = "lock" /\ Head(lockQ) = d /\ pc' = [pc EXCEPT ![d] = "pop"]
          /\ UNCHANGED <<store, held, stopped, lockQ, history>>
        BY <1>1 DEF Locked, Goto
    <2>2. held[d] = NoItem /\ held' = [held EXCEPT ![d] = NoItem]
        <3>1. held[d] = NoItem
            BY <1>0, <2>1 DEF Control
        <3> QED
            BY <1>0, <2>1, <3>1 DEF TypeOK
    <2>3. TypeOK'
        BY <1>0, <2>1 DEF TypeOK, Steps, store, history
    <2>4. Control'
        BY <1>0, <2>1, <2>2, Actors, InsideControl DEF Inside
    <2>5. Accounted'
        BY <2>1 DEF IInv, Accounted, store, history, Ids, InFlight, HeldIds, SentIds
    <2> QED
        BY <2>3, <2>4, <2>5 DEF IInv
<1>2. CASE PopNone(d)
    <2>1. pc[d] = "pop" /\ Finish(d) /\ UNCHANGED <<store, history>>
        BY <1>2 DEF PopNone
    <2>2. held' = held
        BY <1>0, <2>1 DEF Finish, Control, TypeOK
    <2>3. TypeOK' /\ Control'
        BY <1>0, <2>1, FinishControl DEF TypeOK, Inside, store, history
    <2>4. Accounted'
        BY <2>1, <2>2 DEF IInv, Accounted, store, history, Ids, InFlight, HeldIds, SentIds
    <2> QED
        BY <2>3, <2>4 DEF IInv
<1>3. CASE NotSent(d)
    <2>1. /\ pc[d] = "send" /\ pc' = [pc EXCEPT ![d] = "mark"]
          /\ UNCHANGED <<store, held, stopped, lockQ, history>>
        BY <1>3 DEF NotSent, Goto
    <2>2. /\ held[d] # NoItem /\ held[d] \in Item
          /\ held' = [held EXCEPT ![d] = held[d]]
        BY <1>0, <2>1 DEF Control, TypeOK
    <2>3. TypeOK'
        BY <1>0, <2>1 DEF TypeOK, Steps, store, history
    <2>4. Control'
        BY <1>0, <2>1, <2>2, InsideControl DEF Inside
    <2>5. Accounted'
        BY <2>1 DEF IInv, Accounted, store, history, Ids, InFlight, HeldIds, SentIds
    <2> QED
        BY <2>3, <2>4, <2>5 DEF IInv
<1> QED
    BY <1>1, <1>2, <1>3

(* An exception moves the prompt a drain holds to the lost ones.           *)
LEMMA RaisesIInv ==
    ASSUME IInv, NEW d \in Drainers, DrainRaises(d)
    PROVE  IInv'
<1>1. TypeOK /\ Control /\ Books /\ Distinct(queue) /\ HeldOnce /\ SentOnce
    BY AccountedParts DEF IInv
<1>2. /\ pc[d] \in {"send", "mark"} /\ Finish(d)
      /\ lost' = lost \cup {held[d].id}
      /\ UNCHANGED <<store, sent, deleted, everBlocked, unsure>>
    BY DEF DrainRaises
<1>3. held[d] # NoItem /\ held[d].id \in InFlight /\ held[d].id \in Nat
    BY <1>1, <1>2, FlightIds DEF Control, TypeOK, Item
<1>4. TypeOK' /\ Control'
    BY <1>1, <1>2, <1>3, FinishControl DEF TypeOK, Inside, store
<1>5. InFlight' = InFlight \ {held[d].id} /\ HeldOnce'
    BY <1>1, <1>2, <1>3, FlightLands DEF Finish, Books
<1>6. Ids' = Ids /\ queue' = queue /\ SentIds' = SentIds /\ SentOnce'
    BY <1>1, <1>2 DEF store, Ids, SentIds, SentOnce
<1>7. Books'
    BY <1>1, <1>2, <1>3, <1>5, <1>6 DEF Books
<1> QED
    BY <1>1, <1>4, <1>5, <1>6, <1>7 DEF IInv, Accounted, HeldOnce, SentOnce, Books

(* What the drains of the server held is in flight no longer.              *)
LEMMA RestartFlight ==
    ASSUME TypeOK, HeldOnce, ServerRestarts
    PROVE  InFlight' = InFlight \ HeldIds(Server)
<1>1. \A d \in Drainers : held'[d] = IF d \in Server THEN NoItem ELSE held[d]
    BY DEF ServerRestarts
<1>2. ASSUME NEW i \in InFlight' PROVE i \in InFlight \ HeldIds(Server)
    <2>1. PICK d \in Drainers : held'[d] # NoItem /\ held'[d].id = i
        BY <1>2 DEF InFlight, HeldIds
    <2>2. d \notin Server /\ held[d] # NoItem /\ held[d].id = i
        BY <1>1, <2>1
    <2> QED
        BY <2>2, FlightIds DEF HeldOnce, HeldIds, Drainers
<1>3. ASSUME NEW i \in InFlight \ HeldIds(Server) PROVE i \in InFlight'
    <2>1. PICK d \in Drainers : held[d] # NoItem /\ held[d].id = i
        BY <1>3, FlightIds
    <2>2. d \notin Server
        BY <1>3, <2>1 DEF HeldIds
    <2>3. held'[d] # NoItem /\ held'[d].id = i
        BY <1>1, <2>1, <2>2
    <2> QED
        BY <2>3 DEF InFlight, HeldIds
<1> QED
    BY <1>2, <1>3

(* Nor is what a command-line run held.                                    *)
LEMMA CliFlight ==
    ASSUME TypeOK, HeldOnce, InFlight \subseteq Ids, NEW c \in Drainers,
           held' = [held EXCEPT ![c] = NoItem]
    PROVE  InFlight' = InFlight \ HeldIds({c}) /\ HeldOnce'
<1>1. HeldIds({c}) = IF held[c] = NoItem THEN {} ELSE {held[c].id}
    BY DEF HeldIds
<1>2. CASE held[c] = NoItem
    <2>1. held' = held
        BY <1>2 DEF TypeOK
    <2> QED
        BY <1>1, <1>2, <2>1 DEF InFlight, HeldIds, HeldOnce
<1>3. CASE held[c] # NoItem
    BY <1>1, <1>3, FlightLands
<1> QED
    BY <1>2, <1>3

(* When the server stops, what its drains hold is lost, and it is only     *)
(* that.                                                                   *)
LEMMA RestartsIInv ==
    ASSUME IInv, ServerRestarts
    PROVE  IInv'
<1>1. TypeOK /\ Control /\ Books /\ Distinct(queue) /\ HeldOnce /\ SentOnce
    BY AccountedParts DEF IInv
<1>2. /\ pc' = [d \in Drainers |-> IF d \in Server THEN "idle" ELSE pc[d]]
      /\ held' = [d \in Drainers |-> IF d \in Server THEN NoItem ELSE held[d]]
      /\ lost' = lost \cup HeldIds(Server)
      /\ stopped' = NoTarget /\ lockQ' = <<>>
      /\ UNCHANGED <<store, sent, deleted, everBlocked, unsure>>
    BY DEF ServerRestarts
<1>3. HeldIds(Server) \subseteq InFlight /\ HeldIds(Server) \subseteq Nat
    BY <1>1 DEF InFlight, HeldIds, Drainers, TypeOK, Item
<1>4. TypeOK'
    <2>1. pc' \in [Drainers -> Steps] /\ held' \in [Drainers -> Item]
        BY <1>1, <1>2, Actors DEF TypeOK, Steps
    <2>2. lockQ' \in Seq(Server) /\ stopped' \in Target
        BY <1>2, EmptySeq, Actors
    <2>3. lost' \subseteq Nat
        BY <1>1, <1>2, <1>3 DEF TypeOK
    <2> QED
        BY <1>1, <1>2, <2>1, <2>2, <2>3 DEF TypeOK, store
<1>5. Control'
    BY <1>1, <1>2, Actors DEF Control, Inside, Drainers
<1>6. \A d \in Drainers : held'[d] = IF d \in Server THEN NoItem ELSE held[d]
    BY <1>2
<1>7. HeldOnce'
    <2>1. NoItem.id = 0 /\ 0 \notin Ids /\ InFlight \subseteq Ids
        BY <1>1 DEF NoItem, NewItem, Ids, TypeOK, Books
    <2>2. \A d \in Drainers : held'[d] # NoItem => held'[d].id # 0
        BY <1>6, <2>1, FlightIds
    <2> QED
        BY <1>1, <1>6, <2>1, <2>2 DEF HeldOnce
<1>8. InFlight' = InFlight \ HeldIds(Server)
    BY <1>1, RestartFlight
<1>9. Ids' = Ids /\ queue' = queue /\ SentIds' = SentIds /\ SentOnce'
    BY <1>1, <1>2 DEF store, Ids, SentIds, SentOnce
<1>10. Books'
    BY <1>1, <1>2, <1>3, <1>8, <1>9 DEF Books
<1> QED
    BY <1>1, <1>4, <1>5, <1>7, <1>9, <1>10 DEF IInv, Accounted, HeldOnce, SentOnce, Books

(* The same for a command-line run that dies.                              *)
LEMMA CliDiesIInv ==
    ASSUME IInv, NEW c \in Cli, CliDies(c)
    PROVE  IInv'
<1>1. TypeOK /\ Control /\ Books /\ Distinct(queue) /\ HeldOnce /\ SentOnce
    BY AccountedParts DEF IInv
<1>2. /\ Finish(c) /\ lost' = lost \cup HeldIds({c})
      /\ UNCHANGED <<store, sent, deleted, everBlocked, unsure>>
    BY DEF CliDies
<1>3. c \in Drainers /\ held' = [held EXCEPT ![c] = NoItem]
    BY <1>2 DEF Drainers, Finish
<1>4. HeldIds({c}) = IF held[c] = NoItem THEN {} ELSE {held[c].id}
    BY DEF HeldIds
<1>5. HeldIds({c}) \subseteq Nat /\ HeldIds({c}) \subseteq InFlight
    <2>1. held[c].id \in Nat
        BY <1>1, <1>3 DEF TypeOK, Item
    <2>2. held[c] # NoItem => held[c].id \in InFlight
        BY <1>3, FlightIds
    <2> QED
        BY <1>4, <2>1, <2>2
<1>6. TypeOK' /\ Control'
    BY <1>1, <1>2, <1>3, <1>5, FinishControl DEF TypeOK, store
<1>7. InFlight' = InFlight \ HeldIds({c}) /\ HeldOnce'
    BY <1>1, <1>3, CliFlight DEF Books
<1>8. Ids' = Ids /\ queue' = queue /\ SentIds' = SentIds /\ SentOnce'
    BY <1>1, <1>2 DEF store, Ids, SentIds, SentOnce
<1>9. Books'
    BY <1>1, <1>2, <1>5, <1>7, <1>8 DEF Books
<1> QED
    BY <1>1, <1>6, <1>7, <1>8, <1>9 DEF IInv, Accounted, HeldOnce, SentOnce, Books

(* Every step keeps the invariant.                                         *)
LEMMA NextIInv == IInv /\ [Next]_vars => IInv'
<1> SUFFICES ASSUME IInv, [Next]_vars PROVE IInv'
    OBVIOUS
<1>1. CASE Users
    BY <1>1, UsersIInv
<1>2. CASE Triggers \/ GraceEnds
    BY <1>2, TriggersIInv
<1>3. ASSUME NEW d \in Drainers, Work(d) PROVE IInv'
    BY <1>3, QuietIInv, PopNextIInv, SendOkIInv, SendLateIInv, MarkBlockedIInv, RaisesIInv
    DEF Work
<1>4. CASE Crashes
    BY <1>4, RestartsIInv, CliDiesIInv DEF Crashes
<1>5. CASE UNCHANGED vars
    <2>1. UNCHANGED <<queue, issued, pc, held, stopped, lockQ, sent, deleted, lost,
                      everBlocked, unsure>>
        BY <1>5 DEF vars, store, drain, history
    <2>2. TypeOK'
        BY <2>1 DEF IInv, TypeOK
    <2>3. Control'
        BY <2>1 DEF IInv, Control
    <2>4. Accounted'
        BY <2>1 DEF IInv, Accounted, Ids, InFlight, HeldIds, SentIds
    <2> QED
        BY <2>2, <2>3, <2>4 DEF IInv
<1> QED
    BY <1>1, <1>2, <1>3, <1>4, <1>5 DEF Next

(* The inductive invariant holds, and with it the types and the books: no  *)
(* interleaving of any number of drains, in the server or in processes of  *)
(* their own, of users, exceptions and restarts drops or doubles a prompt. *)
THEOREM QueueInvariance == Spec => []IInv
BY InitIInv, NextIInv, PTL DEF Spec

(* Every reachable state of the queue at work is of its type.              *)
THEOREM TypeCorrect == Spec => []TypeOK
<1>1. IInv => TypeOK
    BY DEF IInv
<1> QED
    BY <1>1, QueueInvariance, PTL

(* Every prompt submitted is in exactly one place, but for the prompts of  *)
(* which tmux said too late that it had typed them.                        *)
THEOREM NothingDroppedOrDoubled == Spec => []Accounted
<1>1. IInv => Accounted
    BY DEF IInv
<1> QED
    BY <1>1, QueueInvariance, PTL

-----------------------------------------------------------------------------
(* What one step can do to the hands of the drains, to the deliveries and  *)
(* to the list.                                                            *)

(* Only a pop puts an item into a drain's hands, and only a pop brings a   *)
(* drain to its send.                                                      *)
LEMMA Holding ==
    ASSUME TypeOK, [Next]_vars, NEW d \in Drainers
    PROVE  \/ PopNext(d)
           \/ held'[d] = held[d] /\ (pc'[d] = "send" => pc[d] = "send")
           \/ held'[d] = NoItem /\ pc'[d] # "send"
<1>0. pc \in [Drainers -> Steps] /\ held \in [Drainers -> Item]
    BY DEF TypeOK
<1>1. CASE Users \/ Triggers \/ GraceEnds \/ UNCHANGED vars
    <2>1. CASE Users \/ UNCHANGED vars
        BY <2>1 DEF Users, Add, RemoveItem, Unblock, Clear, vars, drain, history
    <2>2. CASE Triggers \/ GraceEnds
        <3>1. held' = held /\ \E e, step : step # "send" /\ pc' = [pc EXCEPT ![e] = step]
            BY <2>2 DEF Triggers, GraceEnds, ScheduleDrain, RunNow, RunCli, AskForLock, Goto
        <3> QED
            BY <1>0, <3>1
    <2> QED
        BY <1>1, <2>1, <2>2
<1>2. ASSUME NEW e \in Drainers, Work(e)
      PROVE  \/ PopNext(d)
             \/ held'[d] = held[d] /\ (pc'[d] = "send" => pc[d] = "send")
             \/ held'[d] = NoItem /\ pc'[d] # "send"
    <2>1. CASE PopNext(e)
        BY <1>0, <2>1 DEF PopNext, Goto
    <2>2. CASE Locked(e) \/ NotSent(e) \/ SendLate(e)
        <3>1. held' = held /\ \E step : step # "send" /\ pc' = [pc EXCEPT ![e] = step]
            BY <2>2 DEF Locked, NotSent, SendLate, Goto
        <3> QED
            BY <1>0, <3>1
    <2>3. CASE PopNone(e) \/ SendOk(e) \/ MarkBlocked(e) \/ DrainRaises(e)
        <3>1. pc' = [pc EXCEPT ![e] = "idle"] /\ held' = [held EXCEPT ![e] = NoItem]
            BY <2>3 DEF PopNone, SendOk, MarkBlocked, DrainRaises, Finish, Goto
        <3> QED
            BY <1>0, <3>1
    <2> QED
        BY <1>2, <2>1, <2>2, <2>3 DEF Work
<1>3. CASE Crashes
    <2>1. CASE ServerRestarts
        BY <1>0, <2>1 DEF ServerRestarts
    <2>2. CASE \E c \in Cli : CliDies(c)
        <3>1. \E c : pc' = [pc EXCEPT ![c] = "idle"] /\ held' = [held EXCEPT ![c] = NoItem]
            BY <2>2 DEF CliDies, Finish, Goto
        <3> QED
            BY <1>0, <3>1
    <2> QED
        BY <1>3, <2>1, <2>2 DEF Crashes
<1> QED
    BY <1>1, <1>2, <1>3 DEF Next

(* A step delivers nothing, or what the drain at its send holds, and then  *)
(* it leaves the list alone.                                               *)
LEMMA Delivering ==
    ASSUME TypeOK, [Next]_vars
    PROVE  \/ sent' = sent
           \/ \E d \in Drainers :
                 /\ pc[d] = "send" /\ pc'[d] # "send"
                 /\ sent' = Append(sent, Delivery(d))
                 /\ UNCHANGED <<queue, issued, everBlocked>>
<1>1. CASE Users \/ Triggers \/ GraceEnds \/ Crashes \/ UNCHANGED vars
    BY <1>1 DEF Users, Add, RemoveItem, Unblock, Clear, Triggers, GraceEnds, ScheduleDrain,
        RunNow, RunCli, AskForLock, Crashes, ServerRestarts, CliDies, vars, history
<1>2. ASSUME NEW d \in Drainers, Work(d), sent' # sent
      PROVE  /\ pc[d] = "send" /\ pc'[d] # "send"
             /\ sent' = Append(sent, Delivery(d))
             /\ UNCHANGED <<queue, issued, everBlocked>>
    <2>1. SendOk(d) \/ SendLate(d)
        BY <1>2 DEF Work, Locked, PopNext, PopNone, NotSent, MarkBlocked, DrainRaises, history
    <2>2. \E step : step # "send" /\ pc' = [pc EXCEPT ![d] = step]
        BY <2>1 DEF SendOk, SendLate, Finish, Goto
    <2>3. pc'[d] # "send"
        BY <2>2 DEF TypeOK
    <2> QED
        BY <2>1, <2>3 DEF SendOk, SendLate, store
<1> QED
    BY <1>1, <1>2 DEF Next

(* A step leaves the list and the record of blocked prompts alone, or it   *)
(* is one of the operations of the store.                                  *)
LEMMA Listing ==
    ASSUME [Next]_vars
    PROVE  \/ UNCHANGED <<queue, issued, everBlocked>>
           \/ Users
           \/ \E d \in Drainers : PopNext(d) \/ MarkBlocked(d)
BY DEF Next, Triggers, GraceEnds, ScheduleDrain, RunNow, RunCli, AskForLock, Work, Locked,
    PopNone, SendOk, SendLate, NotSent, DrainRaises, Crashes, ServerRestarts, CliDies, vars,
    store, history

-----------------------------------------------------------------------------
(* What safe_mode refuses is not sent.                                     *)

(* What is about to be sent has passed _check_safe, and so has all that    *)
(* was sent.                                                               *)
Screened ==
    /\ \A d \in Drainers : pc[d] = "send" => held[d].id \notin Dangerous
    /\ NoDangerousSent

(* Whatever happens, what a drainer holds and has sent stays screened.     *)
LEMMA ScreenedStep == TypeOK /\ Screened /\ [Next]_vars => Screened'
<1> SUFFICES ASSUME TypeOK, Screened, [Next]_vars PROVE Screened'
    OBVIOUS
<1>1. ASSUME NEW d \in Drainers, pc'[d] = "send"
      PROVE  held'[d].id \notin Dangerous
    <2>1. CASE PopNext(d)
        <3>1. PICK x : pc' = [pc EXCEPT ![d] = AfterPop(x)] /\ held' = [held EXCEPT ![d] = x]
            BY <2>1 DEF PopNext, Goto
        <3>2. AfterPop(x) = "send" /\ held'[d] = x
            BY <1>1, <3>1 DEF TypeOK
        <3> QED
            BY <3>2 DEF AfterPop
    <2>2. CASE ~PopNext(d)
        <3>1. held'[d] = held[d] /\ pc[d] = "send"
            BY <1>1, <2>2, Holding
        <3> QED
            BY <3>1 DEF Screened
    <2> QED
        BY <2>1, <2>2
<1>2. NoDangerousSent'
    <2>1. CASE sent' = sent
        BY <2>1 DEF Screened, NoDangerousSent, SentIds
    <2>2. CASE sent' # sent
        <3>1. PICK d \in Drainers : pc[d] = "send" /\ sent' = Append(sent, Delivery(d))
            BY <2>2, Delivering
        <3>2. SentIds' = SentIds \cup {held[d].id}
            BY <3>1, SentGrows
        <3> QED
            BY <3>1, <3>2 DEF Screened, NoDangerousSent
    <2> QED
        BY <2>1, <2>2
<1> QED
    BY <1>1, <1>2 DEF Screened

(* A prompt safe_mode refuses is never typed into a pane.                  *)
THEOREM NeverSendsDangerous == Spec => []NoDangerousSent
<1>1. Init => Screened
    BY DEF Init, Screened, NoDangerousSent, SentIds
<1>2. Screened => NoDangerousSent
    BY DEF Screened
<1>3. Spec => []Screened
    BY <1>1, ScreenedStep, TypeCorrect, PTL DEF Spec
<1> QED
    BY <1>2, <1>3, PTL

-----------------------------------------------------------------------------
(* What the operations do to the items of the queue and to their order.    *)

(* Taking one item out adds none and keeps the order of the others.        *)
LEMMA QueueLess ==
    ASSUME TypeOK, NEW n \in 1 .. Len(queue)
    PROVE  queue' = RemoveAt(queue, n) =>
           /\ queue' \in Seq(Item) /\ DOMAIN queue' = 1 .. Len(queue')
           /\ \A i \in 1 .. Len(queue') : \E a \in 1 .. Len(queue) : a # n /\ queue'[i] = queue[a]
           /\ \A a \in 1 .. Len(queue) : a # n => \E i \in 1 .. Len(queue') : queue'[i] = queue[a]
           /\ \A i, j \in 1 .. Len(queue') : i < j =>
                 \E a, b \in 1 .. Len(queue) :
                    /\ a # n /\ b # n /\ a < b
                    /\ queue'[i] = queue[a] /\ queue'[j] = queue[b]
<1> DEFINE r == RemoveAt(queue, n)
<1>1. queue \in Seq(Item)
    BY DEF TypeOK
<1>2. r \in Seq(Item) /\ DOMAIN r = 1 .. Len(r)
    BY QueueTypes, LenProperties
<1>3. \A i \in 1 .. Len(r) : \E a \in 1 .. Len(queue) : a # n /\ r[i] = queue[a]
    BY <1>1, RemoveAtItems
<1>4. \A a \in 1 .. Len(queue) : a # n => \E i \in 1 .. Len(r) : r[i] = queue[a]
    BY <1>1, RemoveAtItems
<1>5. ASSUME NEW i \in 1 .. Len(r), NEW j \in 1 .. Len(r), i < j
      PROVE  \E a, b \in 1 .. Len(queue) :
                 /\ a # n /\ b # n /\ a < b
                 /\ r[i] = queue[a] /\ r[j] = queue[b]
    <2>1. i \in 1 .. Len(RemoveAt(queue, n)) /\ j \in 1 .. Len(RemoveAt(queue, n))
        OBVIOUS
    <2> HIDE DEF r
    <2>2. \E a, b \in 1 .. Len(queue) :
             /\ a # n /\ b # n /\ a < b
             /\ RemoveAt(queue, n)[i] = queue[a] /\ RemoveAt(queue, n)[j] = queue[b]
        BY <1>1, <1>5, <2>1, RemoveAtOrder
    <2> QED
        BY <2>2 DEF r
<1> HIDE DEF r
<1> SUFFICES ASSUME queue' = r
             PROVE  /\ queue' \in Seq(Item) /\ DOMAIN queue' = 1 .. Len(queue')
                    /\ \A i \in 1 .. Len(queue') : \E a \in 1 .. Len(queue) :
                          a # n /\ queue'[i] = queue[a]
                    /\ \A a \in 1 .. Len(queue) : a # n =>
                          \E i \in 1 .. Len(queue') : queue'[i] = queue[a]
                    /\ \A i, j \in 1 .. Len(queue') : i < j =>
                          \E a, b \in 1 .. Len(queue) :
                             /\ a # n /\ b # n /\ a < b
                             /\ queue'[i] = queue[a] /\ queue'[j] = queue[b]
    BY DEF r
<1>6. queue' \in Seq(Item) /\ DOMAIN queue' = 1 .. Len(queue')
    BY <1>2
<1>7. \A i \in 1 .. Len(queue') : \E a \in 1 .. Len(queue) : a # n /\ queue'[i] = queue[a]
    BY <1>3
<1>8. \A a \in 1 .. Len(queue) : a # n => \E i \in 1 .. Len(queue') : queue'[i] = queue[a]
    BY <1>4
<1>9. ASSUME NEW i \in 1 .. Len(queue'), NEW j \in 1 .. Len(queue'), i < j
      PROVE  \E a, b \in 1 .. Len(queue) :
                 /\ a # n /\ b # n /\ a < b
                 /\ queue'[i] = queue[a] /\ queue'[j] = queue[b]
    BY <1>5, <1>9
<1> QED
    BY <1>6, <1>7, <1>8, <1>9

(* An item that is put back is blocked, and the others are as they were.   *)
LEMMA QueueBack ==
    ASSUME TypeOK, NEW x \in Item
    PROVE  queue' = Reinsert(queue, x) =>
           /\ queue' \in Seq(Item) /\ DOMAIN queue' = 1 .. Len(queue')
           /\ Len(queue') = Len(queue) + 1
           /\ \A a \in 1 .. Len(queue) : \E i \in 1 .. Len(queue') : queue'[i] = queue[a]
           /\ \E n \in 1 .. Len(queue') :
                 /\ queue'[n] = [x EXCEPT !.status = "blocked"]
                 /\ \A i \in 1 .. Len(queue') : i # n =>
                       \E a \in 1 .. Len(queue) : queue'[i] = queue[a]
                 /\ \A i, j \in 1 .. Len(queue') : i < j /\ i # n /\ j # n =>
                       \E a, b \in 1 .. Len(queue) :
                          a < b /\ queue'[i] = queue[a] /\ queue'[j] = queue[b]
<1> DEFINE y == [x EXCEPT !.status = "blocked"]
<1>1. queue \in Seq(Item) /\ y \in Item
    BY DEF TypeOK, Item, Status
<1>2. PICK n \in 1 .. Len(queue) + 1 : Reinsert(queue, x) = InsertAt(queue, n, y)
    BY <1>1, ReinsertProperties
<1> DEFINE r == InsertAt(queue, n, y)
<1> HIDE DEF y
<1>3. r \in Seq(Item) /\ Len(r) = Len(queue) + 1
    BY <1>1, InsertAtProperties
<1>4. DOMAIN r = 1 .. Len(r)
    BY <1>3, LenProperties
<1>5. n \in 1 .. Len(r) /\ r[n] = y
    BY <1>1, InsertAtItems
<1>6. \A i \in 1 .. Len(r) : i # n => \E a \in 1 .. Len(queue) : r[i] = queue[a]
    BY <1>1, InsertAtItems
<1>7. \A a \in 1 .. Len(queue) : \E i \in 1 .. Len(r) : i # n /\ r[i] = queue[a]
    BY <1>1, InsertAtItems
<1>8. \A i, j \in 1 .. Len(r) : i < j /\ i # n /\ j # n =>
          \E a, b \in 1 .. Len(queue) : a < b /\ r[i] = queue[a] /\ r[j] = queue[b]
    BY <1>1, InsertAtOrder
<1> HIDE DEF r
<1> SUFFICES ASSUME queue' = r
             PROVE  /\ queue' \in Seq(Item) /\ DOMAIN queue' = 1 .. Len(queue')
                    /\ Len(queue') = Len(queue) + 1
                    /\ \A a \in 1 .. Len(queue) : \E i \in 1 .. Len(queue') : queue'[i] = queue[a]
                    /\ n \in 1 .. Len(queue') /\ queue'[n] = y
                    /\ \A i \in 1 .. Len(queue') : i # n =>
                          \E a \in 1 .. Len(queue) : queue'[i] = queue[a]
                    /\ \A i, j \in 1 .. Len(queue') : i < j /\ i # n /\ j # n =>
                          \E a, b \in 1 .. Len(queue) :
                             a < b /\ queue'[i] = queue[a] /\ queue'[j] = queue[b]
    BY <1>2 DEF r, y
<1>9. queue' \in Seq(Item) /\ DOMAIN queue' = 1 .. Len(queue') /\ Len(queue') = Len(queue) + 1
    BY <1>3, <1>4
<1>10. n \in 1 .. Len(queue') /\ queue'[n] = y
    BY <1>5
<1>11. \A a \in 1 .. Len(queue) : \E i \in 1 .. Len(queue') : queue'[i] = queue[a]
    BY <1>7
<1>12. \A i \in 1 .. Len(queue') : i # n => \E a \in 1 .. Len(queue) : queue'[i] = queue[a]
    BY <1>6
<1>13. ASSUME NEW i \in 1 .. Len(queue'), NEW j \in 1 .. Len(queue'), i < j, i # n, j # n
       PROVE  \E a, b \in 1 .. Len(queue) :
                 a < b /\ queue'[i] = queue[a] /\ queue'[j] = queue[b]
    <2>1. i \in 1 .. Len(r) /\ j \in 1 .. Len(r)
        OBVIOUS
    <2>2. PICK a \in 1 .. Len(queue), b \in 1 .. Len(queue) :
             a < b /\ r[i] = queue[a] /\ r[j] = queue[b]
        BY <1>8, <1>13, <2>1
    <2> QED
        BY <2>2
<1> QED
    BY <1>9, <1>10, <1>11, <1>12, <1>13

-----------------------------------------------------------------------------
(* A blocked prompt waits for the user.                                    *)

(* After a step, a blocked prompt is where it was, or a user acted.        *)
BlockedStep ==
    \A k \in DOMAIN queue :
        queue[k].status = "blocked" =>
            \/ queue[k] \in {queue'[l] : l \in DOMAIN queue'}
            \/ queue[k].id \in deleted'
            \/ Users /\ queue[k].id \in IdsOf(queue')

(* A blocked item stays blocked until it is deleted or a user acts on it.  *)
LEMMA BlockedStepHolds == TypeOK /\ [Next]_vars => BlockedStep
<1> SUFFICES ASSUME TypeOK, [Next]_vars,
                    NEW k \in 1 .. Len(queue), queue[k].status = "blocked"
             PROVE  \/ queue[k] \in {queue'[l] : l \in DOMAIN queue'}
                    \/ queue[k].id \in deleted'
                    \/ Users /\ queue[k].id \in IdsOf(queue')
    BY QueueTypes DEF BlockedStep
<1>0. queue \in Seq(Item) /\ DOMAIN queue = 1 .. Len(queue) /\ queue[k] \in Item
    BY QueueTypes DEF TypeOK
<1>1. CASE UNCHANGED queue
    BY <1>0, <1>1
<1>2. ASSUME NEW d \in Drainers, PopNext(d)
      PROVE  queue[k] \in {queue'[l] : l \in DOMAIN queue'}
    <2> DEFINE n == NextIndex(queue, stopped, d = Scheduled)
    <2>1. n \in 1 .. Len(queue) /\ queue[n].status = "pending"
        BY <1>0, <1>2, NextIndexProperties DEF PopNext, Eligible
    <2>2. queue' = RemoveAt(queue, n) /\ n # k
        BY <1>2, <2>1 DEF PopNext
    <2> HIDE DEF n
    <2> QED
        BY <2>1, <2>2, QueueLess
<1>3. ASSUME NEW d \in Drainers, MarkBlocked(d)
      PROVE  queue[k] \in {queue'[l] : l \in DOMAIN queue'}
    <2>1. queue' = Reinsert(queue, held[d]) /\ held[d] \in Item
        BY <1>3 DEF MarkBlocked, TypeOK
    <2>2. /\ DOMAIN queue' = 1 .. Len(queue')
          /\ \A a \in 1 .. Len(queue) : \E i \in 1 .. Len(queue') : queue'[i] = queue[a]
        BY <2>1, QueueBack
    <2> QED
        BY <2>2
<1>4. CASE Users
    <2>1. ASSUME NEW t \in Target, Add(t)
          PROVE  queue[k].id \in IdsOf(queue')
        <3>1. NewItem(issued + 1, t) \in Item
            BY DEF TypeOK, NewItem, Item, Status
        <3>2. IdsOf(Append(queue, NewItem(issued + 1, t)))
                  = IdsOf(queue) \cup {NewItem(issued + 1, t).id}
            BY <1>0, <3>1, AppendIds
        <3>3. queue[k].id \in IdsOf(queue)
            BY <1>0, IdsAt
        <3>4. queue' = Append(queue, NewItem(issued + 1, t)) \/ queue' = queue
            BY <2>1 DEF Add, Added
        <3> QED
            BY <3>2, <3>3, <3>4
    <2>2. ASSUME NEW n \in 1 .. Len(queue), RemoveItem(n), n # k
          PROVE  queue[k] \in {queue'[l] : l \in DOMAIN queue'}
        <3>1. queue' = RemoveAt(queue, n)
            BY <2>2 DEF RemoveItem
        <3>2. /\ DOMAIN queue' = 1 .. Len(queue')
              /\ \A a \in 1 .. Len(queue) :
                    a # n => \E i \in 1 .. Len(queue') : queue'[i] = queue[a]
            BY <2>2, <3>1, QueueLess
        <3> QED
            BY <2>2, <3>2
    <2>3. RemoveItem(k) => queue[k].id \in deleted'
        BY DEF RemoveItem
    <2>4. ASSUME NEW n \in 1 .. Len(queue), Unblock(n)
          PROVE  queue[k].id \in IdsOf(queue')
        <3>1. [queue[n] EXCEPT !.status = "pending"].id = queue[n].id
            BY QueueTypes DEF Item
        <3>2. IdsOf(queue') = IdsOf(queue)
            BY <1>0, <2>4, <3>1, UnblockedIds DEF Unblock
        <3> QED
            BY <1>0, <3>2, IdsAt
    <2>5. Clear => queue[k].id \in deleted'
        BY <1>0, IdsAt DEF Clear
    <2> QED
        BY <1>0, <1>4, <2>1, <2>2, <2>3, <2>4, <2>5 DEF Users
<1> QED
    BY <1>1, <1>2, <1>3, <1>4, Listing

(* A prompt leaves the blocked state only by a user's hand.                *)
THEOREM BlockedWaitsForUser == Spec => BlockedStays
<1>1. TypeOK /\ [Next]_vars => [BlockedStep]_vars
    BY BlockedStepHolds
<1>2. [][BlockedStep]_vars <=> BlockedStays
    BY DEF BlockedStep, BlockedStays
<1> QED
    BY <1>1, <1>2, TypeCorrect, PTL DEF Spec

-----------------------------------------------------------------------------
(* The order of deliveries.  A prompt that was never put back as blocked   *)
(* is fresh.  The fresh prompts in the queue are in the order of           *)
(* submission, and a fresh one is the latest of its target: whatever of    *)
(* that target is in the queue and not fresh, in flight or delivered, was  *)
(* submitted before it.  For the item the server is about to send, this    *)
(* says that all the server has sent to its target was submitted before.   *)
Fresh(x) == x.id \notin everBlocked

BlockedKnown ==
    /\ everBlocked \subseteq Ids
    /\ \A k \in 1 .. Len(queue) : queue[k].status = "blocked" => ~Fresh(queue[k])

FreshSorted ==
    \A k, l \in 1 .. Len(queue) :
        k < l /\ Fresh(queue[k]) /\ Fresh(queue[l]) => queue[k].id < queue[l].id

FreshOverQueue ==
    \A k, l \in 1 .. Len(queue) :
        Fresh(queue[k]) /\ ~Fresh(queue[l]) /\ queue[l].target = queue[k].target
        => queue[l].id < queue[k].id

FreshOverHeld ==
    \A k \in 1 .. Len(queue), d \in Drainers :
        Fresh(queue[k]) /\ held[d] # NoItem /\ held[d].target = queue[k].target
        => held[d].id < queue[k].id

FreshOverSent ==
    \A k \in 1 .. Len(queue), m \in 1 .. Len(sent) :
        Fresh(queue[k]) /\ sent[m].target = queue[k].target => sent[m].id < queue[k].id

HeldLast ==
    \A d \in Server, m \in 1 .. Len(sent) :
        /\ pc[d] = "send" /\ Fresh(held[d])
        /\ sent[m].by \in Server /\ sent[m].target = held[d].target
        => sent[m].id < held[d].id

QInv == BlockedKnown /\ FreshSorted /\ FreshOverQueue
OInv == QInv /\ FreshOverHeld /\ FreshOverSent /\ HeldLast /\ ServerInOrder

(* Some steps only thin the queue out: its items are among those it had,   *)
(* in the same order, and none is newly blocked.                           *)
Thinned ==
    /\ \A i \in 1 .. Len(queue') : \E a \in 1 .. Len(queue) :
          /\ queue'[i].id = queue[a].id /\ queue'[i].target = queue[a].target
          /\ queue'[i].status = "blocked" => queue[a].status = "blocked"
    /\ \A i, j \in 1 .. Len(queue') : i < j =>
          \E a, b \in 1 .. Len(queue) :
             a < b /\ queue'[i].id = queue[a].id /\ queue'[j].id = queue[b].id

(* A queue that only loses items keeps its order with what was issued.     *)
LEMMA ThinnedQInv ==
    ASSUME QInv, Thinned, UNCHANGED <<issued, everBlocked>>
    PROVE  QInv'
<1>1. BlockedKnown'
    BY DEF QInv, BlockedKnown, Thinned, Fresh, Ids
<1>2. FreshSorted'
    BY DEF QInv, FreshSorted, Thinned, Fresh
<1>3. FreshOverQueue'
    <2>1. ASSUME NEW k \in 1 .. Len(queue'), NEW l \in 1 .. Len(queue'),
                 Fresh(queue'[k]), ~Fresh(queue'[l]), queue'[l].target = queue'[k].target
          PROVE  queue'[l].id < queue'[k].id
        <3>1. PICK a \in 1 .. Len(queue) :
                  queue'[k].id = queue[a].id /\ queue'[k].target = queue[a].target
            BY DEF Thinned
        <3>2. PICK b \in 1 .. Len(queue) :
                  queue'[l].id = queue[b].id /\ queue'[l].target = queue[b].target
            BY DEF Thinned
        <3> QED
            BY <2>1, <3>1, <3>2 DEF QInv, FreshOverQueue, Fresh
    <2> QED
        BY <2>1 DEF FreshOverQueue, Fresh
<1> QED
    BY <1>1, <1>2, <1>3 DEF QInv

(* Nor does it come to hold an item older than one held or sent.           *)
LEMMA ThinnedOver ==
    ASSUME FreshOverHeld, FreshOverSent, Thinned, UNCHANGED everBlocked
    PROVE  /\ sent' = sent => FreshOverSent'
           /\ (\A d \in Drainers : held'[d] # NoItem => held'[d] = held[d]) => FreshOverHeld'
<1>1. ASSUME NEW k \in 1 .. Len(queue')
      PROVE  \E a \in 1 .. Len(queue) :
                queue'[k].id = queue[a].id /\ queue'[k].target = queue[a].target
    BY DEF Thinned
<1>2. sent' = sent => FreshOverSent'
    BY <1>1 DEF FreshOverSent, Fresh
<1>3. (\A d \in Drainers : held'[d] # NoItem => held'[d] = held[d]) => FreshOverHeld'
    BY <1>1 DEF FreshOverHeld, Fresh
<1> QED
    BY <1>2, <1>3

(* A step that changes neither the deliveries nor what the server is about *)
(* to send leaves the order of deliveries as it is.                        *)
LEMMA HeldLastStays ==
    ASSUME HeldLast, ServerInOrder, sent' = sent, everBlocked \subseteq everBlocked',
           \A d \in Drainers : pc'[d] = "send" => pc[d] = "send" /\ held'[d] = held[d]
    PROVE  HeldLast' /\ ServerInOrder'
<1>1. HeldLast'
    BY DEF HeldLast, Fresh, Drainers
<1>2. ServerInOrder'
    BY DEF ServerInOrder, InOrder
<1> QED
    BY <1>1, <1>2

(* A pop makes the list shorter.                                           *)
LEMMA PopShortens ==
    ASSUME TypeOK, NEW d, PopNext(d)
    PROVE  Len(queue') = Len(queue) - 1 /\ Len(queue) \in Nat /\ queue' # queue
<1> DEFINE n == NextIndex(queue, stopped, d = Scheduled)
<1>1. n \in 1 .. Len(queue)
    BY NextIndexProperties, LenProperties DEF PopNext, TypeOK
<1>2. Len(RemoveAt(queue, n)) = Len(queue) - 1 /\ Len(queue) \in Nat
    BY <1>1, RemoveAtProperties, LenProperties DEF TypeOK
<1>3. queue' = RemoveAt(queue, n)
    BY DEF PopNext
<1> QED
    BY <1>2, <1>3

(* Steps that leave the list alone, the deliveries among them.             *)
LEMMA ListStaysOInv ==
    ASSUME IInv, OInv, [Next]_vars, UNCHANGED <<queue, issued, everBlocked>>
    PROVE  OInv'
<1>1. TypeOK /\ Control
    BY DEF IInv
<1>2. ASSUME NEW d \in Drainers
      PROVE  /\ held'[d] # NoItem => held'[d] = held[d]
             /\ pc'[d] = "send" => pc[d] = "send" /\ held'[d] = held[d]
    <2>1. ~PopNext(d)
        BY <1>1, PopShortens
    <2> QED
        BY <1>1, <2>1, Holding
<1>3. QInv' /\ FreshOverHeld'
    BY <1>2 DEF OInv, QInv, BlockedKnown, FreshSorted, FreshOverQueue, FreshOverHeld, Fresh, Ids
<1>4. CASE sent' = sent
    <2>1. FreshOverSent'
        BY <1>4 DEF OInv, FreshOverSent, Fresh
    <2>2. HeldLast' /\ ServerInOrder'
        BY <1>2, <1>4, HeldLastStays DEF OInv
    <2> QED
        BY <1>3, <2>1, <2>2 DEF OInv
<1>5. CASE sent' # sent
    <2>1. PICK e \in Drainers :
              /\ pc[e] = "send" /\ pc'[e] # "send"
              /\ sent' = Append(sent, Delivery(e))
        BY <1>1, <1>5, Delivering
    <2>2. /\ Len(sent) \in Nat /\ Len(sent') = Len(sent) + 1
          /\ DOMAIN sent = 1 .. Len(sent) /\ DOMAIN sent' = 1 .. Len(sent) + 1
          /\ \A k \in 1 .. Len(sent) : sent'[k] = sent[k]
          /\ sent'[Len(sent) + 1] = Delivery(e)
        BY <1>1, <2>1, SentGrows
    <2>3. /\ Delivery(e).id = held[e].id /\ Delivery(e).target = held[e].target
          /\ Delivery(e).by = e /\ held[e] # NoItem
        BY <1>1, <2>1 DEF Delivery, Control
    <2>4. FreshOverSent'
        <3>1. ASSUME NEW k \in 1 .. Len(queue), Fresh(queue[k]), NEW m \in 1 .. Len(sent'),
                     sent'[m].target = queue[k].target
              PROVE  sent'[m].id < queue[k].id
            <4>1. CASE m \in 1 .. Len(sent)
                BY <2>2, <3>1, <4>1 DEF OInv, FreshOverSent
            <4>2. CASE m = Len(sent) + 1
                BY <2>2, <2>3, <3>1, <4>2 DEF OInv, FreshOverHeld
            <4> QED
                BY <2>2, <4>1, <4>2
        <3> QED
            BY <3>1 DEF FreshOverSent, Fresh
    <2>5. HeldLast'
        <3>1. ASSUME NEW d \in Server, pc'[d] = "send", Fresh(held'[d]),
                     NEW m \in 1 .. Len(sent'), sent'[m].by \in Server,
                     sent'[m].target = held'[d].target
              PROVE  sent'[m].id < held'[d].id
            <4>1. pc[d] = "send" /\ held'[d] = held[d] /\ d # e
                BY <1>2, <2>1, <3>1 DEF Drainers
            <4>2. e \notin Server
                BY <1>1, <2>1, <4>1 DEF Control, Inside
            <4>3. m \in 1 .. Len(sent) /\ sent'[m] = sent[m]
                BY <2>2, <2>3, <3>1, <4>2
            <4> QED
                BY <3>1, <4>1, <4>3 DEF OInv, HeldLast, Fresh
        <3> QED
            BY <3>1 DEF HeldLast, Fresh
    <2>6. ServerInOrder'
        <3>1. ASSUME NEW k \in 1 .. Len(sent'), NEW l \in 1 .. Len(sent'), k < l,
                     sent'[k].by \in Server, sent'[l].by \in Server,
                     sent'[k].target = sent'[l].target, sent'[k].id > sent'[l].id
              PROVE  sent'[l].id \in everBlocked
            <4>1. k \in 1 .. Len(sent) /\ sent'[k] = sent[k]
                BY <2>2, <3>1
            <4>2. CASE l \in 1 .. Len(sent)
                BY <2>2, <3>1, <4>1, <4>2 DEF OInv, ServerInOrder, InOrder
            <4>3. CASE l = Len(sent) + 1
                <5>1. e \in Server /\ sent'[l].id = held[e].id /\ sent'[l].target = held[e].target
                    BY <2>2, <2>3, <3>1, <4>3
                <5>2. Fresh(held[e]) => sent[k].id < held[e].id
                    BY <2>1, <3>1, <4>1, <5>1 DEF OInv, HeldLast
                <5>3. sent[k].id \in Nat /\ held[e].id \in Nat
                    <6>1. sent[k].id \in 1 .. issued /\ held[e].id \in 1 .. issued
                        BY <2>3, <4>1, KnownIds DEF IInv
                    <6> QED
                        BY <6>1
                <5> QED
                    BY <3>1, <4>1, <5>1, <5>2, <5>3 DEF Fresh
            <4> QED
                BY <2>2, <4>2, <4>3
        <3> QED
            BY <2>2, <3>1 DEF ServerInOrder, InOrder
    <2> QED
        BY <1>3, <2>4, <2>5, <2>6 DEF OInv
<1> QED
    BY <1>4, <1>5

(* A removal thins the queue out.                                          *)
LEMMA RemovalThins ==
    ASSUME TypeOK, NEW n \in 1 .. Len(queue), queue' = RemoveAt(queue, n)
    PROVE  Thinned
<1>1. \A i \in 1 .. Len(queue') : \E a \in 1 .. Len(queue) : a # n /\ queue'[i] = queue[a]
    BY QueueLess
<1>2. \A i, j \in 1 .. Len(queue') : i < j =>
          \E a, b \in 1 .. Len(queue) :
             /\ a # n /\ b # n /\ a < b
             /\ queue'[i] = queue[a] /\ queue'[j] = queue[b]
    BY QueueLess
<1>3. \A i \in 1 .. Len(queue') : \E a \in 1 .. Len(queue) :
          /\ queue'[i].id = queue[a].id /\ queue'[i].target = queue[a].target
          /\ queue'[i].status = "blocked" => queue[a].status = "blocked"
    BY <1>1
<1>4. ASSUME NEW i \in 1 .. Len(queue'), NEW j \in 1 .. Len(queue'), i < j
      PROVE  \E a, b \in 1 .. Len(queue) :
                a < b /\ queue'[i].id = queue[a].id /\ queue'[j].id = queue[b].id
    <2>1. PICK a \in 1 .. Len(queue), b \in 1 .. Len(queue) :
              a < b /\ queue'[i] = queue[a] /\ queue'[j] = queue[b]
        BY <1>2, <1>4
    <2> QED
        BY <2>1
<1> QED
    BY <1>3, <1>4 DEF Thinned

(* What is popped is the first of its target that is not blocked, hence    *)
(* the first fresh one.                                                    *)
LEMMA PopNextOInv ==
    ASSUME IInv, OInv, NEW d \in Drainers, PopNext(d)
    PROVE  OInv'
<1> DEFINE n == NextIndex(queue, stopped, d = Scheduled)
<1>1. TypeOK /\ Control
    BY DEF IInv
<1>2. /\ n \in 1 .. Len(queue)
      /\ Eligible(queue[n], stopped, d = Scheduled)
      /\ \A i \in 1 .. n - 1 : ~Eligible(queue[i], stopped, d = Scheduled)
    BY <1>1, NextIndexProperties, LenProperties DEF PopNext, TypeOK
<1>3. /\ pc[d] = "pop" /\ held' = [held EXCEPT ![d] = queue[n]]
      /\ queue' = RemoveAt(queue, n)
      /\ \E step : pc' = [pc EXCEPT ![d] = step]
      /\ UNCHANGED <<issued, stopped, lockQ, sent, everBlocked>>
    BY DEF PopNext, Goto, history
<1> HIDE DEF n
<1>4. \A e \in Drainers : held'[e] = IF e = d THEN queue[n] ELSE held[e]
    BY <1>1, <1>3 DEF TypeOK
<1>5. \A e \in Drainers : e # d => pc'[e] = pc[e]
    BY <1>1, <1>3 DEF TypeOK
<1>6. Thinned
    BY <1>1, <1>2, <1>3, RemovalThins
<1>7. QInv' /\ FreshOverSent'
    BY <1>3, <1>6, ThinnedQInv, ThinnedOver DEF OInv
<1>8. ASSUME NEW a \in 1 .. Len(queue), a # n, Fresh(queue[a]), queue[a].target = queue[n].target
      PROVE  queue[n].id < queue[a].id
    <2>1. CASE ~Fresh(queue[n])
        BY <1>2, <1>8, <2>1 DEF OInv, QInv, FreshOverQueue
    <2>2. CASE Fresh(queue[n])
        <3>1. queue[a].status = "pending"
            BY <1>1, <1>8, QueueTypes DEF OInv, QInv, BlockedKnown, Item, Status
        <3>2. Eligible(queue[a], stopped, d = Scheduled)
            BY <1>2, <1>8, <3>1 DEF Eligible
        <3>3. n < a
            BY <1>1, <1>2, <1>8, <3>2, QueueTypes
        <3> QED
            BY <1>2, <1>8, <2>2, <3>3 DEF OInv, QInv, FreshSorted
    <2> QED
        BY <2>1, <2>2
<1>9. FreshOverHeld'
    <2>1. ASSUME NEW k \in 1 .. Len(queue'), NEW e \in Drainers, Fresh(queue'[k]),
                 held'[e] # NoItem, held'[e].target = queue'[k].target
          PROVE  held'[e].id < queue'[k].id
        <3>1. PICK a \in 1 .. Len(queue) : a # n /\ queue'[k] = queue[a]
            BY <1>1, <1>2, <1>3, QueueLess
        <3>2. CASE e = d
            BY <1>4, <1>8, <2>1, <3>1, <3>2
        <3>3. CASE e # d
            BY <1>4, <2>1, <3>1, <3>3 DEF OInv, FreshOverHeld
        <3> QED
            BY <3>2, <3>3
    <2> QED
        BY <1>3, <2>1 DEF FreshOverHeld, Fresh
<1>10. HeldLast'
    <2>1. ASSUME NEW e \in Server, NEW m \in 1 .. Len(sent), pc'[e] = "send", Fresh(held'[e]),
                 sent[m].by \in Server, sent[m].target = held'[e].target
          PROVE  sent[m].id < held'[e].id
        <3>1. CASE e = d
            BY <1>2, <1>4, <2>1, <3>1 DEF OInv, FreshOverSent
        <3>2. CASE e # d
            BY <1>4, <1>5, <2>1, <3>2 DEF OInv, HeldLast, Drainers
        <3> QED
            BY <3>1, <3>2
    <2> QED
        BY <1>3, <2>1 DEF HeldLast, Fresh
<1>11. ServerInOrder'
    BY <1>3 DEF OInv, ServerInOrder, InOrder
<1> QED
    BY <1>7, <1>9, <1>10, <1>11 DEF OInv

(* What is put back is fresh no longer, and what was fresh of its target   *)
(* was submitted after it.                                                 *)
LEMMA MarkBlockedOInv ==
    ASSUME IInv, OInv, NEW d \in Drainers, MarkBlocked(d)
    PROVE  OInv'
<1>1. TypeOK /\ Control /\ Accounted
    BY DEF IInv
<1>2. /\ pc[d] = "mark" /\ queue' = Reinsert(queue, held[d]) /\ Finish(d)
      /\ everBlocked' = everBlocked \cup {held[d].id}
      /\ UNCHANGED <<issued, sent>>
    BY DEF MarkBlocked
<1>3. held[d] \in Item /\ held[d] # NoItem /\ held[d].id \in Ids
    BY <1>1, <1>2, KnownIds DEF TypeOK, Control, Ids
<1>4. PICK n \in 1 .. Len(queue') :
          /\ queue'[n] = [held[d] EXCEPT !.status = "blocked"]
          /\ \A i \in 1 .. Len(queue') : i # n =>
                \E a \in 1 .. Len(queue) : queue'[i] = queue[a]
          /\ \A i, j \in 1 .. Len(queue') : i < j /\ i # n /\ j # n =>
                \E a, b \in 1 .. Len(queue) :
                   a < b /\ queue'[i] = queue[a] /\ queue'[j] = queue[b]
    BY <1>1, <1>2, <1>3, QueueBack
<1>5. queue'[n].id = held[d].id /\ queue'[n].target = held[d].target
    BY <1>3, <1>4 DEF Item
<1>6. \A a \in 1 .. Len(queue) : queue[a].id # held[d].id
    <2>1. IdsOf(queue) \cap InFlight = {} /\ held[d].id \in InFlight
        BY <1>1, <1>3, FlightIds DEF Accounted
    <2>2. \A a \in 1 .. Len(queue) : queue[a].id \in IdsOf(queue)
        BY <1>1, IdsAt DEF TypeOK
    <2> QED
        BY <2>1, <2>2
<1>7. \A i \in 1 .. Len(queue') : queue'[i].id \notin everBlocked' =>
          i # n /\ queue'[i].id \notin everBlocked
    BY <1>2, <1>5
<1>8. ASSUME NEW i \in 1 .. Len(queue')
      PROVE  \/ queue'[i].id = held[d].id /\ queue'[i].target = held[d].target
             \/ \E a \in 1 .. Len(queue) :
                   /\ queue'[i] = queue[a]
                   /\ queue'[i].id \in everBlocked' => queue[a].id \in everBlocked
    <2>1. CASE i = n
        BY <1>5, <2>1
    <2>2. CASE i # n
        <3>1. PICK a \in 1 .. Len(queue) : queue'[i] = queue[a]
            BY <1>4, <2>2
        <3>2. queue'[i].id \in everBlocked' => queue[a].id \in everBlocked
            BY <1>2, <1>6, <3>1
        <3> QED
            BY <3>1, <3>2
    <2> QED
        BY <2>1, <2>2
<1>9. ASSUME NEW k \in 1 .. Len(queue'), queue'[k].id \notin everBlocked'
      PROVE  \E a \in 1 .. Len(queue) : queue'[k] = queue[a] /\ Fresh(queue[a])
    BY <1>2, <1>4, <1>7, <1>9 DEF Fresh
<1>10. \A e \in Drainers : /\ held'[e] # NoItem => held'[e] = held[e]
                           /\ pc'[e] = "send" => pc[e] = "send" /\ held'[e] = held[e]
    BY <1>1, <1>2 DEF Finish, Goto, TypeOK
<1>11. BlockedKnown'
    <2>1. everBlocked' \subseteq Ids'
        BY <1>2, <1>3 DEF OInv, QInv, BlockedKnown, Ids
    <2>2. ASSUME NEW k \in 1 .. Len(queue'), queue'[k].status = "blocked"
          PROVE  queue'[k].id \in everBlocked'
        BY <1>2, <1>8, <2>2 DEF OInv, QInv, BlockedKnown, Fresh
    <2> QED
        BY <2>1, <2>2 DEF BlockedKnown, Fresh
<1>12. FreshSorted'
    <2>1. ASSUME NEW k \in 1 .. Len(queue'), NEW l \in 1 .. Len(queue'), k < l,
                 queue'[k].id \notin everBlocked', queue'[l].id \notin everBlocked'
          PROVE  queue'[k].id < queue'[l].id
        <3>1. PICK a \in 1 .. Len(queue), b \in 1 .. Len(queue) :
                  a < b /\ queue'[k] = queue[a] /\ queue'[l] = queue[b]
            BY <1>4, <1>7, <2>1
        <3> QED
            BY <1>2, <2>1, <3>1 DEF OInv, QInv, FreshSorted, Fresh
    <2> QED
        BY <2>1 DEF FreshSorted, Fresh
<1>13. FreshOverQueue'
    <2>1. ASSUME NEW k \in 1 .. Len(queue'), NEW l \in 1 .. Len(queue'),
                 queue'[k].id \notin everBlocked', queue'[l].id \in everBlocked',
                 queue'[l].target = queue'[k].target
          PROVE  queue'[l].id < queue'[k].id
        <3>1. PICK a \in 1 .. Len(queue) : queue'[k] = queue[a] /\ Fresh(queue[a])
            BY <1>9, <2>1
        <3>2. CASE queue'[l].id = held[d].id /\ queue'[l].target = held[d].target
            BY <1>3, <2>1, <3>1, <3>2 DEF OInv, FreshOverHeld
        <3>3. ASSUME NEW b \in 1 .. Len(queue), queue'[l] = queue[b], queue[b].id \in everBlocked
              PROVE  queue'[l].id < queue'[k].id
            BY <2>1, <3>1, <3>3 DEF OInv, QInv, FreshOverQueue, Fresh
        <3> QED
            BY <1>8, <2>1, <3>2, <3>3
    <2> QED
        BY <2>1 DEF FreshOverQueue, Fresh
<1>14. FreshOverHeld'
    <2>1. ASSUME NEW k \in 1 .. Len(queue'), NEW e \in Drainers, queue'[k].id \notin everBlocked',
                 held'[e] # NoItem, held'[e].target = queue'[k].target
          PROVE  held'[e].id < queue'[k].id
        BY <1>9, <1>10, <2>1 DEF OInv, FreshOverHeld
    <2> QED
        BY <2>1 DEF FreshOverHeld, Fresh
<1>15. FreshOverSent'
    BY <1>2, <1>9 DEF OInv, FreshOverSent, Fresh
<1>16. HeldLast' /\ ServerInOrder'
    BY <1>2, <1>10, HeldLastStays DEF OInv
<1> QED
    BY <1>11, <1>12, <1>13, <1>14, <1>15, <1>16 DEF OInv, QInv

(* Users add a prompt that is later than all, or thin the queue out.       *)
LEMMA AddOInv ==
    ASSUME IInv, OInv, NEW t \in Target, Add(t)
    PROVE  OInv'
<1> DEFINE x == NewItem(issued + 1, t)
<1>1. TypeOK /\ Control /\ Accounted
    BY DEF IInv
<1>2. /\ queue' = Append(queue, x) /\ issued' = issued + 1
      /\ UNCHANGED <<pc, held, sent, everBlocked>>
    BY DEF Add, Added, drain, history
<1>3. x \in Item /\ x.id = issued + 1 /\ x.status = "pending" /\ issued \in Nat
    BY <1>1 DEF TypeOK, NewItem, Item, Status
<1> HIDE DEF x
<1>4. /\ Len(queue) \in Nat /\ Len(queue') = Len(queue) + 1
      /\ \A i \in 1 .. Len(queue) : queue'[i] = queue[i]
      /\ queue'[Len(queue) + 1] = x
    BY <1>1, <1>2, <1>3, AppendProperties, LenProperties DEF TypeOK
<1>5. /\ \A k \in 1 .. Len(queue) : queue[k].id \in 1 .. issued
      /\ \A d \in Drainers : held[d] # NoItem => held[d].id \in 1 .. issued
      /\ \A m \in 1 .. Len(sent) : sent[m].id \in 1 .. issued
    BY <1>1, KnownIds
<1>6. everBlocked \subseteq 1 .. issued
    BY DEF OInv, QInv, BlockedKnown, Ids
<1>7. BlockedKnown'
    <2>1. everBlocked' \subseteq Ids'
        BY <1>2, <1>3, <1>6 DEF Ids
    <2>2. \A k \in 1 .. Len(queue') : queue'[k].status = "blocked" => queue'[k].id \in everBlocked'
        BY <1>2, <1>3, <1>4 DEF OInv, QInv, BlockedKnown, Fresh
    <2> QED
        BY <2>1, <2>2 DEF BlockedKnown, Fresh
<1>8. FreshSorted'
    <2>1. ASSUME NEW k \in 1 .. Len(queue'), NEW l \in 1 .. Len(queue'), k < l,
                 queue'[k].id \notin everBlocked, queue'[l].id \notin everBlocked
          PROVE  queue'[k].id < queue'[l].id
        <3>1. k \in 1 .. Len(queue) /\ queue'[k] = queue[k]
            BY <1>4, <2>1
        <3>2. CASE l \in 1 .. Len(queue)
            BY <1>4, <2>1, <3>1, <3>2 DEF OInv, QInv, FreshSorted, Fresh
        <3>3. CASE l = Len(queue) + 1
            BY <1>3, <1>4, <1>5, <3>1, <3>3
        <3> QED
            BY <1>4, <3>2, <3>3
    <2> QED
        BY <1>2, <2>1 DEF FreshSorted, Fresh
<1>9. FreshOverQueue'
    <2>1. ASSUME NEW k \in 1 .. Len(queue'), NEW l \in 1 .. Len(queue'),
                 queue'[k].id \notin everBlocked, queue'[l].id \in everBlocked,
                 queue'[l].target = queue'[k].target
          PROVE  queue'[l].id < queue'[k].id
        <3>1. l \in 1 .. Len(queue) /\ queue'[l] = queue[l]
            BY <1>3, <1>4, <1>6, <2>1
        <3>2. CASE k \in 1 .. Len(queue)
            BY <1>4, <2>1, <3>1, <3>2 DEF OInv, QInv, FreshOverQueue, Fresh
        <3>3. CASE k = Len(queue) + 1
            BY <1>3, <1>4, <1>5, <3>1, <3>3
        <3> QED
            BY <1>4, <3>2, <3>3
    <2> QED
        BY <1>2, <2>1 DEF FreshOverQueue, Fresh
<1>10. ASSUME NEW k \in 1 .. Len(queue')
       PROVE  \/ k \in 1 .. Len(queue) /\ queue'[k] = queue[k]
              \/ queue'[k].id = issued + 1
    BY <1>3, <1>4
<1>11. FreshOverHeld'
    <2>1. ASSUME NEW k \in 1 .. Len(queue'), NEW d \in Drainers,
                 queue'[k].id \notin everBlocked,
                 held[d] # NoItem, held[d].target = queue'[k].target
          PROVE  held[d].id < queue'[k].id
        BY <1>3, <1>5, <1>10, <2>1 DEF OInv, FreshOverHeld, Fresh
    <2> QED
        BY <1>2, <2>1 DEF FreshOverHeld, Fresh
<1>12. FreshOverSent'
    <2>1. ASSUME NEW k \in 1 .. Len(queue'), NEW m \in 1 .. Len(sent),
                 queue'[k].id \notin everBlocked, sent[m].target = queue'[k].target
          PROVE  sent[m].id < queue'[k].id
        <3>1. CASE k \in 1 .. Len(queue) /\ queue'[k] = queue[k]
            BY <2>1, <3>1 DEF OInv, FreshOverSent, Fresh
        <3>2. CASE queue'[k].id = issued + 1
            BY <1>3, <1>5, <3>2
        <3> QED
            BY <1>10, <3>1, <3>2
    <2> QED
        BY <1>2, <2>1 DEF FreshOverSent, Fresh
<1>13. HeldLast' /\ ServerInOrder'
    BY <1>2, HeldLastStays DEF OInv
<1> QED
    BY <1>7, <1>8, <1>9, <1>11, <1>12, <1>13 DEF OInv, QInv

(* What the users do at the end of the queue or to one item keeps the      *)
(* order.                                                                  *)
LEMMA UsersOInv ==
    ASSUME IInv, OInv, Users
    PROVE  OInv'
<1>1. TypeOK
    BY DEF IInv
<1>2. UNCHANGED <<pc, held, sent, everBlocked>>
    BY DEF Users, Add, RemoveItem, Unblock, Clear, drain, history
<1>3. ASSUME NEW t \in Target, Add(t) PROVE OInv'
    BY <1>3, AddOInv
<1>4. ASSUME Thinned, UNCHANGED issued PROVE OInv'
    <2>1. QInv' /\ FreshOverHeld' /\ FreshOverSent'
        BY <1>2, <1>4, ThinnedQInv, ThinnedOver DEF OInv
    <2>2. HeldLast' /\ ServerInOrder'
        BY <1>2, HeldLastStays DEF OInv
    <2> QED
        BY <2>1, <2>2 DEF OInv
<1>5. ASSUME NEW n \in 1 .. Len(queue), RemoveItem(n) PROVE OInv'
    <2>1. Thinned
        BY <1>1, <1>5, RemovalThins DEF RemoveItem
    <2> QED
        BY <1>4, <1>5, <2>1 DEF RemoveItem
<1>6. ASSUME NEW n \in 1 .. Len(queue), Unblock(n) PROVE OInv'
    <2> DEFINE y == [queue[n] EXCEPT !.status = "pending"]
    <2>1. y.id = queue[n].id /\ y.target = queue[n].target /\ y.status = "pending"
        BY <1>1, QueueTypes DEF Item
    <2>2. queue' = [queue EXCEPT ![n] = y] /\ issued' = issued
        BY <1>6 DEF Unblock, Unblocked, ReplaceAt
    <2> HIDE DEF y
    <2>3. Len(queue') = Len(queue) /\ DOMAIN queue' = 1 .. Len(queue) /\ Len(queue) \in Nat
        BY <1>1, <2>2, LenProperties DEF TypeOK
    <2>4. \A i \in 1 .. Len(queue) :
              /\ queue'[i].id = queue[i].id /\ queue'[i].target = queue[i].target
              /\ queue'[i].status = "blocked" => queue[i].status = "blocked"
        BY <1>1, <2>1, <2>2, <2>3, QueueTypes
    <2>5. Thinned
        BY <2>3, <2>4 DEF Thinned
    <2> QED
        BY <1>4, <2>2, <2>5
<1>7. CASE Clear
    <2>1. queue' = <<>> /\ issued' = issued
        BY <1>7 DEF Clear
    <2>2. Thinned
        BY <2>1 DEF Thinned
    <2> QED
        BY <1>4, <2>1, <2>2
<1> QED
    BY <1>1, <1>3, <1>5, <1>6, <1>7, QueueTypes DEF Users

(* Every step keeps the order.                                             *)
LEMMA NextOInv == IInv /\ OInv /\ [Next]_vars => OInv'
BY Listing, ListStaysOInv, UsersOInv, PopNextOInv, MarkBlockedOInv

(* Nothing is issued to begin with, so nothing is out of order.            *)
LEMMA InitOInv == Init => OInv
BY DEF Init, OInv, QInv, BlockedKnown, FreshSorted, FreshOverQueue, FreshOverHeld,
    FreshOverSent, HeldLast, ServerInOrder, InOrder

(* The server delivers the prompts of a target in the order of submission, *)
(* but for those that were held back, whatever command-line runs and users *)
(* do meanwhile.                                                           *)
THEOREM ServerKeepsOrder == Spec => []ServerInOrder
<1>1. Spec => []OInv
    BY InitOInv, NextOInv, QueueInvariance, PTL DEF Spec
<1>2. OInv => ServerInOrder
    BY DEF OInv
<1> QED
    BY <1>1, <1>2, PTL

-----------------------------------------------------------------------------
(* How long the queue can get.                                             *)

(* One more member is one more at most.                                    *)
LEMMA OneMore ==
    ASSUME NEW S, NEW x, IsFiniteSet(S)
    PROVE  /\ IsFiniteSet(S \cup {x})
           /\ Cardinality(S \cup {x}) \in Nat /\ Cardinality(S) \in Nat
           /\ Cardinality(S \cup {x}) <= Cardinality(S) + 1
<1>1. Cardinality(S) \in Nat
    BY FS_CardinalityType
<1>2. IsFiniteSet(S \cup {x})
    BY FS_AddElement
<1>3. Cardinality(S \cup {x}) = IF x \in S THEN Cardinality(S) ELSE Cardinality(S) + 1
    BY FS_AddElement
<1> QED
    BY <1>1, <1>2, <1>3

(* In flight is what the one drain past the server's lock holds, and what  *)
(* the command-line runs hold.                                             *)
LEMMA FlightBound ==
    ASSUME TypeOK, Control
    PROVE  /\ IsFiniteSet(InFlight)
           /\ Cardinality(InFlight) \in Nat /\ Cardinality(Cli) \in Nat
           /\ Cardinality(InFlight) <= 1 + Cardinality(Cli)
<1> DEFINE T == {c \in Cli : held[c] # NoItem}
           f == [c \in T |-> held[c].id]
<1>1. /\ IsFiniteSet(T) /\ Cardinality(T) <= Cardinality(Cli)
      /\ IsFiniteSet(Cli) /\ Cardinality(Cli) \in Nat
    BY PromptQueueAssumption, FS_Subset, FS_CardinalityType
<1>2. f \in Surjection(T, HeldIds(Cli))
    <2>1. f \in [T -> HeldIds(Cli)]
        BY DEF HeldIds
    <2>2. ASSUME NEW i \in HeldIds(Cli) PROVE \E c \in T : f[c] = i
        BY DEF HeldIds
    <2> QED
        BY <2>1, <2>2 DEF Surjection
<1>3. /\ IsFiniteSet(HeldIds(Cli)) /\ Cardinality(HeldIds(Cli)) <= Cardinality(T)
    BY <1>1, <1>2, FS_Surjection
<1>4. Cardinality(HeldIds(Cli)) \in Nat /\ Cardinality(T) \in Nat
    BY <1>1, <1>3, FS_CardinalityType
<1>5. HeldIds(Server) = {} \/ \E i : HeldIds(Server) = {i}
    <2>1. \A d, e \in Server : held[d] # NoItem /\ held[e] # NoItem => d = e
        BY DEF Control, Inside, Drainers
    <2> QED
        BY <2>1 DEF HeldIds
<1>6. InFlight = HeldIds(Cli) \/ \E i : InFlight = HeldIds(Cli) \cup {i}
    <2>1. InFlight = HeldIds(Cli) \cup HeldIds(Server)
        BY DEF InFlight, HeldIds, Drainers
    <2> QED
        BY <1>5, <2>1
<1>7. IsFiniteSet(InFlight) /\ Cardinality(InFlight) <= 1 + Cardinality(HeldIds(Cli))
    <2>1. CASE InFlight = HeldIds(Cli)
        BY <1>3, <1>4, <2>1
    <2>2. ASSUME NEW i, InFlight = HeldIds(Cli) \cup {i}
          PROVE  IsFiniteSet(InFlight) /\ Cardinality(InFlight) <= 1 + Cardinality(HeldIds(Cli))
        <3>1. /\ IsFiniteSet(HeldIds(Cli) \cup {i})
              /\ Cardinality(HeldIds(Cli) \cup {i}) <= Cardinality(HeldIds(Cli)) + 1
              /\ Cardinality(HeldIds(Cli) \cup {i}) \in Nat
            BY <1>3, OneMore
        <3> QED
            BY <1>4, <2>2, <3>1
    <2> QED
        BY <1>6, <2>1, <2>2
<1>8. Cardinality(InFlight) \in Nat
    BY <1>7, FS_CardinalityType
<1> HIDE DEF T
<1> QED
    BY <1>1, <1>3, <1>4, <1>7, <1>8

(* Nothing but a pop puts a prompt in flight.                              *)
LEMMA FlightShrinks ==
    ASSUME TypeOK, Control, [Next]_vars, \A d \in Drainers : ~PopNext(d)
    PROVE  Cardinality(InFlight') \in Nat /\ Cardinality(InFlight') <= Cardinality(InFlight)
<1>1. \A d \in Drainers : held'[d] # NoItem => held'[d] = held[d]
    BY Holding
<1>2. InFlight' \subseteq InFlight
    BY <1>1 DEF InFlight, HeldIds
<1>3. IsFiniteSet(InFlight') /\ Cardinality(InFlight') <= Cardinality(InFlight)
    BY <1>2, FlightBound, FS_Subset
<1> QED
    BY <1>3, FS_CardinalityType

(* The users keep to the limit.                                            *)
LEMMA UsersLength ==
    ASSUME TypeOK, Users
    PROVE  Len(queue') \in Nat /\ (Len(queue') <= Len(queue) \/ Len(queue') <= MaxItems)
<1>1. ASSUME NEW t \in Target, Add(t)
      PROVE  Len(queue') \in Nat /\ Len(queue') <= MaxItems
    <2>1. NewItem(issued + 1, t) \in Item
        BY DEF TypeOK, NewItem, Item, Status
    <2>2. Len(queue') = Len(queue) + 1 /\ Len(queue) \in Nat
        BY <1>1, <2>1, AppendProperties, LenProperties DEF Add, Added, TypeOK
    <2> QED
        BY <1>1, <2>2, QueueOpsAssumption DEF Add, IsFull
<1>2. ASSUME NEW n \in 1 .. Len(queue), RemoveItem(n)
      PROVE  Len(queue') \in Nat /\ Len(queue') <= Len(queue)
    <2>1. Len(queue') = Len(queue) - 1 /\ Len(queue) \in Nat
        BY <1>2, RemoveAtProperties, LenProperties DEF RemoveItem, TypeOK
    <2> QED
        BY <2>1
<1>3. ASSUME NEW n \in 1 .. Len(queue), Unblock(n)
      PROVE  Len(queue') \in Nat /\ Len(queue') <= Len(queue)
    <2>1. Len(queue') = Len(queue) /\ Len(queue) \in Nat
        BY <1>3, LenProperties DEF Unblock, Unblocked, ReplaceAt, TypeOK
    <2> QED
        BY <2>1
<1>4. CASE Clear
    <2>1. Len(queue') = 0 /\ Len(queue) \in Nat
        BY <1>4, LenProperties DEF Clear, TypeOK
    <2> QED
        BY <2>1
<1> QED
    BY <1>1, <1>2, <1>3, <1>4, QueueTypes DEF Users

(* No step makes the queue longer than the server lets it be.              *)
LEMMA CapacityStep == IInv /\ Capacity /\ [Next]_vars => Capacity'
<1> SUFFICES ASSUME IInv, Capacity, [Next]_vars PROVE Capacity'
    OBVIOUS
<1>1. /\ TypeOK /\ Control /\ Books /\ HeldOnce
      /\ InFlight \subseteq Ids
    BY AccountedParts DEF IInv, Books
<1>2. /\ Len(queue) \in Nat /\ MaxItems \in Nat
      /\ IsFiniteSet(InFlight) /\ Cardinality(InFlight) \in Nat /\ Cardinality(Cli) \in Nat
    BY <1>1, FlightBound, LenProperties, QueueOpsAssumption DEF TypeOK
<1>3. Cardinality(InFlight) <= 1 + Cardinality(Cli)
    BY <1>1, FlightBound
<1>4. ASSUME NEW d \in Drainers, PopNext(d)
      PROVE  Capacity'
    <2>1. Len(queue') = Len(queue) - 1
        BY <1>1, <1>4, PopShortens
    <2>2. \E x : held' = [held EXCEPT ![d] = x]
        BY <1>4 DEF PopNext
    <2>3. PICK x : InFlight' \subseteq InFlight \cup {x}
        BY <1>1, <2>2 DEF InFlight, HeldIds, TypeOK
    <2>4. /\ IsFiniteSet(InFlight \cup {x})
          /\ Cardinality(InFlight \cup {x}) \in Nat
          /\ Cardinality(InFlight \cup {x}) <= Cardinality(InFlight) + 1
        BY <1>2, OneMore
    <2>5. /\ IsFiniteSet(InFlight')
          /\ Cardinality(InFlight') <= Cardinality(InFlight \cup {x})
        BY <2>3, <2>4, FS_Subset
    <2>6. Cardinality(InFlight') \in Nat
        BY <2>5, FS_CardinalityType
    <2> QED
        BY <1>2, <2>1, <2>4, <2>5, <2>6 DEF Capacity
<1>5. ASSUME NEW d \in Drainers, MarkBlocked(d)
      PROVE  Capacity'
    <2>1. held[d] # NoItem /\ held[d] \in Item /\ held[d].id \in InFlight
        BY <1>1, <1>5, FlightIds DEF MarkBlocked, Control, TypeOK
    <2>2. Len(queue') = Len(queue) + 1
        BY <1>1, <1>5, <2>1, QueueBack DEF MarkBlocked
    <2>3. InFlight' = InFlight \ {held[d].id}
        BY <1>1, <1>5, <2>1, FlightLands DEF MarkBlocked, Finish
    <2>4. Cardinality(InFlight') = Cardinality(InFlight) - 1
        BY <1>2, <2>1, <2>3, FS_RemoveElement
    <2> QED
        BY <1>2, <2>2, <2>4 DEF Capacity
<1>6. ASSUME \A d \in Drainers : ~PopNext(d), Len(queue') \in Nat,
             Len(queue') <= Len(queue) \/ Len(queue') <= MaxItems
      PROVE  Capacity'
    <2>1. Cardinality(InFlight') \in Nat /\ Cardinality(InFlight') <= Cardinality(InFlight)
        BY <1>1, <1>6, FlightShrinks
    <2> QED
        BY <1>2, <1>3, <1>6, <2>1 DEF Capacity
<1>7. CASE UNCHANGED queue
    BY <1>1, <1>2, <1>6, <1>7, PopShortens
<1>8. CASE Users
    <2>1. UNCHANGED pc
        BY <1>8 DEF Users, Add, RemoveItem, Unblock, Clear, drain
    <2>2. \A d \in Drainers : ~PopNext(d)
        BY <1>1, <2>1 DEF PopNext, Goto, TypeOK, AfterPop
    <2> QED
        BY <1>1, <1>6, <1>8, <2>2, UsersLength
<1> QED
    BY <1>4, <1>5, <1>7, <1>8, Listing

(* The queue outgrows its limit only by what was in flight: one prompt of  *)
(* the server and one of each command-line run.                            *)
THEOREM QueueBounded == Spec => []Capacity
<1>1. Init => Capacity
    <2>1. ASSUME Init PROVE Capacity
        <3>1. InFlight = {} /\ Len(queue) = 0
            BY <2>1 DEF Init, InFlight, HeldIds
        <3>2. Cardinality(InFlight) = 0 /\ Cardinality(Cli) \in Nat
            BY <3>1, FS_EmptySet, FS_CardinalityType, PromptQueueAssumption
        <3> QED
            BY <3>1, <3>2, QueueOpsAssumption DEF Capacity
    <2> QED
        BY <2>1
<1> QED
    BY <1>1, CapacityStep, QueueInvariance, PTL DEF Spec

-----------------------------------------------------------------------------
(* The refinement: every step moves a prompt by one step of its life, or   *)
(* none.                                                                   *)

(* The blocked ones of a list, and what the operations make of them.       *)
LEMMA BlockedIs ==
    ASSUME NEW q \in Seq(Item), NEW i
    PROVE  i \in BlockedIn(q) <=> \E k \in 1 .. Len(q) : q[k].status = "blocked" /\ q[k].id = i
BY LenProperties DEF BlockedIn

(* What is blocked is in the queue, and no two items there share an        *)
(* identity.                                                               *)
LEMMA BlockedQueued ==
    ASSUME NEW q \in Seq(Item)
    PROVE  /\ BlockedIn(q) \subseteq IdsOf(q)
           /\ Distinct(q) => \A k \in 1 .. Len(q) :
                                 q[k].id \in BlockedIn(q) => q[k].status = "blocked"
<1>1. DOMAIN q = 1 .. Len(q)
    BY LenProperties
<1>2. ASSUME NEW i \in BlockedIn(q) PROVE i \in IdsOf(q)
    BY <1>2, BlockedIs, IdsAt
<1>3. ASSUME Distinct(q), NEW k \in 1 .. Len(q), q[k].id \in BlockedIn(q)
      PROVE  q[k].status = "blocked"
    <2>1. PICK l \in 1 .. Len(q) : q[l].status = "blocked" /\ q[l].id = q[k].id
        BY <1>3, BlockedIs
    <2> QED
        BY <1>1, <1>3, <2>1 DEF Distinct
<1> QED
    BY <1>2, <1>3

(* Taking an item out takes it out of the blocked ones, if it was one, and *)
(* no other.                                                               *)
LEMMA BlockedLess ==
    ASSUME NEW q \in Seq(Item), Distinct(q), NEW k \in 1 .. Len(q)
    PROVE  BlockedIn(RemoveAt(q, k)) = BlockedIn(q) \ {q[k].id}
<1> DEFINE r == RemoveAt(q, k)
<1>1. /\ \A i \in 1 .. Len(r) : \E a \in 1 .. Len(q) : a # k /\ r[i] = q[a]
      /\ \A a \in 1 .. Len(q) : a # k => \E i \in 1 .. Len(r) : r[i] = q[a]
    BY RemoveAtItems
<1>2. r \in Seq(Item)
    BY RemoveAtProperties
<1> HIDE DEF r
<1>3. \A a \in 1 .. Len(q) : a # k => q[a].id # q[k].id
    BY LenProperties DEF Distinct
<1>4. ASSUME NEW i \in BlockedIn(r) PROVE i \in BlockedIn(q) \ {q[k].id}
    <2>1. PICK j \in 1 .. Len(r) : r[j].status = "blocked" /\ r[j].id = i
        BY <1>2, <1>4, BlockedIs
    <2>2. PICK a \in 1 .. Len(q) : a # k /\ r[j] = q[a]
        BY <1>1
    <2> QED
        BY <1>3, <2>1, <2>2, BlockedIs
<1>5. ASSUME NEW i \in BlockedIn(q), i # q[k].id PROVE i \in BlockedIn(r)
    <2>1. PICK a \in 1 .. Len(q) : q[a].status = "blocked" /\ q[a].id = i
        BY <1>5, BlockedIs
    <2>2. PICK j \in 1 .. Len(r) : r[j] = q[a]
        BY <1>1, <1>5, <2>1
    <2> QED
        BY <1>2, <2>1, <2>2, BlockedIs
<1> QED
    BY <1>4, <1>5 DEF r

(* A submission is not blocked.                                            *)
LEMMA BlockedSame ==
    ASSUME NEW q \in Seq(Item), NEW x \in Item, x.status # "blocked"
    PROVE  BlockedIn(Append(q, x)) = BlockedIn(q)
<1> DEFINE r == Append(q, x)
<1>1. /\ r \in Seq(Item) /\ Len(r) = Len(q) + 1 /\ Len(q) \in Nat
      /\ \A i \in 1 .. Len(q) : r[i] = q[i]
      /\ r[Len(q) + 1] = x
    BY AppendProperties, LenProperties
<1> HIDE DEF r
<1>2. \A i : i \in BlockedIn(r) <=> i \in BlockedIn(q)
    BY <1>1, BlockedIs
<1> QED
    BY <1>2 DEF r

(* Unblocking an item unblocks that one.                                   *)
LEMMA BlockedFreed ==
    ASSUME NEW q \in Seq(Item), Distinct(q), NEW k \in 1 .. Len(q)
    PROVE  BlockedIn(Unblocked(q, k)) = BlockedIn(q) \ {q[k].id}
<1> DEFINE r == Unblocked(q, k)
           x == [q[k] EXCEPT !.status = "pending"]
<1>1. q[k] \in Item /\ x \in Item /\ x.status = "pending" /\ x.id = q[k].id
    <2>1. q[k] \in Item
        BY ElementOfSeq
    <2> QED
        BY <2>1 DEF Item, Status
<1>2. r = [q EXCEPT ![k] = x]
    BY DEF Unblocked, ReplaceAt
<1> HIDE DEF r, x
<1>3. /\ r \in Seq(Item) /\ Len(r) = Len(q)
      /\ \A i \in 1 .. Len(q) : r[i] = IF i = k THEN x ELSE q[i]
    BY <1>1, <1>2, ExceptSeq, LenProperties
<1>4. \A a \in 1 .. Len(q) : a # k => q[a].id # q[k].id
    BY LenProperties DEF Distinct
<1>5. ASSUME NEW i \in BlockedIn(r) PROVE i \in BlockedIn(q) \ {q[k].id}
    <2>1. PICK j \in 1 .. Len(r) : r[j].status = "blocked" /\ r[j].id = i
        BY <1>3, <1>5, BlockedIs
    <2>2. j # k /\ r[j] = q[j] /\ j \in 1 .. Len(q)
        BY <1>1, <1>3, <2>1
    <2> QED
        BY <1>4, <2>1, <2>2, BlockedIs
<1>6. ASSUME NEW i \in BlockedIn(q), i # q[k].id PROVE i \in BlockedIn(r)
    <2>1. PICK a \in 1 .. Len(q) : q[a].status = "blocked" /\ q[a].id = i
        BY <1>6, BlockedIs
    <2>2. r[a] = q[a] /\ a \in 1 .. Len(r)
        BY <1>3, <1>6, <2>1
    <2> QED
        BY <1>3, <2>1, <2>2, BlockedIs
<1> QED
    BY <1>5, <1>6 DEF r

(* An item put back is blocked, and nothing else changes.                  *)
LEMMA BlockedMore ==
    ASSUME NEW q \in Seq(Item), NEW x \in Item
    PROVE  /\ BlockedIn(Reinsert(q, x)) = BlockedIn(q) \cup {x.id}
           /\ IdsOf(Reinsert(q, x)) = IdsOf(q) \cup {x.id}
<1> DEFINE y == [x EXCEPT !.status = "blocked"]
           r == Reinsert(q, x)
<1>1. y \in Item /\ y.id = x.id /\ y.status = "blocked"
    BY DEF Item, Status
<1>2. PICK k \in 1 .. Len(q) + 1 : r = InsertAt(q, k, y)
    BY ReinsertProperties
<1> HIDE DEF y, r
<1>3. /\ r \in Seq(Item) /\ IdsOf(r) = IdsOf(q) \cup {x.id}
      /\ k \in 1 .. Len(r) /\ r[k] = y
      /\ \A i \in 1 .. Len(r) : i # k => \E a \in 1 .. Len(q) : r[i] = q[a]
      /\ \A a \in 1 .. Len(q) : \E i \in 1 .. Len(r) : r[i] = q[a]
    <2>1. r \in Seq(Item)
        BY <1>1, <1>2, InsertAtProperties
    <2>2. IdsOf(r) = IdsOf(q) \cup {x.id}
        BY <1>1, <1>2, InsertAtIds
    <2>3. /\ k \in 1 .. Len(r) /\ r[k] = y
          /\ \A i \in 1 .. Len(r) : i # k => \E a \in 1 .. Len(q) : r[i] = q[a]
          /\ \A a \in 1 .. Len(q) : \E i \in 1 .. Len(r) : i # k /\ r[i] = q[a]
        <3>1. y \in Item /\ k \in 1 .. Len(q) + 1
            BY <1>1, <1>2
        <3>2. /\ k \in 1 .. Len(InsertAt(q, k, y)) /\ InsertAt(q, k, y)[k] = y
              /\ \A i \in 1 .. Len(InsertAt(q, k, y)) : i # k =>
                    \E a \in 1 .. Len(q) : InsertAt(q, k, y)[i] = q[a]
              /\ \A a \in 1 .. Len(q) :
                    \E i \in 1 .. Len(InsertAt(q, k, y)) : i # k /\ InsertAt(q, k, y)[i] = q[a]
            BY <3>1, InsertAtItems
        <3> QED
            BY <1>2, <3>2
    <2> QED
        BY <2>1, <2>2, <2>3
<1>4. ASSUME NEW i \in BlockedIn(r) PROVE i \in BlockedIn(q) \cup {x.id}
    <2>1. PICK j \in 1 .. Len(r) : r[j].status = "blocked" /\ r[j].id = i
        BY <1>3, <1>4, BlockedIs
    <2>2. CASE j = k
        BY <1>1, <1>3, <2>1, <2>2
    <2>3. CASE j # k
        <3>1. PICK a \in 1 .. Len(q) : r[j] = q[a]
            BY <1>3, <2>3
        <3> QED
            BY <2>1, <3>1, BlockedIs
    <2> QED
        BY <2>2, <2>3
<1>5. ASSUME NEW i \in BlockedIn(q) PROVE i \in BlockedIn(r)
    <2>1. PICK a \in 1 .. Len(q) : q[a].status = "blocked" /\ q[a].id = i
        BY <1>5, BlockedIs
    <2>2. PICK j \in 1 .. Len(r) : r[j] = q[a]
        BY <1>3
    <2> QED
        BY <1>3, <2>1, <2>2, BlockedIs
<1>6. x.id \in BlockedIn(r)
    BY <1>1, <1>3, BlockedIs
<1> QED
    BY <1>3, <1>4, <1>5, <1>6 DEF r

(* What the life needs to know of a state: the invariant, that what a      *)
(* drain sends is screened, and that no more is submitted than can be.     *)
LifeInv == IInv /\ Screened /\ issued <= MaxAdds

(* All of that always holds.                                               *)
LEMMA LifeAlways == Spec => []LifeInv
<1>1. Init => LifeInv
    BY InitIInv, PromptQueueAssumption
       DEF LifeInv, Init, Screened, NoDangerousSent, SentIds
<1>2. LifeInv /\ [Next]_vars => LifeInv'
    <2> SUFFICES ASSUME LifeInv, [Next]_vars PROVE LifeInv'
        OBVIOUS
    <2>1. IInv' /\ Screened'
        BY NextIInv, ScreenedStep DEF LifeInv, IInv
    <2>2. CASE UNCHANGED <<queue, issued, everBlocked>>
        BY <2>1, <2>2 DEF LifeInv
    <2>3. CASE Users
        BY <2>1, <2>3, PromptQueueAssumption
           DEF LifeInv, IInv, TypeOK, Users, Add, RemoveItem, Unblock, Clear
    <2>4. CASE \E d \in Drainers : PopNext(d) \/ MarkBlocked(d)
        BY <2>1, <2>4 DEF LifeInv, PopNext, MarkBlocked
    <2> QED
        BY <2>2, <2>3, <2>4, Listing
<1> QED
    BY <1>1, <1>2, PTL DEF Spec

(* A prompt is in one place only, so where it is can be read off each of   *)
(* the places.                                                             *)
LEMMA PlacesApart ==
    ASSUME LifeInv
    PROVE  /\ Ids \subseteq 1 .. MaxAdds
           /\ BlockedIn(queue) \subseteq IdsOf(queue) /\ IdsOf(queue) \subseteq Ids
           /\ InFlight \subseteq Ids
           /\ \A p \in 1 .. MaxAdds :
                 /\ p \in Ids <=> PlaceOf(p) # "none"
                 /\ PlaceOf(p) = "blocked" <=> p \in BlockedIn(queue)
                 /\ PlaceOf(p) = "pending" <=> p \in IdsOf(queue) \ BlockedIn(queue)
                 /\ PlaceOf(p) = "taken" <=> p \in InFlight
<1>1. TypeOK /\ Books /\ issued <= MaxAdds
    BY AccountedParts DEF LifeInv, IInv
<1>2. BlockedIn(queue) \subseteq IdsOf(queue)
    BY <1>1, BlockedQueued DEF TypeOK
<1>3. Ids \subseteq 1 .. MaxAdds
    BY <1>1, PromptQueueAssumption DEF Ids, TypeOK
<1>4. /\ Ids = IdsOf(queue) \cup InFlight \cup SentIds \cup deleted \cup lost
      /\ IdsOf(queue) \cap InFlight = {}
    BY <1>1 DEF Books
<1> QED
    BY <1>2, <1>3, <1>4 DEF PlaceOf

(* A prompt that alone changes its place moves.                            *)
LEMMA PlaceMoves ==
    ASSUME NEW p \in 1 .. MaxAdds, NEW to,
           \A q \in 1 .. MaxAdds : PlaceOf(q)' = IF q = p THEN to ELSE PlaceOf(q)
    PROVE  Places' = [Places EXCEPT ![p] = to]
BY DEF Places

(* A step that leaves queue, hands and history alone moves no prompt.      *)
LEMMA PlacesRest ==
    ASSUME UNCHANGED <<queue, held, deleted, lost, sent>>
    PROVE  UNCHANGED Life!vars
<1>1. \A q : PlaceOf(q)' = PlaceOf(q)
    BY DEF PlaceOf, InFlight, HeldIds, SentIds
<1> QED
    BY <1>1 DEF Places, Log, Life!vars

(* What was delivered is written behind the rest.                          *)
LEMMA LogGrows ==
    ASSUME TypeOK, NEW d \in Drainers, sent' = Append(sent, Delivery(d))
    PROVE  Log' = Append(Log, held[d].id)
<1>1. /\ DOMAIN sent = 1 .. Len(sent) /\ DOMAIN sent' = 1 .. Len(sent) + 1
      /\ \A k \in 1 .. Len(sent) : sent'[k] = sent[k]
      /\ sent'[Len(sent) + 1].id = held[d].id /\ Len(sent) \in Nat
    BY SentGrows DEF Delivery
<1>2. Log = [k \in 1 .. Len(sent) |-> sent[k].id] /\ Len(Log) = Len(sent)
    BY <1>1 DEF Log
<1>3. Append(Log, held[d].id)
          = [k \in 1 .. Len(sent) + 1 |-> IF k = Len(sent) + 1 THEN held[d].id ELSE Log[k]]
    BY <1>1, <1>2 DEF Append
<1>4. Log' = [k \in 1 .. Len(sent) + 1 |-> sent'[k].id]
    BY <1>1 DEF Log
<1> QED
    BY <1>1, <1>2, <1>3, <1>4

(* What users do to the queue is a step of the life of one prompt, or      *)
(* discards some.                                                          *)
LEMMA UsersLive ==
    ASSUME LifeInv, Users
    PROVE  [Life!Next]_(Life!vars)
<1>1. TypeOK /\ Books /\ Distinct(queue) /\ issued <= MaxAdds
    BY AccountedParts DEF LifeInv, IInv
<1>2. UNCHANGED <<held, sent, lost>> /\ UNCHANGED <<InFlight, SentIds, Log>>
    BY DEF Users, Add, RemoveItem, Unblock, Clear, drain, history, InFlight, HeldIds, SentIds, Log
<1>3. CASE \E t \in Target : Add(t)
    <2> DEFINE p == issued + 1
    <2>1. PICK t \in Target : Add(t)
        BY <1>3
    <2>2. queue' = Append(queue, NewItem(p, t)) /\ deleted' = deleted /\ issued < MaxAdds
        BY <2>1 DEF Add, Added, history
    <2>3. NewItem(p, t) \in Item /\ NewItem(p, t).id = p /\ NewItem(p, t).status = "pending"
        BY <1>1 DEF TypeOK, NewItem, Item, Status
    <2>4. p \in 1 .. MaxAdds /\ p \notin Ids /\ \A q \in 1 .. MaxAdds : q < p => q \in Ids
        BY <1>1, <2>2, PromptQueueAssumption DEF Ids, TypeOK
    <2> HIDE DEF p
    <2>5. IdsOf(queue') = IdsOf(queue) \cup {p} /\ BlockedIn(queue') = BlockedIn(queue)
        BY <1>1, <2>2, <2>3, AppendIds, BlockedSame DEF TypeOK
    <2>6. \A q \in 1 .. MaxAdds : PlaceOf(q)' = IF q = p THEN "pending" ELSE PlaceOf(q)
        BY <1>2, <2>2, <2>4, <2>5, PlacesApart DEF PlaceOf
    <2>7. Places' = [Places EXCEPT ![p] = "pending"]
        BY <2>4, <2>6, PlaceMoves
    <2>8. \A q \in 1 .. MaxAdds : Places[q] # "none" <=> q \in Ids
        BY PlacesApart DEF Places
    <2>9. Life!Submit(p)
        BY <1>2, <2>4, <2>7, <2>8 DEF Life!Submit, Life!Moves
    <2> QED
        BY <2>4, <2>9 DEF Life!Next
<1>4. CASE \E k \in DOMAIN queue : RemoveItem(k)
    <2>1. PICK k \in 1 .. Len(queue) : RemoveItem(k)
        BY <1>1, <1>4, QueueTypes
    <2> DEFINE p == queue[k].id
    <2>2. queue' = RemoveAt(queue, k) /\ deleted' = deleted \cup {p}
        BY <2>1 DEF RemoveItem
    <2>3. IdsOf(queue') = IdsOf(queue) \ {p} /\ BlockedIn(queue') = BlockedIn(queue) \ {p}
        BY <1>1, <2>2, RemoveAtIds, BlockedLess DEF TypeOK
    <2>4. p \in IdsOf(queue)
        BY <1>1, IdsAt DEF TypeOK
    <2> HIDE DEF p
    <2>5. p \in 1 .. MaxAdds /\ p \notin InFlight /\ PlaceOf(p) \in {"pending", "blocked"}
        BY <1>1, <2>4, PlacesApart DEF Books
    <2>6. \A q \in 1 .. MaxAdds : PlaceOf(q)' = IF q = p THEN "deleted" ELSE PlaceOf(q)
        BY <1>2, <2>2, <2>3, <2>5 DEF PlaceOf
    <2>7. Life!Discard(p)
        BY <1>2, <2>5, <2>6, PlaceMoves DEF Life!Discard, Life!Waits, Places
    <2> QED
        BY <2>5, <2>7 DEF Life!Next
<1>5. CASE \E k \in DOMAIN queue : Unblock(k)
    <2>1. PICK k \in 1 .. Len(queue) : Unblock(k)
        BY <1>1, <1>5, QueueTypes
    <2> DEFINE p == queue[k].id
    <2>2. queue' = Unblocked(queue, k) /\ deleted' = deleted /\ queue[k].status = "blocked"
        BY <2>1 DEF Unblock, history
    <2>3. [queue[k] EXCEPT !.status = "pending"].id = queue[k].id
        BY <1>1, QueueTypes DEF Item
    <2>4. IdsOf(queue') = IdsOf(queue) /\ BlockedIn(queue') = BlockedIn(queue) \ {p}
        BY <1>1, <2>2, <2>3, UnblockedIds, BlockedFreed DEF TypeOK
    <2>5. p \in BlockedIn(queue)
        BY <1>1, <2>2, BlockedIs DEF TypeOK
    <2> HIDE DEF p
    <2>6. p \in 1 .. MaxAdds /\ p \in IdsOf(queue) /\ PlaceOf(p) = "blocked"
        BY <2>5, PlacesApart
    <2>7. \A q \in 1 .. MaxAdds : PlaceOf(q)' = IF q = p THEN "pending" ELSE PlaceOf(q)
        BY <1>2, <2>2, <2>4, <2>6 DEF PlaceOf
    <2>8. Life!Unblock(p)
        BY <1>2, <2>6, <2>7, PlaceMoves DEF Life!Unblock, Life!Moves, Places
    <2> QED
        BY <2>6, <2>8 DEF Life!Next
<1>6. CASE Clear
    <2>1. queue' = <<>> /\ deleted' = deleted \cup IdsOf(queue)
        BY <1>6 DEF Clear
    <2>2. IdsOf(queue') = {} /\ BlockedIn(queue') = {}
        BY <2>1 DEF IdsOf, BlockedIn
    <2>3. /\ IdsOf(queue) \subseteq 1 .. MaxAdds /\ IdsOf(queue) \cap InFlight = {}
          /\ BlockedIn(queue) \subseteq IdsOf(queue)
          /\ \A q \in IdsOf(queue) : PlaceOf(q) \in {"pending", "blocked"}
        BY <1>1, PlacesApart DEF Books
    <2>4. \A q \in 1 .. MaxAdds :
              PlaceOf(q)' = IF q \in IdsOf(queue) THEN "deleted" ELSE PlaceOf(q)
        BY <1>2, <2>1, <2>2, <2>3 DEF PlaceOf
    <2>5. \A q \in 1 .. MaxAdds :
              q \in IdsOf(queue) <=> PlaceOf(q) \in {"pending", "blocked"}
        BY <2>3, PlacesApart
    <2>6. Life!DiscardAll
        BY <1>2, <2>4, <2>5 DEF Life!DiscardAll, Life!Waits, Places
    <2> QED
        BY <2>6 DEF Life!Next
<1> QED
    BY <1>3, <1>4, <1>5, <1>6 DEF Users

(* A drain takes a pending prompt.                                         *)
LEMMA PopLives ==
    ASSUME LifeInv, NEW d \in Drainers, PopNext(d)
    PROVE  [Life!Next]_(Life!vars)
<1> DEFINE k == NextIndex(queue, stopped, d = Scheduled)
           p == queue[k].id
<1>1. TypeOK /\ Control /\ Books /\ Distinct(queue) /\ HeldOnce
    BY AccountedParts DEF LifeInv, IInv
<1>2. k \in 1 .. Len(queue) /\ queue[k].status = "pending"
    BY <1>1, NextIndexProperties, LenProperties DEF PopNext, TypeOK, Eligible
<1>3. /\ pc[d] = "pop" /\ held' = [held EXCEPT ![d] = queue[k]]
      /\ queue' = RemoveAt(queue, k) /\ UNCHANGED <<sent, deleted, lost>>
    BY DEF PopNext, history
<1>4. queue[k] \in Item /\ p \in IdsOf(queue) /\ p \notin BlockedIn(queue)
    BY <1>1, <1>2, QueueTypes, IdsAt, BlockedQueued DEF TypeOK
<1>5. IdsOf(queue') = IdsOf(queue) \ {p} /\ BlockedIn(queue') = BlockedIn(queue) \ {p}
    BY <1>1, <1>2, <1>3, RemoveAtIds, BlockedLess DEF TypeOK
<1>6. InFlight' = InFlight \cup {p}
    <2>1. held[d] = NoItem
        BY <1>1, <1>3 DEF Control
    <2>2. p \notin InFlight /\ InFlight \subseteq Ids
        BY <1>1, <1>4 DEF Books
    <2>3. p # 0 /\ queue[k] # NoItem
        BY <1>1, <1>4 DEF Books, Ids, NoItem, NewItem, TypeOK
    <2> HIDE DEF k
    <2> QED
        BY <1>1, <1>3, <1>4, <2>1, <2>2, <2>3, FlightStarts
<1> HIDE DEF k, p
<1>7. p \in 1 .. MaxAdds /\ PlaceOf(p) = "pending" /\ SentIds' = SentIds /\ Log' = Log
    BY <1>3, <1>4, PlacesApart DEF SentIds, Log
<1>8. \A q \in 1 .. MaxAdds : PlaceOf(q)' = IF q = p THEN "taken" ELSE PlaceOf(q)
    BY <1>3, <1>4, <1>5, <1>6, <1>7 DEF PlaceOf
<1>9. Life!Take(p)
    BY <1>7, <1>8, PlaceMoves DEF Life!Take, Life!Moves, Places
<1> QED
    BY <1>7, <1>9 DEF Life!Next

(* It delivers what it took, if that was screened, and is told so or not.  *)
LEMMA SendLives ==
    ASSUME LifeInv, NEW d \in Drainers, SendOk(d) \/ SendLate(d)
    PROVE  [Life!Next]_(Life!vars)
<1> DEFINE p == held[d].id
<1>1. TypeOK /\ Control /\ Books /\ HeldOnce /\ Screened
    BY AccountedParts DEF LifeInv, IInv
<1>2. /\ pc[d] = "send" /\ sent' = Append(sent, Delivery(d))
      /\ UNCHANGED <<queue, deleted, lost>>
    BY DEF SendOk, SendLate, store
<1>3. held[d] # NoItem /\ p \in InFlight /\ p \notin Dangerous
    BY <1>1, <1>2, FlightIds DEF Control, Screened
<1>4. SentIds' = SentIds \cup {p} /\ Log' = Append(Log, p)
    BY <1>1, <1>2, SentGrows, LogGrows
<1>5. /\ p \in 1 .. MaxAdds /\ PlaceOf(p) = "taken" /\ p \notin IdsOf(queue)
      /\ p \notin BlockedIn(queue) /\ p \notin deleted /\ p \notin lost
    BY <1>1, <1>3, PlacesApart DEF Books
<1>6. Life!Typed(p)
    BY <1>3, <1>4 DEF Life!Typed
<1>7. CASE SendOk(d)
    <2>1. InFlight' = InFlight \ {p}
        BY <1>1, <1>3, <1>7, FlightLands DEF SendOk, Finish, Books
    <2> HIDE DEF p
    <2>2. \A q \in 1 .. MaxAdds : PlaceOf(q)' = IF q = p THEN "delivered" ELSE PlaceOf(q)
        BY <1>2, <1>4, <1>5, <2>1 DEF PlaceOf
    <2>3. Life!Deliver(p)
        BY <1>5, <1>6, <2>2, PlaceMoves DEF Life!Deliver, Life!Moves, Places
    <2> QED
        BY <1>5, <2>3 DEF Life!Next
<1>8. CASE SendLate(d)
    <2>1. InFlight' = InFlight
        BY <1>8 DEF SendLate, InFlight, HeldIds
    <2> HIDE DEF p
    <2>2. \A q \in 1 .. MaxAdds : PlaceOf(q)' = PlaceOf(q)
        BY <1>2, <1>3, <1>4, <1>5, <2>1 DEF PlaceOf
    <2>3. Life!DeliverUnnoticed(p)
        BY <1>5, <1>6, <2>2 DEF Life!DeliverUnnoticed, Places
    <2> QED
        BY <1>5, <2>3 DEF Life!Next
<1> QED
    BY <1>7, <1>8

(* What it cannot deliver it puts back as blocked.                         *)
LEMMA MarkLives ==
    ASSUME LifeInv, NEW d \in Drainers, MarkBlocked(d)
    PROVE  [Life!Next]_(Life!vars)
<1> DEFINE p == held[d].id
<1>1. TypeOK /\ Control /\ Books /\ HeldOnce
    BY AccountedParts DEF LifeInv, IInv
<1>2. /\ pc[d] = "mark" /\ queue' = Reinsert(queue, held[d])
      /\ held' = [held EXCEPT ![d] = NoItem] /\ UNCHANGED <<sent, deleted, lost>>
    BY DEF MarkBlocked, Finish
<1>3. held[d] # NoItem /\ p \in InFlight /\ held[d] \in Item
    BY <1>1, <1>2, FlightIds DEF Control, TypeOK
<1>4. InFlight' = InFlight \ {p}
    BY <1>1, <1>2, <1>3, FlightLands DEF Books
<1>5. BlockedIn(queue') = BlockedIn(queue) \cup {p} /\ IdsOf(queue') = IdsOf(queue) \cup {p}
    BY <1>1, <1>2, <1>3, BlockedMore DEF TypeOK
<1> HIDE DEF p
<1>6. p \in 1 .. MaxAdds /\ PlaceOf(p) = "taken" /\ SentIds' = SentIds /\ Log' = Log
    BY <1>2, <1>3, PlacesApart DEF SentIds, Log
<1>7. \A q \in 1 .. MaxAdds : PlaceOf(q)' = IF q = p THEN "blocked" ELSE PlaceOf(q)
    BY <1>2, <1>4, <1>5, <1>6 DEF PlaceOf
<1>8. Life!PutBack(p)
    BY <1>6, <1>7, PlaceMoves DEF Life!PutBack, Life!Moves, Places
<1> QED
    BY <1>6, <1>8 DEF Life!Next

(* A failure loses one prompt at most, and one that was in flight.         *)
LEMMA LossLives ==
    ASSUME LifeInv, NEW H, H = {} \/ \E p \in InFlight : H = {p},
           InFlight' = InFlight \ H, lost' = lost \cup H,
           UNCHANGED <<queue, sent, deleted>>
    PROVE  [Life!Next]_(Life!vars)
<1>1. Books
    BY AccountedParts DEF LifeInv, IInv
<1>2. SentIds' = SentIds /\ Log' = Log
    BY DEF SentIds, Log
<1>3. CASE H = {}
    <2>1. InFlight' = InFlight /\ lost' = lost
        BY <1>3
    <2>2. \A q : PlaceOf(q)' = PlaceOf(q)
        BY <1>2, <2>1 DEF PlaceOf
    <2> QED
        BY <1>2, <2>2 DEF Places, Life!vars
<1>4. CASE \E p \in InFlight : H = {p}
    <2>1. PICK p \in InFlight : H = {p}
        BY <1>4
    <2>2. /\ p \in 1 .. MaxAdds /\ PlaceOf(p) = "taken" /\ p \notin IdsOf(queue)
          /\ p \notin BlockedIn(queue) /\ p \notin deleted
        BY <1>1, PlacesApart DEF Books
    <2>3. InFlight' = InFlight \ {p} /\ lost' = lost \cup {p}
        BY <2>1
    <2>4. \A q \in 1 .. MaxAdds : PlaceOf(q)' = IF q = p THEN "lost" ELSE PlaceOf(q)
        BY <1>2, <2>2, <2>3 DEF PlaceOf
    <2>5. Life!Lose(p)
        BY <1>2, <2>2, <2>4, PlaceMoves DEF Life!Lose, Life!Moves, Places
    <2> QED
        BY <2>2, <2>5 DEF Life!Next
<1> QED
    BY <1>3, <1>4

(* An exception loses what its drain holds.                                *)
LEMMA RaiseLives ==
    ASSUME LifeInv, NEW d \in Drainers, DrainRaises(d)
    PROVE  [Life!Next]_(Life!vars)
<1>1. TypeOK /\ Control /\ Books /\ HeldOnce
    BY AccountedParts DEF LifeInv, IInv
<1>2. /\ pc[d] \in {"send", "mark"} /\ held' = [held EXCEPT ![d] = NoItem]
      /\ lost' = lost \cup {held[d].id} /\ UNCHANGED <<queue, sent, deleted>>
    BY DEF DrainRaises, Finish, store
<1>3. held[d] # NoItem /\ held[d].id \in InFlight
    BY <1>1, <1>2, FlightIds DEF Control
<1>4. InFlight' = InFlight \ {held[d].id}
    BY <1>1, <1>2, <1>3, FlightLands DEF Books
<1> QED
    BY <1>2, <1>3, <1>4, LossLives

(* A restart loses what the one drain of the server holds that is past the *)
(* lock.                                                                   *)
LEMMA RestartLives ==
    ASSUME LifeInv, ServerRestarts
    PROVE  [Life!Next]_(Life!vars)
<1>1. TypeOK /\ Control /\ Books /\ HeldOnce
    BY AccountedParts DEF LifeInv, IInv
<1>2. lost' = lost \cup HeldIds(Server) /\ UNCHANGED <<queue, sent, deleted>>
    BY DEF ServerRestarts, store
<1>3. InFlight' = InFlight \ HeldIds(Server)
    BY <1>1, RestartFlight
<1>4. \A d, e \in Server : held[d] # NoItem /\ held[e] # NoItem => d = e
    <2>1. \A d \in Server : held[d] # NoItem => lockQ[1] = d
        BY <1>1 DEF Control, Inside, Drainers
    <2> QED
        BY <2>1
<1>5. HeldIds(Server) = {} \/ \E p \in InFlight : HeldIds(Server) = {p}
    <2>1. CASE \A d \in Server : held[d] = NoItem
        BY <2>1 DEF HeldIds
    <2>2. CASE \E d \in Server : held[d] # NoItem
        <3>1. PICK d \in Server : held[d] # NoItem
            BY <2>2
        <3>2. HeldIds(Server) = {held[d].id}
            BY <1>4, <3>1 DEF HeldIds
        <3>3. held[d].id \in InFlight
            BY <3>1, FlightIds DEF Drainers
        <3> QED
            BY <3>2, <3>3
    <2> QED
        BY <2>1, <2>2
<1> QED
    BY <1>2, <1>3, <1>5, LossLives

(* A command-line run that dies loses the prompt in its hands, or none.    *)
LEMMA CliLives ==
    ASSUME LifeInv, NEW c \in Cli, CliDies(c)
    PROVE  [Life!Next]_(Life!vars)
<1>1. TypeOK /\ Books /\ HeldOnce
    BY AccountedParts DEF LifeInv, IInv
<1>2. lost' = lost \cup HeldIds({c}) /\ UNCHANGED <<queue, sent, deleted>>
    BY DEF CliDies, store
<1>3. held' = [held EXCEPT ![c] = NoItem] /\ c \in Drainers
    BY DEF CliDies, Finish, Drainers
<1>4. InFlight' = InFlight \ HeldIds({c})
    BY <1>1, <1>3, CliFlight DEF Books
<1>5. HeldIds({c}) = {} \/ \E p \in InFlight : HeldIds({c}) = {p}
    <2>1. HeldIds({c}) = IF held[c] = NoItem THEN {} ELSE {held[c].id}
        BY DEF HeldIds
    <2> QED
        BY <1>3, <2>1, FlightIds
<1> QED
    BY <1>2, <1>4, <1>5, LossLives

(* No step of the others moves a prompt.                                   *)
LEMMA QuietLives ==
    ASSUME LifeInv,
           \/ Triggers \/ GraceEnds \/ UNCHANGED vars
           \/ \E d \in Drainers : Locked(d) \/ PopNone(d) \/ NotSent(d)
    PROVE  UNCHANGED Life!vars
<1>1. TypeOK /\ Control
    BY DEF LifeInv, IInv
<1>2. CASE \E d \in Drainers : PopNone(d)
    <2>1. PICK d \in Drainers : PopNone(d)
        BY <1>2
    <2>2. held[d] = NoItem /\ held \in [Drainers -> Item]
        BY <1>1, <2>1 DEF PopNone, Control, TypeOK
    <2>3. held' = [held EXCEPT ![d] = NoItem]
        BY <2>1 DEF PopNone, Finish
    <2>4. held' = held
        BY <2>2, <2>3
    <2> QED
        BY <2>1, <2>4, PlacesRest DEF PopNone, store, history
<1>3. CASE Triggers \/ GraceEnds \/ UNCHANGED vars \/ \E d \in Drainers : Locked(d) \/ NotSent(d)
    BY <1>3, PlacesRest
       DEF Triggers, GraceEnds, ScheduleDrain, RunNow, RunCli, AskForLock, Locked, NotSent,
           vars, store, drain, history
<1> QED
    BY <1>2, <1>3

(* The queue at work keeps the promise of PromptLife: whatever any number  *)
(* of drains, users, exceptions and restarts do between each other's       *)
(* steps, a prompt goes through its life one promised step at a time.      *)
THEOREM PromiseKept == Spec => LivesAsPromised
<1>1. Init => Life!Init
    <2> SUFFICES ASSUME Init PROVE Life!Init
        OBVIOUS
    <2>1. LifeInv /\ Ids = {}
        BY InitIInv, PromptQueueAssumption
           DEF LifeInv, Init, Screened, NoDangerousSent, SentIds, Ids
    <2>2. \A p \in 1 .. MaxAdds : PlaceOf(p) = "none"
        BY <2>1, PlacesApart
    <2>3. Log = <<>>
        BY DEF Init, Log
    <2> QED
        BY <2>2, <2>3 DEF Life!Init, Places
<1>2. LifeInv /\ [Next]_vars => [Life!Next]_(Life!vars)
    <2> SUFFICES ASSUME LifeInv, [Next]_vars PROVE [Life!Next]_(Life!vars)
        OBVIOUS
    <2>1. ASSUME NEW d \in Drainers, Work(d) PROVE [Life!Next]_(Life!vars)
        BY <2>1, QuietLives, PopLives, SendLives, MarkLives, RaiseLives DEF Work
    <2> QED
        BY <2>1, UsersLive, QuietLives, RestartLives, CliLives DEF Next, Crashes
<1> QED
    BY <1>1, <1>2, LifeAlways, PTL DEF Spec, LivesAsPromised, Life!Spec
=============================================================================
