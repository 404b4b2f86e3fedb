------------------------------ MODULE QueueOps ------------------------------
(***************************************************************************)
(* The list kept in ~/.vt/queue.json and the functions of                  *)
(* server/queue_store.py that compute its next value.  Every function of   *)
(* that file reads the whole list, computes a new one and writes it back;  *)
(* these operators are the "computes a new one" part.  QueueStore gives    *)
(* the locking and the file around them, PromptQueue uses them as atomic   *)
(* steps.                                                                  *)
(*                                                                         *)
(* An item is its identity, its target session and its status.  Ids are    *)
(* numbers given in the order of submission (the code draws a fresh uuid   *)
(* and appends at the end), so the order of ids is the order the user      *)
(* submitted the prompts in.  The text of a prompt is not kept.            *)
(***************************************************************************)
EXTENDS Integers, SequencesExt

CONSTANTS Sessions,   \* names of tmux sessions
          NoTarget,   \* "target": None
          MaxItems    \* MAX_ITEMS

ASSUME QueueOpsAssumption ==
    /\ NoTarget \notin Sessions
    /\ MaxItems \in Nat \ {0}

Target == Sessions \cup {NoTarget}
Status == {"pending", "blocked"}
Item   == [id : Nat, target : Target, status : Status]

NewItem(i, t) == [id |-> i, target |-> t, status |-> "pending"]

\* The identities of the items of a list.
IdsOf(q) == {q[k].id : k \in DOMAIN q}

\* No two items of a list have the same identity.
Distinct(q) == \A k, l \in DOMAIN q : q[k].id = q[l].id => k = l

-----------------------------------------------------------------------------
(* Operators named X_... are slips of X: what a mistake in that line would *)
(* make of it.  No specification uses them; a property is checked to fail  *)
(* when one of them takes the place of X.                                  *)

IsFull_OffByOne(q) == Len(q) > MaxItems

(* add: refused when the list is full, never dropped silently. *)
IsFull(q)   == Len(q) >= MaxItems
Added(q, x) == Append(q, x)

Eligible_AnyStatus(x, session, scoped) ==
    scoped => x.target \in {NoTarget, session}

(* pop_next: the first pending item.  An automatic drain is scoped to the  *)
(* session that stopped and passes over the items of the other sessions.   *)
Eligible(x, session, scoped) ==
    /\ x.status = "pending"
    /\ scoped => x.target \in {NoTarget, session}

NextIndex(q, session, scoped) ==
    SelectInSeq(q, LAMBDA x : Eligible(x, session, scoped))

(* remove and unblock look an item up by its id. *)
IndexOf(q, i) == SelectInSeq(q, LAMBDA x : x.id = i)

Unblocked_OtherWord(q, k) == ReplaceAt(q, k, [q[k] EXCEPT !.status = "queued"])

Unblocked(q, k) == ReplaceAt(q, k, [q[k] EXCEPT !.status = "pending"])

Reinsert_IfRoom(q, x) ==
    IF IsFull(q) THEN q
    ELSE InsertAt(q, SelectLastInSeq(q, LAMBDA y : y.status = "blocked") + 1,
                  [x EXCEPT !.status = "blocked"])

(* mark_blocked: right behind the last blocked item, else at the front. *)
Reinsert(q, x) ==
    InsertAt(q, SelectLastInSeq(q, LAMBDA y : y.status = "blocked") + 1,
             [x EXCEPT !.status = "blocked"])

PendingCount(q) == Cardinality({k \in DOMAIN q : q[k].status = "pending"})
=============================================================================
