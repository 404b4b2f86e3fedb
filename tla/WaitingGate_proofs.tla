-------------------------- MODULE WaitingGate_proofs --------------------------
(***************************************************************************)
(* Detection of prompts and the gate that waits for them, for any number   *)
(* of agents, of tmux sessions and of web terminals that show them.        *)
(***************************************************************************)
EXTENDS WaitingGate, TLAPS

-----------------------------------------------------------------------------
(* Entries and tables.                                                     *)

(* A table whose missing entries hold nothing.                             *)
Proper(t) == t \in Table /\ \A x \in Keys : t[x].status = "gone" => t[x] = Gone

(* Setting a status changes nothing else of an entry but its age. *)
LEMMA SetStatusProperties ==
    ASSUME NEW e \in Entry, NEW status \in Statuses
    PROVE  /\ SetStatus(e, status) \in Entry
           /\ SetStatus(e, status).status = status
           /\ SetStatus(e, status).session = e.session
           /\ SetStatus(e, status).old = FALSE
           /\ SetStatus(e, status).status # "gone"
BY DEF SetStatus, Entry, Statuses

(* A missing entry is one without a session. *)
LEMMA GoneProperties ==
    Gone \in Entry /\ Gone.status = "gone" /\ Gone.session = NoTarget /\ Gone.old = FALSE
BY DEF Gone, Entry, Target

(* What the time to live makes of an entry. *)
LEMMA ExpiredProperties ==
    ASSUME NEW e \in Entry, e.status = "gone" => e = Gone
    PROVE  /\ Expired(e) \in Entry
           /\ Expired(e).status = "gone" => Expired(e) = Gone
           /\ Expired(e).status # "waiting"
           /\ Expired(e).status = "gone" => e.status \in {"gone", "idle"}
           /\ Expired(e).status = "working" => e.status = "waiting"
           /\ Expired(e).old => Expired(Expired(e)) = Expired(e)
<1>1. e.status \in {"idle", "working", "waiting", "done", "error", "gone"} /\ e.old \in BOOLEAN
    BY DEF Entry, Statuses
<1>2. "idle" \in Statuses /\ "working" \in Statuses
    BY DEF Statuses
<1>3. CASE e.status \in {"working", "done"}
    <2>1. Expired(e) = SetStatus(e, "idle")
        BY <1>3 DEF Expired
    <2>2. /\ SetStatus(e, "idle") \in Entry /\ SetStatus(e, "idle").status = "idle"
          /\ SetStatus(e, "idle").old = FALSE
        BY <1>2, SetStatusProperties
    <2> QED
        BY <2>1, <2>2
<1>4. CASE e.status = "waiting"
    <2>1. Expired(e) = SetStatus(e, "working")
        BY <1>4 DEF Expired
    <2>2. /\ SetStatus(e, "working") \in Entry /\ SetStatus(e, "working").status = "working"
          /\ SetStatus(e, "working").old = FALSE
        BY <1>2, SetStatusProperties
    <2> QED
        BY <1>4, <2>1, <2>2
<1>5. CASE e.status = "idle"
    <2>1. Expired(e) = Gone
        BY <1>5 DEF Expired
    <2> QED
        BY <1>5, <2>1, GoneProperties
<1>6. CASE e.status \in {"error", "gone"}
    <2>1. Expired(e) = e
        BY <1>6 DEF Expired
    <2> QED
        BY <1>6, <2>1
<1> QED
    BY <1>1, <1>3, <1>4, <1>5, <1>6

(* What a look at the table does to it.                                    *)
LEMMA SweepProperties ==
    ASSUME NEW t, Proper(t)
    PROVE  /\ Proper(Sweep(t))
           /\ Sweep(Sweep(t)) = Sweep(t)
           /\ \A x \in Keys :
                 /\ Sweep(t)[x].status = "waiting" => t[x].status = "waiting"
                 /\ Sweep(t)[x].status = "working" => t[x].status \in {"working", "waiting"}
                 /\ Sweep(t)[x].status = "gone"
                       => t[x].status = "gone" \/ (t[x].old /\ t[x].status = "idle")
<1>1. \A x \in Keys : t[x] \in Entry /\ (t[x].status = "gone" => t[x] = Gone)
    BY DEF Proper, Table
<1>2. ASSUME NEW x \in Keys
      PROVE  /\ Sweep(t)[x] \in Entry
             /\ Sweep(t)[x].status = "gone" => Sweep(t)[x] = Gone
             /\ Sweep(t)[x].status = "waiting" => t[x].status = "waiting"
             /\ Sweep(t)[x].status = "working" => t[x].status \in {"working", "waiting"}
             /\ Sweep(t)[x].status = "gone"
                   => t[x].status = "gone" \/ (t[x].old /\ t[x].status = "idle")
             /\ Sweep(t)[x].old => Expired(Sweep(t)[x]) = Sweep(t)[x]
    <2>1. CASE t[x].old
        <3>1. Sweep(t)[x] = Expired(t[x])
            BY <2>1 DEF Sweep
        <3>2. /\ Expired(t[x]) \in Entry
              /\ Expired(t[x]).status = "gone" => Expired(t[x]) = Gone
              /\ Expired(t[x]).status # "waiting"
              /\ Expired(t[x]).status = "gone" => t[x].status \in {"gone", "idle"}
              /\ Expired(t[x]).status = "working" => t[x].status = "waiting"
              /\ Expired(t[x]).old => Expired(Expired(t[x])) = Expired(t[x])
            BY <1>1, ExpiredProperties
        <3> QED
            BY <2>1, <3>1, <3>2
    <2>2. CASE ~t[x].old
        <3>1. Sweep(t)[x] = t[x]
            BY <2>2 DEF Sweep
        <3> QED
            BY <1>1, <2>2, <3>1
    <2> QED
        BY <2>1, <2>2
<1>3. Sweep(t) \in Table
    BY <1>2 DEF Sweep, Table
<1>4. Sweep(Sweep(t)) = Sweep(t)
    <2>1. \A x \in Keys : Sweep(Sweep(t))[x] = Sweep(t)[x]
        BY <1>2 DEF Sweep
    <2>2. Sweep(t) = [x \in Keys |-> Sweep(t)[x]]
        BY <1>3 DEF Table
    <2>3. Sweep(Sweep(t)) = [x \in Keys |-> Sweep(Sweep(t))[x]]
        BY DEF Sweep
    <2> QED
        BY <2>1, <2>2, <2>3
<1> QED
    BY <1>2, <1>3, <1>4 DEF Proper

(* A table with another entry. *)
LEMMA EntryChanged ==
    ASSUME NEW t, Proper(t), NEW x \in Keys, NEW e \in Entry, e.status # "gone"
    PROVE  /\ Proper([t EXCEPT ![x] = e])
           /\ [t EXCEPT ![x] = e][x] = e
           /\ \A y \in Keys : y # x => [t EXCEPT ![x] = e][y] = t[y]
BY DEF Proper, Table

(* The entry of a key, found or made, and bound to a session. *)
LEMMA EntryOfProperties ==
    ASSUME NEW t, Proper(t), NEW x \in Keys, NEW s \in Target
    PROVE  /\ Bind(EntryOf(t, x), s) \in Entry
           /\ Bind(EntryOf(t, x), s).status # "gone"
           /\ Bind(EntryOf(t, x), s).status = "waiting" => t[x].status = "waiting"
<1>1. t[x] \in Entry
    BY DEF Proper, Table
<1>2. /\ EntryOf(t, x) \in Entry /\ EntryOf(t, x).status # "gone"
      /\ EntryOf(t, x).status = "waiting" => t[x].status = "waiting"
    <2>1. CASE t[x].status = "gone"
        <3>1. EntryOf(t, x) = SetStatus(Gone, "idle")
            BY <2>1 DEF EntryOf
        <3>2. "idle" \in Statuses
            BY DEF Statuses
        <3>3. SetStatus(Gone, "idle") \in Entry /\ SetStatus(Gone, "idle").status = "idle"
            BY <3>2, GoneProperties, SetStatusProperties
        <3> QED
            BY <3>1, <3>3
    <2>2. CASE t[x].status # "gone"
        BY <1>1, <2>2 DEF EntryOf
    <2> QED
        BY <2>1, <2>2
<1> DEFINE e == EntryOf(t, x)
<1> HIDE DEF e
<1>3. /\ Bind(e, s) \in Entry /\ Bind(e, s).status = e.status
    BY <1>2 DEF Bind, Entry, e
<1> QED
    BY <1>2, <1>3 DEF e

(* A hook's event changes one entry, and makes nobody wait.                *)
LEMMA OnEventProperties ==
    ASSUME NEW t, Proper(t), NEW x \in Keys, NEW s \in Target,
           NEW event \in {"pre", "post", "stop"}
    PROVE  /\ Proper(OnEvent(t, x, event, s))
           /\ OnEvent(t, x, event, s)[x].session \in Target
           /\ \A y \in Keys : OnEvent(t, x, event, s)[y].status = "waiting" => t[y].status = "waiting"
<1> DEFINE u == Sweep(t)
           e == Bind(EntryOf(u, x), s)
           r == OnEvent(t, x, event, s)
<1>1. /\ Proper(u)
      /\ \A y \in Keys : u[y].status = "waiting" => t[y].status = "waiting"
    BY SweepProperties
<1>2. r = CASE event = "pre"  -> [u EXCEPT ![x] = SetStatus(e, "working")]
            [] event = "post" -> [u EXCEPT ![x] = e]
            [] event = "stop" -> [u EXCEPT ![x] = SetStatus(e, "done")]
            [] OTHER          -> u
    BY DEF OnEvent
<1> HIDE DEF u, r
<1>3. e \in Entry /\ e.status # "gone" /\ (e.status = "waiting" => u[x].status = "waiting")
    BY <1>1, EntryOfProperties
<1> HIDE DEF e
<1>4. "working" \in Statuses /\ "done" \in Statuses
    BY DEF Statuses
<1>5. \E d \in Entry : /\ r = [u EXCEPT ![x] = d] /\ d.status # "gone"
                       /\ d.status = "waiting" => u[x].status = "waiting"
    <2>1. CASE event = "pre"
        <3>1. r = [u EXCEPT ![x] = SetStatus(e, "working")]
            BY <1>2, <2>1
        <3>2. SetStatus(e, "working") \in Entry /\ SetStatus(e, "working").status = "working"
            BY <1>3, <1>4, SetStatusProperties
        <3> QED
            BY <3>1, <3>2
    <2>2. CASE event = "post"
        <3>1. r = [u EXCEPT ![x] = e]
            BY <1>2, <2>2
        <3> QED
            BY <1>3, <3>1
    <2>3. CASE event = "stop"
        <3>1. r = [u EXCEPT ![x] = SetStatus(e, "done")]
            BY <1>2, <2>3
        <3>2. SetStatus(e, "done") \in Entry /\ SetStatus(e, "done").status = "done"
            BY <1>3, <1>4, SetStatusProperties
        <3> QED
            BY <3>1, <3>2
    <2> QED
        BY <2>1, <2>2, <2>3
<1>6. PICK d \in Entry : /\ r = [u EXCEPT ![x] = d] /\ d.status # "gone"
                         /\ d.status = "waiting" => u[x].status = "waiting"
    BY <1>5
<1>7. Proper(r) /\ r[x] = d /\ \A y \in Keys : y # x => r[y] = u[y]
    <2>1. /\ Proper([u EXCEPT ![x] = d]) /\ [u EXCEPT ![x] = d][x] = d
          /\ \A y \in Keys : y # x => [u EXCEPT ![x] = d][y] = u[y]
        <3>1. d.status # "gone"
            BY <1>6
        <3> QED
            BY ONLY <1>1, <3>1, EntryChanged, d \in Entry, x \in Keys
    <2> QED
        BY <1>6, <2>1
<1>8. r[x].session \in Target
    BY <1>7 DEF Entry
<1>9. ASSUME NEW y \in Keys, r[y].status = "waiting" PROVE t[y].status = "waiting"
    BY <1>1, <1>6, <1>7, <1>9
<1> QED
    BY <1>7, <1>8, <1>9 DEF r

(* A report sets one entry.                                                *)
LEMMA ReportProperties ==
    ASSUME NEW t, Proper(t), NEW x \in Keys, NEW s \in Target, NEW status \in Statuses
    PROVE  Proper(Report(t, x, status, s))
<1> DEFINE u == Sweep(t)
           e == Bind(EntryOf(u, x), s)
           d == SetStatus(e, status)
<1>1. Proper(u)
    BY SweepProperties
<1>2. Report(t, x, status, s) = [u EXCEPT ![x] = d]
    BY DEF Report
<1> HIDE DEF u
<1>3. e \in Entry
    BY <1>1, EntryOfProperties
<1> HIDE DEF e
<1>4. d \in Entry /\ d.status # "gone"
    BY <1>3, SetStatusProperties
<1> HIDE DEF d
<1>5. Proper([u EXCEPT ![x] = d])
    BY <1>1, <1>4, EntryChanged
<1> QED
    BY <1>2, <1>5 DEF u

(* A prompt that comes or goes changes the status of one entry.            *)
LEMMA OnWaitingProperties ==
    ASSUME NEW t, Proper(t), NEW x \in Keys, NEW b \in BOOLEAN
    PROVE  /\ Proper(OnWaiting(t, x, b))
           /\ \A y \in Keys : y # x => OnWaiting(t, x, b)[y] = Sweep(t)[y]
           /\ OnWaiting(t, x, b)[x].session = Sweep(t)[x].session
           /\ b => /\ OnWaiting(t, x, b)[x].status \notin {"gone", "working"}
                   /\ Sweep(t)[x].status \in {"gone", "working"}
                         => OnWaiting(t, x, b)[x].status = "waiting"
                   /\ OnWaiting(t, x, b)[x].status = "waiting"
                         => Sweep(t)[x].status \in {"gone", "working", "waiting"}
           /\ ~b => /\ OnWaiting(t, x, b)[x].status # "waiting"
                    /\ OnWaiting(t, x, b)[x].status = "gone" <=> Sweep(t)[x].status = "gone"
<1> DEFINE u == Sweep(t)
           r == OnWaiting(t, x, b)
<1>1. Proper(u) /\ u[x] \in Entry /\ (u[x].status = "gone" => u[x] = Gone)
    <2>1. Proper(u)
        BY SweepProperties
    <2> HIDE DEF u
    <2> QED
        BY <2>1 DEF Proper, Table
<1>2. r = CASE b /\ u[x].status = "gone"       -> [u EXCEPT ![x] = SetStatus(u[x], "waiting")]
            [] b /\ u[x].status = "working"    -> [u EXCEPT ![x] = SetStatus(u[x], "waiting")]
            [] ~b /\ u[x].status = "waiting"   -> [u EXCEPT ![x] = SetStatus(u[x], "working")]
            [] OTHER                           -> u
    BY DEF OnWaiting
<1> HIDE DEF u, r
<1>3. "working" \in Statuses /\ "waiting" \in Statuses
    BY DEF Statuses
<1>4. /\ SetStatus(u[x], "waiting") \in Entry /\ SetStatus(u[x], "waiting").status = "waiting"
      /\ SetStatus(u[x], "waiting").session = u[x].session
      /\ SetStatus(u[x], "working") \in Entry /\ SetStatus(u[x], "working").status = "working"
      /\ SetStatus(u[x], "working").session = u[x].session
    BY <1>1, <1>3, SetStatusProperties
<1>5. CASE b /\ u[x].status \in {"gone", "working"}
    <2>1. r = [u EXCEPT ![x] = SetStatus(u[x], "waiting")]
        BY <1>2, <1>5
    <2>2. /\ Proper(r) /\ r[x] = SetStatus(u[x], "waiting") /\ \A y \in Keys : y # x => r[y] = u[y]
        <3> DEFINE e == SetStatus(u[x], "waiting")
        <3>1. e \in Entry /\ e.status # "gone"
            BY <1>4
        <3> HIDE DEF e
        <3>2. /\ Proper([u EXCEPT ![x] = e]) /\ [u EXCEPT ![x] = e][x] = e
              /\ \A y \in Keys : y # x => [u EXCEPT ![x] = e][y] = u[y]
            BY <1>1, <3>1, EntryChanged
        <3> QED
            BY <2>1, <3>2 DEF e
    <2> QED
        BY <1>4, <1>5, <2>2 DEF r, u
<1>6. CASE ~b /\ u[x].status = "waiting"
    <2>1. r = [u EXCEPT ![x] = SetStatus(u[x], "working")]
        BY <1>2, <1>6
    <2>2. /\ Proper(r) /\ r[x] = SetStatus(u[x], "working") /\ \A y \in Keys : y # x => r[y] = u[y]
        <3> DEFINE e == SetStatus(u[x], "working")
        <3>1. e \in Entry /\ e.status # "gone"
            BY <1>4
        <3> HIDE DEF e
        <3>2. /\ Proper([u EXCEPT ![x] = e]) /\ [u EXCEPT ![x] = e][x] = e
              /\ \A y \in Keys : y # x => [u EXCEPT ![x] = e][y] = u[y]
            BY <1>1, <3>1, EntryChanged
        <3> QED
            BY <2>1, <3>2 DEF e
    <2> QED
        BY <1>4, <1>6, <2>2 DEF r, u
<1>7. CASE ~(b /\ u[x].status \in {"gone", "working"}) /\ ~(~b /\ u[x].status = "waiting")
    <2>1. r = u
        BY <1>2, <1>7
    <2> QED
        BY <1>1, <1>7, <2>1 DEF r, u
<1> QED
    BY <1>5, <1>6, <1>7

-----------------------------------------------------------------------------
(* The most urgent status.                                                 *)

(* The gate of a session is closed exactly while an entry of it waits.     *)
LEMMA StatusWaiting ==
    ASSUME NEW t, Proper(t), NEW s \in Sessions
    PROVE  StatusForSession(t, s) = "waiting" <=> \E x \in BoundTo(t, s) : t[x].status = "waiting"
<1> DEFINE found == {t[x].status : x \in BoundTo(t, s)}
           rank == {k \in DOMAIN Urgency : Urgency[k] \in found}
           least(k) == \A l \in rank : k <= l
<1>1. s # NoTarget
    BY AgentStatusAssumption
<1>2. StatusForSession(t, s) = IF found = {} THEN "idle" ELSE Urgency[CHOOSE k \in rank : least(k)]
    <2> DEFINE best == Urgency[CHOOSE k \in rank : least(k)]
    <2>1. StatusForSession(t, s) = IF s = NoTarget \/ found = {} THEN "idle" ELSE best
        BY Zenon DEF StatusForSession
    <2> HIDE DEF best, found
    <2>2. StatusForSession(t, s) = IF found = {} THEN "idle" ELSE best
        BY <1>1, <2>1
    <2> QED
        BY <2>2 DEF best
<1>3. DOMAIN Urgency = 1 .. 5
    BY DEF Urgency
<1>4. found \subseteq Statuses
    <2>1. \A x \in BoundTo(t, s) : t[x].status \in Statuses \cup {"gone"} /\ t[x].status # "gone"
        BY DEF BoundTo, Proper, Table, Entry
    <2> QED
        BY <2>1
<1>5. "waiting" \in found <=> \E x \in BoundTo(t, s) : t[x].status = "waiting"
    OBVIOUS
<1> HIDE DEF found
<1>6. CASE found = {}
    BY <1>2, <1>5, <1>6
<1>7. CASE found # {}
    <2>1. rank \subseteq 1 .. 5
        BY <1>3
    <2>2. rank # {}
        <3>1. PICK u \in found : u \in Statuses
            BY <1>4, <1>7
        <3>2. \E k \in 1 .. 5 : Urgency[k] = u
            BY <3>1 DEF Urgency, Statuses
        <3> QED
            BY <1>3, <3>1, <3>2
    <2>3. \A k \in rank : Urgency[k] \in found
        OBVIOUS
    <2>4. "waiting" \in found => 1 \in rank
        BY <1>3 DEF Urgency
    <2> HIDE DEF rank
    <2>5. \E k \in rank : least(k)
        <3>1. CASE 1 \in rank
            BY <2>1, <3>1
        <3>2. CASE 1 \notin rank /\ 2 \in rank
            BY <2>1, <3>2
        <3>3. CASE 1 \notin rank /\ 2 \notin rank /\ 3 \in rank
            BY <2>1, <3>3
        <3>4. CASE 1 \notin rank /\ 2 \notin rank /\ 3 \notin rank /\ 4 \in rank
            BY <2>1, <3>4
        <3>5. CASE 1 \notin rank /\ 2 \notin rank /\ 3 \notin rank /\ 4 \notin rank
            <4>1. \A i \in rank : i = 5
                BY <2>1, <3>5
            <4> QED
                BY <2>2, <4>1
        <3> QED
            BY <3>1, <3>2, <3>3, <3>4, <3>5
    <2> DEFINE k == CHOOSE i \in rank : least(i)
    <2>6. k \in rank /\ least(k)
        <3> HIDE DEF least
        <3> QED
            BY <2>5
    <2>7. StatusForSession(t, s) = Urgency[k]
        BY <1>2, <1>7
    <2> HIDE DEF k
    <2>8. CASE "waiting" \in found
        <3>1. k = 1
            BY <2>1, <2>4, <2>6, <2>8
        <3> QED
            BY <1>5, <2>7, <2>8, <3>1 DEF Urgency
    <2>9. CASE "waiting" \notin found
        BY <1>5, <2>3, <2>6, <2>7, <2>9
    <2> QED
        BY <2>8, <2>9
<1> QED
    BY <1>6, <1>7

-----------------------------------------------------------------------------
(* What a detection does to the table.                                     *)

(* A notification reaches every entry of the terminal's session, and only  *)
(* agents at work, or unknown ones, begin to wait by it.                   *)
LEMMA NotifiedProperties ==
    ASSUME Proper(st), NEW p \in Ptys, NEW b \in BOOLEAN
    PROVE  /\ Proper(Notified(p, b))
           /\ \A x \in Keys : Notified(p, b)[x].status = "waiting"
                                 => Sweep(st)[x].status \in {"gone", "working", "waiting"}
           /\ b => /\ BoundTo(Notified(p, b), TmuxOf[p]) # {}
                   /\ \A x \in BoundTo(Notified(p, b), TmuxOf[p]) : Notified(p, b)[x].status # "working"
           /\ ~b => StatusForSession(Notified(p, b), TmuxOf[p]) # "waiting"
<1> DEFINE t == Sweep(st)
           s == TmuxOf[p]
           targets == BoundTo(t, s)
           u == OnWaiting(t, s, b)
           r == Notified(p, b)
<1>1. Proper(t) /\ Sweep(t) = t
    BY SweepProperties
<1>2. s \in Sessions /\ s \in Keys /\ s \in Target
    BY WaitingGateAssumption DEF Keys, Target
<1>3. r = IF targets # {}
          THEN [x \in Keys |-> IF x \in targets THEN OnWaiting(t, x, b)[x] ELSE t[x]]
          ELSE IF u[s].status = "gone" THEN u ELSE [u EXCEPT ![s].session = s]
    BY Zenon DEF Notified
<1> HIDE DEF t, r, s
(* What on_waiting does to a key, its table being swept. *)
<1>4. ASSUME NEW x \in Keys
      PROVE  /\ Proper(OnWaiting(t, x, b))
             /\ \A y \in Keys : y # x => OnWaiting(t, x, b)[y] = t[y]
             /\ OnWaiting(t, x, b)[x].session = t[x].session
             /\ b => OnWaiting(t, x, b)[x].status \notin {"gone", "working"}
             /\ OnWaiting(t, x, b)[x].status = "waiting" => t[x].status \in {"gone", "working", "waiting"}
             /\ ~b => /\ OnWaiting(t, x, b)[x].status # "waiting"
                      /\ OnWaiting(t, x, b)[x].status = "gone" <=> t[x].status = "gone"
    <2>1. /\ Proper(OnWaiting(t, x, b))
          /\ \A y \in Keys : y # x => OnWaiting(t, x, b)[y] = Sweep(t)[y]
          /\ OnWaiting(t, x, b)[x].session = Sweep(t)[x].session
          /\ b => /\ OnWaiting(t, x, b)[x].status \notin {"gone", "working"}
                  /\ Sweep(t)[x].status \in {"gone", "working"}
                        => OnWaiting(t, x, b)[x].status = "waiting"
                  /\ OnWaiting(t, x, b)[x].status = "waiting"
                        => Sweep(t)[x].status \in {"gone", "working", "waiting"}
          /\ ~b => /\ OnWaiting(t, x, b)[x].status # "waiting"
                   /\ OnWaiting(t, x, b)[x].status = "gone" <=> Sweep(t)[x].status = "gone"
        BY <1>1, OnWaitingProperties
    <2> QED
        BY <1>1, <2>1
<1>5. \A x : x \in targets <=> x \in Keys /\ t[x].status # "gone" /\ t[x].session = s
    BY DEF BoundTo
<1>6. \A x : x \in BoundTo(r, s) <=> x \in Keys /\ r[x].status # "gone" /\ r[x].session = s
    BY DEF BoundTo
<1> HIDE DEF targets, u
<1>7. CASE targets # {}
    <2>1. r = [x \in Keys |-> IF x \in targets THEN OnWaiting(t, x, b)[x] ELSE t[x]]
        BY <1>3, <1>7
    <2>2. ASSUME NEW x \in Keys
          PROVE  /\ r[x] \in Entry /\ (r[x].status = "gone" => r[x] = Gone)
                 /\ r[x].status = "waiting" => t[x].status \in {"gone", "working", "waiting"}
                 /\ x \in targets => /\ b => r[x].status \notin {"gone", "working"}
                                     /\ ~b => r[x].status # "waiting" /\ r[x].status # "gone"
                                     /\ r[x].session = s
                 /\ x \notin targets => r[x] = t[x]
        <3>1. t[x] \in Entry /\ (t[x].status = "gone" => t[x] = Gone)
            BY <1>1 DEF Proper, Table
        <3>2. CASE x \in targets
            <4>1. r[x] = OnWaiting(t, x, b)[x]
                BY <2>1, <3>2
            <4>2. r[x] \in Entry /\ (r[x].status = "gone" => r[x] = Gone)
                BY <1>4, <4>1 DEF Proper, Table
            <4>3. t[x].status # "gone" /\ t[x].session = s
                BY <1>5, <3>2
            <4>4. /\ r[x].status = "waiting" => t[x].status \in {"gone", "working", "waiting"}
                  /\ b => r[x].status \notin {"gone", "working"}
                  /\ ~b => r[x].status # "waiting" /\ (r[x].status = "gone" <=> t[x].status = "gone")
                  /\ r[x].session = t[x].session
                BY <1>4, <4>1
            <4> QED
                BY <3>2, <4>2, <4>3, <4>4
        <3>3. CASE x \notin targets
            <4>1. r[x] = t[x]
                BY <2>1, <3>3
            <4> QED
                BY <3>1, <3>3, <4>1
        <3> QED
            BY <3>2, <3>3
    <2>3. Proper(r)
        <3>1. r \in Table
            BY <2>1, <2>2 DEF Table
        <3> QED
            BY <2>2, <3>1 DEF Proper
    <2>4. BoundTo(r, s) = targets
        <3>1. ASSUME NEW x \in Keys PROVE x \in BoundTo(r, s) <=> x \in targets
            <4>1. CASE x \in targets
                <5>1. r[x].status # "gone" /\ r[x].session = s
                    BY <2>2, <4>1
                <5> QED
                    BY <1>6, <4>1, <5>1
            <4>2. CASE x \notin targets
                <5>1. r[x] = t[x]
                    BY <2>2, <4>2
                <5> QED
                    BY <1>5, <1>6, <4>2, <5>1
            <4> QED
                BY <4>1, <4>2
        <3> QED
            BY <1>5, <1>6, <3>1
    <2>5. b => \A x \in BoundTo(r, s) : r[x].status # "working"
        BY <1>5, <2>2, <2>4
    <2>6. ~b => StatusForSession(r, s) # "waiting"
        <3>1. ~b => \A x \in BoundTo(r, s) : r[x].status # "waiting"
            BY <1>5, <2>2, <2>4
        <3> QED
            BY <1>2, <2>3, <3>1, StatusWaiting
    <2>7. BoundTo(r, s) # {}
        BY <1>7, <2>4
    <2>8. \A x \in Keys : r[x].status = "waiting" => t[x].status \in {"gone", "working", "waiting"}
        BY <2>2
    <2> QED
        BY <2>3, <2>5, <2>6, <2>7, <2>8 DEF r, s, t
<1>8. CASE targets = {}
    <2>1. r = IF u[s].status = "gone" THEN u ELSE [u EXCEPT ![s].session = s]
        BY <1>3, <1>8
    <2>2. /\ Proper(u)
          /\ \A y \in Keys : y # s => u[y] = t[y]
          /\ b => u[s].status \notin {"gone", "working"}
          /\ u[s].status = "waiting" => t[s].status \in {"gone", "working", "waiting"}
          /\ ~b => u[s].status # "waiting"
        BY <1>2, <1>4 DEF u
    <2>3. u[s] \in Entry
        BY <1>2, <2>2 DEF Proper, Table
    <2>4. /\ Proper(r) /\ r[s].status = u[s].status
          /\ r[s].status # "gone" => r[s].session = s
          /\ \A y \in Keys : y # s => r[y] = u[y]
        <3>1. CASE u[s].status = "gone"
            <4>1. r = u
                BY <2>1, <3>1
            <4> QED
                BY <2>2, <3>1, <4>1
        <3>2. CASE u[s].status # "gone"
            <4> DEFINE e == [u[s] EXCEPT !.session = s]
            <4>1. r = [u EXCEPT ![s] = e]
                BY <2>1, <3>2
            <4>2. e \in Entry /\ e.status = u[s].status /\ e.session = s
                BY <1>2, <2>3 DEF Entry
            <4> HIDE DEF e
            <4>3. e.status # "gone"
                BY <3>2, <4>2
            <4>4. /\ Proper([u EXCEPT ![s] = e]) /\ [u EXCEPT ![s] = e][s] = e
                  /\ \A y \in Keys : y # s => [u EXCEPT ![s] = e][y] = u[y]
                BY <1>2, <2>2, <4>2, <4>3, EntryChanged
            <4> QED
                BY <4>1, <4>2, <4>4
        <3> QED
            BY <3>1, <3>2
    <2>5. \A x \in BoundTo(r, s) : x = s
        <3> SUFFICES ASSUME NEW x \in BoundTo(r, s), x # s PROVE FALSE
            OBVIOUS
        <3>1. x \in Keys /\ r[x].status # "gone" /\ r[x].session = s
            BY <1>6
        <3>2. r[x] = t[x]
            BY <2>2, <2>4, <3>1
        <3> QED
            BY <1>5, <1>8, <3>1, <3>2
    <2>6. b => s \in BoundTo(r, s) /\ r[s].status # "working"
        BY <1>2, <1>6, <2>2, <2>4
    <2>7. ~b => StatusForSession(r, s) # "waiting"
        <3>1. ~b => \A x \in BoundTo(r, s) : r[x].status # "waiting"
            BY <2>2, <2>4, <2>5
        <3> QED
            BY <1>2, <2>4, <3>1, StatusWaiting
    <2>8. \A x \in Keys : r[x].status = "waiting" => t[x].status \in {"gone", "working", "waiting"}
        <3>1. ASSUME NEW x \in Keys, x # s PROVE r[x] = t[x]
            BY <2>2, <2>4, <3>1
        <3> QED
            BY <2>2, <2>4, <3>1
    <2>9. b => BoundTo(r, s) # {} /\ \A x \in BoundTo(r, s) : r[x].status # "working"
        BY <2>5, <2>6
    <2> QED
        BY <2>4, <2>7, <2>8, <2>9 DEF r, s, t
<1> QED
    BY <1>7, <1>8

-----------------------------------------------------------------------------
(* Types.                                                                  *)

(* The detector changes its mind about terminal p. *)
Change(p, b) ==
    /\ flagged[p] # b
    /\ flagged' = [flagged EXCEPT ![p] = b] /\ guard' = [guard EXCEPT ![p] = TRUE]
    /\ st' = Notified(p, b)

Terminal(p) == \/ \E chunk \in Chunk : Feed(p, chunk)
               \/ UserInput(p) \/ GuardEnds(p) \/ ClosePty(p)

(* What a step of a terminal does to the table and the detector.           *)
LEMMA TerminalStep ==
    ASSUME NEW p \in Ptys, Terminal(p)
    PROVE  /\ UNCHANGED <<job, reports>>
           /\ \/ \E b \in BOOLEAN : Change(p, b)
              \/ /\ st' = st /\ (flagged' = flagged \/ flagged' = [flagged EXCEPT ![p] = FALSE])
                 /\ \/ flagged' = flagged /\ guard' = guard
                    \/ guard' = [guard EXCEPT ![p] = FALSE]
<1>1. ASSUME NEW b \in BOOLEAN, SetFlag(p, b)
      PROVE  Change(p, b) \/ UNCHANGED <<st, flagged, guard>>
    BY <1>1 DEF SetFlag, Change
<1>2. CASE \E chunk \in Chunk : Feed(p, chunk)
    <2>1. SetFlag(p, FALSE) \/ SetFlag(p, TRUE) \/ UNCHANGED <<st, flagged, guard>>
        BY <1>2 DEF Feed
    <2>2. UNCHANGED <<job, reports>>
        BY <1>2 DEF Feed
    <2> QED
        BY <1>1, <2>1, <2>2
<1>3. CASE UserInput(p)
    <2>1. SetFlag(p, FALSE) /\ UNCHANGED <<job, reports>>
        BY <1>3 DEF UserInput
    <2> QED
        BY <1>1, <2>1
<1>4. CASE GuardEnds(p)
    BY <1>4 DEF GuardEnds
<1>5. CASE ClosePty(p)
    BY <1>5 DEF ClosePty
<1> QED
    BY <1>2, <1>3, <1>4, <1>5 DEF Terminal

JobType == [phase : {"none", "due", "now", "send"}, target : Target,
            stopped : Target, pane : Target, warned : BOOLEAN]

(* What TypeOK says, with the status of the agents as one fact.            *)
LEMMA Typed ==
    TypeOK <=> /\ Proper(st)
               /\ flagged \in [Ptys -> BOOLEAN]
               /\ window \in [Ptys -> SUBSET {"prompt", "busy"}]
               /\ guard \in [Ptys -> BOOLEAN]
               /\ job \in JobType /\ reports \in 0 .. MaxReports
BY DEF TypeOK, Proper, JobType

(* The first state is of its type.                                         *)
LEMMA InitTypes == Init => TypeOK
<1> SUFFICES ASSUME Init PROVE TypeOK
    OBVIOUS
<1>1. Proper(st)
    BY GoneProperties DEF Init, Proper, Table
<1>2. job \in JobType
    BY DEF Init, NoJob, JobType, Target
<1>3. reports \in 0 .. MaxReports
    BY WaitingGateAssumption DEF Init
<1> QED
    BY <1>1, <1>2, <1>3, Typed DEF Init

(* Steps of terminals keep the types. *)
LEMMA TerminalTypes ==
    ASSUME TypeOK, NEW p \in Ptys, Terminal(p)
    PROVE  TypeOK'
<1>1. /\ Proper(st)
      /\ flagged \in [Ptys -> BOOLEAN]
      /\ window \in [Ptys -> SUBSET {"prompt", "busy"}]
      /\ guard \in [Ptys -> BOOLEAN]
      /\ job \in JobType /\ reports \in 0 .. MaxReports
    BY Typed
<1>2. UNCHANGED <<job, reports>>
    BY TerminalStep
<1>3. window' \in [Ptys -> SUBSET {"prompt", "busy"}]
    <2>1. CASE \E chunk \in Chunk : Feed(p, chunk)
        <3>1. PICK chunk \in Chunk, kept \in SUBSET window[p] :
                 window' = [window EXCEPT ![p] = kept \cup ({chunk} \ {"plain"})]
            BY <2>1 DEF Feed
        <3>2. kept \cup ({chunk} \ {"plain"}) \in SUBSET {"prompt", "busy"}
            BY <1>1, <3>1 DEF Chunk
        <3> QED
            BY <1>1, <3>1, <3>2
    <2>2. CASE UserInput(p) \/ ClosePty(p)
        BY <1>1, <2>2 DEF UserInput, ClosePty
    <2>3. CASE GuardEnds(p)
        BY <1>1, <2>3 DEF GuardEnds
    <2> QED
        BY <2>1, <2>2, <2>3 DEF Terminal
<1>4. Proper(st') /\ flagged' \in [Ptys -> BOOLEAN] /\ guard' \in [Ptys -> BOOLEAN]
    <2>1. CASE \E b \in BOOLEAN : Change(p, b)
        <3>1. PICK b \in BOOLEAN : Change(p, b)
            BY <2>1
        <3>2. Proper(Notified(p, b))
            BY <1>1, NotifiedProperties
        <3>3. st' = Notified(p, b)
            BY <3>1 DEF Change
        <3>4. flagged' \in [Ptys -> BOOLEAN] /\ guard' \in [Ptys -> BOOLEAN]
            BY <1>1, <3>1 DEF Change
        <3> QED
            BY <3>2, <3>3, <3>4
    <2>2. CASE ~\E b \in BOOLEAN : Change(p, b)
        <3>1. /\ st' = st /\ (flagged' = flagged \/ flagged' = [flagged EXCEPT ![p] = FALSE])
              /\ guard' = guard \/ guard' = [guard EXCEPT ![p] = FALSE]
            BY <2>2, TerminalStep
        <3> QED
            BY <1>1, <3>1
    <2> QED
        BY <2>1, <2>2
<1> QED
    BY <1>1, <1>2, <1>3, <1>4 DEF TypeOK, Proper, JobType

(* A drain that is due is one. *)
LEMMA JobTypes ==
    ASSUME NEW j \in JobType, NEW s \in Target, NEW w \in BOOLEAN, NEW a \in Target
    PROVE  /\ NoJob \in JobType
           /\ [NoJob EXCEPT !.phase = "due", !.stopped = s] \in JobType
           /\ [NoJob EXCEPT !.phase = "now"] \in JobType
           /\ [j EXCEPT !.phase = "send", !.target = s, !.pane = a, !.warned = w] \in JobType
BY DEF JobType, NoJob, Target

(* Every step leads to a state of its type.                                *)
LEMMA NextTypes == TypeOK /\ [Next]_vars => TypeOK'
<1> SUFFICES ASSUME TypeOK, [Next]_vars PROVE TypeOK'
    OBVIOUS
<1>1. /\ Proper(st)
      /\ flagged \in [Ptys -> BOOLEAN]
      /\ window \in [Ptys -> SUBSET {"prompt", "busy"}]
      /\ guard \in [Ptys -> BOOLEAN]
      /\ job \in JobType /\ reports \in 0 .. MaxReports
    BY Typed
<1>2. \A s \in Target : /\ NoJob \in JobType
                        /\ [NoJob EXCEPT !.phase = "due", !.stopped = s] \in JobType
                        /\ [NoJob EXCEPT !.phase = "now"] \in JobType
    BY <1>1, JobTypes
<1>3. NoTarget \in Target
    BY DEF Target
<1>4. Proper(Sweep(st))
    BY <1>1, SweepProperties
(* The detector stays. *)
<1>5. ASSUME UNCHANGED detector, Proper(st'), job' \in JobType, reports' \in 0 .. MaxReports
      PROVE  TypeOK'
    BY <1>1, <1>5 DEF TypeOK, Proper, JobType, detector
<1>6. ASSUME NEW x \in HookIds, NEW event \in {"pre", "post", "stop"}, NEW s \in Target,
             AgentEvent(x, event, s)
      PROVE  TypeOK'
    <2>1. x \in Keys
        BY DEF Keys
    <2>2. st' = OnEvent(st, x, event, s) /\ UNCHANGED <<detector, reports>>
        BY <1>6 DEF AgentEvent
    <2>3. Proper(OnEvent(st, x, event, s)) /\ OnEvent(st, x, event, s)[x].session \in Target
        BY <1>1, <2>1, OnEventProperties
    <2>4. Proper(st') /\ st'[x].session \in Target
        BY <2>2, <2>3
    <2>5. job' = job \/ \E stopped \in Target : job' = [NoJob EXCEPT !.phase = "due", !.stopped = stopped]
        BY <1>6, <2>4 DEF AgentEvent
    <2>6. job' \in JobType
        BY <1>1, <1>2, <2>5
    <2> QED
        BY <1>1, <1>5, <2>2, <2>4, <2>6
<1>7. ASSUME NEW s \in Sessions, NEW status \in Statuses, AgentReport(s, status)
      PROVE  TypeOK'
    <2>1. s \in Keys /\ s \in Target
        BY DEF Keys, Target
    <2>2. /\ st' = Report(st, s, status, s) /\ UNCHANGED <<detector, job>>
          /\ reports < MaxReports /\ reports' = reports + 1
        BY <1>7 DEF AgentReport
    <2>3. Proper(Report(st, s, status, s))
        BY <1>1, <2>1, ReportProperties
    <2>4. reports' \in 0 .. MaxReports
        BY <1>1, <2>2, WaitingGateAssumption
    <2> QED
        BY <1>1, <1>5, <2>2, <2>3, <2>4
<1>8. ASSUME NEW x \in Keys, TtlPasses(x) PROVE TypeOK'
    <2> DEFINE e == [st[x] EXCEPT !.old = TRUE]
    <2>1. /\ st' = [st EXCEPT ![x] = e] /\ UNCHANGED <<detector, job, reports>>
          /\ st[x].status # "gone"
        BY <1>8 DEF TtlPasses
    <2>2. st[x] \in Entry
        BY <1>1 DEF Proper, Table
    <2>3. e \in Entry /\ e.status # "gone"
        BY <2>1, <2>2 DEF Entry
    <2> HIDE DEF e
    <2>4. Proper([st EXCEPT ![x] = e])
        BY <1>1, <2>3, EntryChanged
    <2> QED
        BY <1>1, <1>5, <2>1, <2>4
<1>9. CASE ReadState
    BY <1>1, <1>4, <1>5, <1>9 DEF ReadState
<1>10. CASE Terminals
    <2>1. PICK p \in Ptys : Terminal(p)
        BY <1>10 DEF Terminals, Terminal
    <2> QED
        BY <2>1, TerminalTypes
<1>11. CASE RunNow
    <2>1. job' = [NoJob EXCEPT !.phase = "now"] /\ UNCHANGED <<st, detector, reports>>
        BY <1>11 DEF RunNow
    <2> QED
        BY <1>1, <1>2, <1>3, <1>5, <2>1
<1>12. CASE GatePasses
    <2>1. st' = st \/ st' = Sweep(st)
        BY <1>12 DEF GatePasses
    <2>2. PICK target \in Poppable : \E pane \in PaneOf(target) :
             job' = [job EXCEPT !.phase = "send", !.target = target, !.pane = pane,
                                !.warned = StatusForSession(st', pane) = "waiting"]
        BY <1>12 DEF GatePasses
    <2> DEFINE w(pane) == StatusForSession(st', pane) = "waiting"
    <2>7. PICK pane \in PaneOf(target) :
             job' = [job EXCEPT !.phase = "send", !.target = target, !.pane = pane,
                                !.warned = w(pane)]
        BY <2>2
    <2>8. w(pane) \in BOOLEAN
        OBVIOUS
    <2> HIDE DEF w
    <2>3. target \in Target
        BY <1>1, <1>3 DEF Poppable, JobType
    <2>4. pane \in Target
        BY <2>3 DEF PaneOf, Target
    <2>5. job' \in JobType
        BY <1>1, <2>3, <2>4, <2>7, <2>8, JobTypes
    <2>6. UNCHANGED <<detector, reports>>
        BY <1>12 DEF GatePasses
    <2> QED
        BY <1>1, <1>4, <1>5, <2>1, <2>5, <2>6
<1>13. CASE EndJob
    <2>1. job' = NoJob /\ (st' = st \/ st' = Sweep(st)) /\ UNCHANGED <<detector, reports>>
        BY <1>13 DEF EndJob
    <2> QED
        BY <1>1, <1>2, <1>3, <1>4, <1>5, <2>1
<1>14. CASE UNCHANGED vars
    BY <1>14 DEF vars, TypeOK
<1> QED
    BY <1>6, <1>7, <1>8, <1>9, <1>10, <1>11, <1>12, <1>13, <1>14 DEF Next, Agents, Drain

(* Whatever agents, terminals and drains do, every variable keeps its      *)
(* type; in particular an entry that expired or was never made is bound to *)
(* no session.                                                             *)
THEOREM TypeCorrect == Spec => []TypeOK
<1>1. Init => TypeOK
    BY InitTypes
<1>2. TypeOK /\ [Next]_vars => TypeOK'
    BY NextTypes
<1> QED
    BY <1>1, <1>2, PTL DEF Spec

-----------------------------------------------------------------------------
(* The gate.                                                               *)

(* A drain passes the gate only if the session it asks about does not wait. *)
LEMMA GateStep == TypeOK /\ GateCoversTarget /\ [Next]_vars => GateCoversTarget'
<1> SUFFICES ASSUME TypeOK, GateCoversTarget, [Next]_vars PROVE GateCoversTarget'
    OBVIOUS
<1>1. CASE GatePasses
    <2>1. PICK target \in Poppable :
             /\ StatusForSession(st', GateSession(target)) # "waiting"
             /\ \E pane \in PaneOf(target) :
                   job' = [job EXCEPT !.phase = "send", !.target = target, !.pane = pane,
                             !.warned = StatusForSession(st', pane) = "waiting"]
        BY <1>1 DEF GatePasses
    <2> DEFINE w(pane) == StatusForSession(st', pane) = "waiting"
    <2>2. PICK pane \in PaneOf(target) :
             job' = [job EXCEPT !.phase = "send", !.target = target, !.pane = pane, !.warned = w(pane)]
        BY <2>1
    <2>3. job \in JobType
        BY Typed
    <2>4. w(pane) => pane # GateSession(target)
        BY <2>1
    <2> HIDE DEF w
    <2>5. job'.target = target /\ job'.pane = pane /\ job'.stopped = job.stopped /\ job'.warned = w(pane)
        BY <2>2, <2>3 DEF JobType
    <2>6. CASE target # NoTarget
        <3>1. pane = target /\ GateSession(target) = target
            BY <2>6 DEF PaneOf, GateSession
        <3>2. ~w(pane)
            BY <2>4, <3>1
        <3> QED
            BY <2>5, <3>2 DEF GateCoversTarget
    <2>7. CASE target = NoTarget
        <3>1. GateSession(target) = job.stopped
            BY <2>7 DEF GateSession
        <3>2. w(pane) => pane # job.stopped
            BY <2>4, <3>1
        <3> QED
            BY <2>5, <2>7, <3>2 DEF GateCoversTarget
    <2> QED
        BY <2>6, <2>7
(* Any other step keeps the drain or leaves it before its gate. *)
<1>2. ASSUME job'.phase # "send" \/ job' = job PROVE GateCoversTarget'
    BY <1>2 DEF GateCoversTarget
<1>3. ASSUME NEW x \in HookIds, NEW event, NEW s, AgentEvent(x, event, s)
      PROVE  job'.phase # "send" \/ job' = job
    <2>1. job' = job \/ \E stopped : job' = [NoJob EXCEPT !.phase = "due", !.stopped = stopped]
        BY <1>3 DEF AgentEvent
    <2> QED
        BY <2>1 DEF NoJob
<1>4. CASE Agents
    <2>1. CASE \E s \in Sessions, status \in Statuses : AgentReport(s, status)
        BY <1>2, <2>1 DEF AgentReport
    <2> QED
        BY <1>2, <1>3, <1>4, <2>1 DEF Agents
<1>5. CASE \E x \in Keys : TtlPasses(x)
    BY <1>2, <1>5 DEF TtlPasses
<1>6. CASE ReadState
    BY <1>2, <1>6 DEF ReadState
<1>7. CASE Terminals
    <2>1. PICK p \in Ptys : Terminal(p)
        BY <1>7 DEF Terminals, Terminal
    <2>2. job' = job
        BY <2>1, TerminalStep
    <2> QED
        BY <1>2, <2>2
<1>8. CASE RunNow \/ EndJob
    <2>1. job'.phase # "send"
        BY <1>8 DEF RunNow, EndJob, NoJob
    <2> QED
        BY <1>2, <2>1
<1>9. CASE UNCHANGED vars
    BY <1>2, <1>9 DEF vars
<1> QED
    BY <1>1, <1>4, <1>5, <1>6, <1>7, <1>8, <1>9 DEF Next, Drain

(* A prompt goes into a pane whose session was known to wait only if it    *)
(* has no target and the pane is not that of the session that stopped.     *)
THEOREM GateCovers == Spec => []GateCoversTarget
<1>1. Init => TypeOK /\ GateCoversTarget
    BY InitTypes DEF Init, NoJob, GateCoversTarget
<1>2. TypeOK /\ GateCoversTarget /\ [Next]_vars => (TypeOK /\ GateCoversTarget)'
    BY NextTypes, GateStep
<1> QED
    BY <1>1, <1>2, PTL DEF Spec

-----------------------------------------------------------------------------
(* Who starts to wait.                                                     *)

WaitStep ==
    \A x \in Keys :
          st[x].status # "waiting" /\ st'[x].status = "waiting"
          => st[x].status \in {"working", "gone"} \/ reports' # reports
             \/ (st[x].old /\ st[x].status = "idle")

(* A look at the table makes nobody wait, nor does what leaves it alone.   *)
LEMMA WaitStepHolds == TypeOK /\ [Next]_vars => [WaitStep]_vars
<1> SUFFICES ASSUME TypeOK, [Next]_vars PROVE WaitStep
    OBVIOUS
<1>1. Proper(st) /\ reports \in 0 .. MaxReports
    BY Typed
<1>2. /\ Proper(Sweep(st))
      /\ \A x \in Keys :
            /\ Sweep(st)[x].status = "waiting" => st[x].status = "waiting"
            /\ Sweep(st)[x].status = "working" => st[x].status \in {"working", "waiting"}
            /\ Sweep(st)[x].status = "gone"
                  => st[x].status = "gone" \/ (st[x].old /\ st[x].status = "idle")
    BY <1>1, SweepProperties
<1>3. ASSUME \A x \in Keys : st'[x].status = "waiting" => st[x].status = "waiting"
      PROVE  WaitStep
    BY <1>3 DEF WaitStep
<1>4. ASSUME st' = st \/ st' = Sweep(st) PROVE WaitStep
    BY <1>2, <1>3, <1>4
<1>5. ASSUME NEW x \in HookIds, NEW event \in {"pre", "post", "stop"}, NEW s \in Target,
             AgentEvent(x, event, s)
      PROVE  WaitStep
    <2>1. x \in Keys /\ st' = OnEvent(st, x, event, s)
        BY <1>5 DEF AgentEvent, Keys
    <2>2. \A y \in Keys : OnEvent(st, x, event, s)[y].status = "waiting" => st[y].status = "waiting"
        BY <1>1, <2>1, OnEventProperties
    <2> QED
        BY <1>3, <2>1, <2>2
<1>6. ASSUME NEW s, NEW status, AgentReport(s, status) PROVE WaitStep
    <2>1. reports' # reports
        BY <1>1, <1>6, WaitingGateAssumption DEF AgentReport
    <2> QED
        BY <2>1 DEF WaitStep
<1>7. ASSUME NEW x \in Keys, TtlPasses(x) PROVE WaitStep
    <2> DEFINE e == [st[x] EXCEPT !.old = TRUE]
    <2>1. st' = [st EXCEPT ![x] = e] /\ st[x].status # "gone"
        BY <1>7 DEF TtlPasses
    <2>2. st[x] \in Entry
        BY <1>1 DEF Proper, Table
    <2>3. e \in Entry /\ e.status = st[x].status
        BY <2>2 DEF Entry
    <2> HIDE DEF e
    <2>4. e.status # "gone"
        BY <2>1, <2>3
    <2>5. [st EXCEPT ![x] = e][x] = e /\ \A y \in Keys : y # x => [st EXCEPT ![x] = e][y] = st[y]
        BY <1>1 DEF Proper, Table
    <2>6. \A y \in Keys : st'[y].status = st[y].status
        BY <2>1, <2>3, <2>5
    <2> QED
        BY <1>3, <2>6
<1>8. CASE ReadState
    BY <1>4, <1>8 DEF ReadState
<1>9. CASE Terminals
    <2>1. PICK p \in Ptys : Terminal(p)
        BY <1>9 DEF Terminals, Terminal
    <2>2. CASE st' = st
        BY <1>4, <2>2
    <2>3. CASE \E b \in BOOLEAN : Change(p, b)
        <3>1. PICK b \in BOOLEAN : Change(p, b)
            BY <2>3
        <3>2. st' = Notified(p, b)
            BY <3>1 DEF Change
        <3>3. \A x \in Keys : Notified(p, b)[x].status = "waiting"
                                 => Sweep(st)[x].status \in {"gone", "working", "waiting"}
            BY <1>1, NotifiedProperties
        <3> QED
            BY <1>2, <3>2, <3>3 DEF WaitStep
    <2> QED
        BY <2>1, <2>2, <2>3, TerminalStep
<1>10. CASE Drain
    <2>1. st' = st \/ st' = Sweep(st)
        BY <1>10 DEF Drain, RunNow, GatePasses, EndJob
    <2> QED
        BY <1>4, <2>1
<1>11. CASE UNCHANGED vars
    BY <1>4, <1>11 DEF vars
<1> QED
    BY <1>5, <1>6, <1>7, <1>8, <1>9, <1>10, <1>11 DEF Next, Agents

(* A prompt noticed late turns no finished or idle agent back into a       *)
(* waiting one: only an agent at work, or one the table does not know (any *)
(* more), starts to wait, unless it says so itself.                        *)
THEOREM OnlyWorkStartsToWait == Spec => OnlyWorkWaits
<1>1. TypeOK /\ [Next]_vars => [WaitStep]_vars
    BY WaitStepHolds
<1>2. [][WaitStep]_vars <=> OnlyWorkWaits
    BY DEF WaitStep, OnlyWorkWaits
<1> QED
    BY <1>1, <1>2, TypeCorrect, PTL DEF Spec

-----------------------------------------------------------------------------
(* What a detection does to the gate.                                      *)

DetectionStep ==
    \A p \in Ptys :
          /\ ~flagged[p] /\ flagged'[p] =>
                \/ StatusForSession(st', TmuxOf[p]) = "waiting"
                \/ /\ BoundTo(st', TmuxOf[p]) # {}
                   /\ \A x \in BoundTo(st', TmuxOf[p]) : st'[x].status # "working"
          /\ flagged[p] /\ ~flagged'[p] /\ guard'[p] =>
                StatusForSession(st', TmuxOf[p]) # "waiting"

(* Every step keeps what DetectionReachesGate says of it.                  *)
LEMMA DetectionStepHolds == TypeOK /\ [Next]_vars => [DetectionStep]_vars
<1> SUFFICES ASSUME TypeOK, [Next]_vars PROVE DetectionStep
    OBVIOUS
<1>1. Proper(st) /\ flagged \in [Ptys -> BOOLEAN] /\ guard \in [Ptys -> BOOLEAN]
    BY Typed
<1>2. CASE flagged' = flagged
    BY <1>2 DEF DetectionStep
<1>3. CASE Terminals
    <2>1. PICK p \in Ptys : Terminal(p)
        BY <1>3 DEF Terminals, Terminal
    <2>2. CASE flagged' = [flagged EXCEPT ![p] = FALSE] /\ guard' = [guard EXCEPT ![p] = FALSE]
        BY <1>1, <2>2 DEF DetectionStep
    <2>3. ASSUME NEW b \in BOOLEAN, Change(p, b) PROVE DetectionStep
        <3>1. /\ st' = Notified(p, b) /\ flagged' = [flagged EXCEPT ![p] = b]
            BY <2>3 DEF Change
        <3>2. /\ b => /\ BoundTo(st', TmuxOf[p]) # {}
                      /\ \A x \in BoundTo(st', TmuxOf[p]) : st'[x].status # "working"
              /\ ~b => StatusForSession(st', TmuxOf[p]) # "waiting"
            BY <1>1, <3>1, NotifiedProperties
        <3>3. flagged'[p] = b /\ \A q \in Ptys : q # p => flagged'[q] = flagged[q]
            BY <1>1, <3>1
        <3>4. ASSUME NEW q \in Ptys
              PROVE  /\ ~flagged[q] /\ flagged'[q] =>
                           \/ StatusForSession(st', TmuxOf[q]) = "waiting"
                           \/ /\ BoundTo(st', TmuxOf[q]) # {}
                              /\ \A x \in BoundTo(st', TmuxOf[q]) : st'[x].status # "working"
                     /\ flagged[q] /\ ~flagged'[q] /\ guard'[q] =>
                           StatusForSession(st', TmuxOf[q]) # "waiting"
            <4>1. CASE q = p
                BY <3>2, <3>3, <4>1
            <4>2. CASE q # p
                BY <3>3, <4>2
            <4> QED
                BY <4>1, <4>2
        <3> QED
            BY <3>4 DEF DetectionStep
    <2> QED
        BY <1>2, <2>1, <2>2, <2>3, TerminalStep
<1>4. CASE Agents \/ (\E x \in Keys : TtlPasses(x)) \/ ReadState \/ Drain
    <2>1. UNCHANGED detector
        BY <1>4 DEF Agents, AgentEvent, AgentReport, TtlPasses, ReadState, Drain, RunNow, GatePasses, EndJob
    <2> QED
        BY <1>2, <2>1 DEF detector
<1>5. CASE UNCHANGED vars
    BY <1>2, <1>5 DEF vars
<1> QED
    BY <1>3, <1>4, <1>5 DEF Next

(* When the detector sees a prompt, the gate of that session closes or     *)
(* none of its agents is at work; when it sees the prompt go, none of them *)
(* is left waiting, however many agents share the session.                 *)
THEOREM DetectionMeetsGate == Spec => DetectionReachesGate
<1>1. TypeOK /\ [Next]_vars => [DetectionStep]_vars
    BY DetectionStepHolds
<1>2. [][DetectionStep]_vars <=> DetectionReachesGate
    BY DEF DetectionStep, DetectionReachesGate
<1> QED
    BY <1>1, <1>2, TypeCorrect, PTL DEF Spec
=============================================================================
