-------------------------- MODULE PageViews_proofs --------------------------
(***************************************************************************)
(* What holds of the panes, of the dots of the agents and of the log and   *)
(* the tree of the code viewer, for any sessions, panes, tabs, agents,     *)
(* commits and files; and the types of their state.                        *)
(***************************************************************************)
EXTENDS MCPage, SequenceTheorems, FiniteSetTheorems, FunctionTheorems, TLAPS

(* A step of the page is one of the part it is about, which stays.         *)
LEMMA ViewPartSteps ==
    ASSUME [PageNext]_pageVars
    PROVE  /\ part' = part
           /\ part = "layout" => [Layout!LayoutNext]_<<v1, v2, v3, v4, v5, v6, v7, v8, v9>>
           /\ part = "agents" =>
                 [Agents!AgentNext]_<<v1, v2, v3, v4, v5, v6, v7, v8, v9, v10>>
           /\ part = "pane" => [Pane!PaneNext]_<<v1, v2, v3, v4, v5, v6, v7, v8, v9>>
           /\ part = "tree" => [Tree!TreeNext]_<<v1, v2, v3, v4, v5, v6, v7>>
<1>1. CASE UNCHANGED pageVars
    BY <1>1 DEF pageVars
<1>2. CASE PageNext
    BY <1>2 DEF PageNext
<1> QED
    BY <1>1, <1>2

-----------------------------------------------------------------------------
(* The agents: v1 is status, v2 tabOf, v3 panes, v4 front, v5 compact, v6  *)
(* dots, v7 marks, v8 pendingPaint, v9 icon, v10 places.                   *)

(* Where nothing a dot depends on changes, the dots stay right.            *)
LEMMA DotsStay ==
    ASSUME Agents!DotsCurrent, UNCHANGED <<v2, v3, v4, v5, v6>>,
           v8' \/ (~v8 /\ v1' = v1)
    PROVE  Agents!DotsCurrent'
BY DEF Agents!DotsCurrent, Agents!Due, Agents!GetStatus, Agents!OpenTabs, Agents!DrawnOf,
       Agents!LeavesOf

(* The window turns: a pane that is drawn again keeps its dot, and one that*)
(* was not drawn has none.                                                 *)
LEMMA TurnKeepsDots ==
    ASSUME Agents!DotsCurrent, Agents!Turn
    PROVE  Agents!DotsCurrent'
<1> DEFINE drawn == Agents!DrawnOf(v3, v4, v5)
           redrawn == Agents!DrawnOf(v3, v4, ~v5)
<1>1. /\ UNCHANGED <<v1, v2, v3, v4, v8>> /\ v5' = ~v5
      /\ v6' = [x \in AgentTabs \cup AgentPanes |->
                   IF x \in AgentTabs \/ x \in drawn \cap redrawn THEN v6[x] ELSE "idle"]
    BY DEF Agents!Turn, Agents!Rendered
<1>2. redrawn = Agents!DrawnOf(v3', v4', v5')
    BY <1>1
<1>3. Agents!OpenTabs' = Agents!OpenTabs /\ Agents!OpenTabs \subseteq AgentTabs
    BY <1>1 DEF Agents!OpenTabs
<1>4. \A t \in AgentTabs : Agents!GetStatus(t)' = Agents!GetStatus(t)
    BY <1>1 DEF Agents!GetStatus
<1>5. SUFFICES ASSUME ~v8
               PROVE  /\ \A t \in Agents!OpenTabs : v6'[t] = Agents!Due(t)'
                      /\ \A x \in AgentPanes : v6'[x] \in {"idle", Agents!Due(x)'}
    BY <1>1, <1>3 DEF Agents!DotsCurrent
<1>6. /\ \A t \in Agents!OpenTabs : v6[t] = Agents!Due(t)
      /\ \A x \in AgentPanes : v6[x] \in {"idle", Agents!Due(x)}
    BY <1>5 DEF Agents!DotsCurrent
<1>7. \A x \in AgentTabs : Agents!Due(x)' = Agents!Due(x) /\ v6'[x] = v6[x]
    BY <1>1, <1>3, <1>4 DEF Agents!Due
<1>8. ASSUME NEW x \in AgentPanes, x \notin AgentTabs, x \in drawn \cap redrawn
      PROVE  Agents!Due(x)' = Agents!Due(x) /\ v6'[x] = v6[x]
    <2>1. v6'[x] = v6[x]
        BY <1>1, <1>8
    <2>2. Agents!Due(x)' = IF v3[x] \in Agents!OpenTabs THEN Agents!GetStatus(v3[x]) ELSE "idle"
        BY <1>1, <1>2, <1>3, <1>4, <1>8 DEF Agents!Due
    <2>3. Agents!Due(x) = IF v3[x] \in Agents!OpenTabs THEN Agents!GetStatus(v3[x]) ELSE "idle"
        BY <1>8 DEF Agents!Due, drawn
    <2> QED
        BY <2>1, <2>2, <2>3
<1> HIDE DEF drawn, redrawn
<1>9. ASSUME NEW x \in AgentPanes, x \notin AgentTabs, x \notin drawn \cap redrawn
      PROVE  v6'[x] = "idle"
    BY <1>1, <1>9
<1> QED
    BY <1>3, <1>6, <1>7, <1>8, <1>9

(* The frame paints every dot it is due.                                   *)
LEMMA PaintMakesDotsRight ==
    ASSUME Agents!PaintAll
    PROVE  Agents!DotsCurrent'
<1>1. /\ UNCHANGED <<v1, v2, v3, v4, v5>>
      /\ v6' = [x \in AgentTabs \cup AgentPanes |-> Agents!Due(x)]
    BY DEF Agents!PaintAll, Agents!pageVars
<1>2. /\ Agents!OpenTabs' = Agents!OpenTabs /\ Agents!OpenTabs \subseteq AgentTabs
      /\ \A x \in AgentTabs \cup AgentPanes : Agents!Due(x)' = Agents!Due(x)
    BY <1>1 DEF Agents!Due, Agents!OpenTabs, Agents!GetStatus, Agents!DrawnOf,
                Agents!LeavesOf
<1> QED
    BY <1>1, <1>2 DEF Agents!DotsCurrent

(* Every other step leaves what the dots depend on, or asks for a frame.   *)
LEMMA StepsKeepDots ==
    ASSUME Agents!DotsCurrent, [Agents!AgentNext]_<<v1, v2, v3, v4, v5, v6, v7, v8, v9, v10>>
    PROVE  Agents!DotsCurrent'
<1> USE DEF Agents!pageVars, Agents!paintVars
<1>0. ASSUME v8' PROVE Agents!DotsCurrent'
    BY <1>0 DEF Agents!DotsCurrent
<1>s. ASSUME UNCHANGED <<v2, v3, v4, v5, v6>>, v8' \/ (~v8 /\ v1' = v1)
      PROVE  Agents!DotsCurrent'
    BY <1>s, DotsStay
<1>1. CASE UNCHANGED <<v1, v2, v3, v4, v5, v6, v7, v8, v9, v10>>
    BY <1>1, <1>0, <1>s
<1>2. CASE Agents!PaintAll
    BY <1>2, PaintMakesDotsRight
<1>3. CASE Agents!PageSeen
    BY <1>3, <1>0, <1>s DEF Agents!PageSeen
<1>4. ASSUME NEW all, Agents!StatusSync(all) PROVE Agents!DotsCurrent'
    BY <1>4, <1>0, <1>s DEF Agents!StatusSync, Agents!ApplySnapshot, Agents!Notified
<1>5. ASSUME NEW all, NEW active, Agents!Snapshot(all, active) PROVE Agents!DotsCurrent'
    BY <1>5, <1>0, <1>s DEF Agents!Snapshot, Agents!ApplySnapshot, Agents!Notified
<1>6. ASSUME NEW n, NEW s, NEW what, NEW d, Agents!AgentEvent(n, s, what, d)
      PROVE  Agents!DotsCurrent'
    BY <1>6, <1>0, <1>s DEF Agents!AgentEvent, Agents!Notified
<1>7. ASSUME NEW f, Agents!PlacesArrive(f) PROVE Agents!DotsCurrent'
    BY <1>7, <1>0, <1>s DEF Agents!PlacesArrive
<1>8. ASSUME NEW t, \/ Agents!ClickTab(t) \/ Agents!OtherShown(t) \/ Agents!RemoveTab(t)
                    \/ \E n : Agents!NewTab(t, n)
      PROVE  Agents!DotsCurrent'
    BY <1>8, <1>0 DEF Agents!ClickTab, Agents!OtherShown, Agents!ShowTab, Agents!RemoveTab,
                      Agents!NewTab
<1>9. ASSUME NEW ps, NEW f, Agents!Relaid(ps, f) PROVE Agents!DotsCurrent'
    BY <1>9, <1>0 DEF Agents!Relaid, Agents!Scheduled
<1>10. ASSUME NEW p, NEW q, NEW t, Agents!Split(p, q, t) PROVE Agents!DotsCurrent'
    BY <1>10, <1>9 DEF Agents!Split
<1>11. ASSUME NEW p, NEW q, Agents!Unsplit(p, q) PROVE Agents!DotsCurrent'
    BY <1>11, <1>9 DEF Agents!Unsplit
<1>12. ASSUME NEW p, NEW t, Agents!Drop(p, t) PROVE Agents!DotsCurrent'
    BY <1>12, <1>9 DEF Agents!Drop
<1>13. ASSUME NEW p, Agents!Step(p) PROVE Agents!DotsCurrent'
    BY <1>13, <1>9 DEF Agents!Step
<1>14. CASE Agents!Turn
    BY <1>14, TurnKeepsDots
<1> HIDE DEF Agents!pageVars, Agents!paintVars
<1> QED
    BY <1>1, <1>2, <1>3, <1>4, <1>5, <1>6, <1>7, <1>8, <1>10, <1>11, <1>12, <1>13, <1>14
       DEF Agents!AgentNext

(* agent/paint.js:117: once the frame is painted every tab has the dot of  *)
(* its session's status, and no pane the dot of another session, of an     *)
(* older status, or of a session that has left it: DotsCurrent, for any    *)
(* agents, tabs, panes and directories.                                    *)
THEOREM DotsAreCurrent == PageSpec => []DotsCurrent
<1>1. PageInit => DotsCurrent
    <2>1. SUFFICES ASSUME PageInit, part = "agents" PROVE Agents!DotsCurrent
        BY DEF DotsCurrent
    <2>2. Agents!AgentInit
        BY <2>1 DEF PageInit
    <2>3. /\ Agents!OpenTabs = {} /\ \A t \in AgentTabs : v2[t] = Shut
          /\ \A x \in AgentPanes : v6[x] = "idle"
        BY <2>2 DEF Agents!AgentInit, Agents!OpenTabs
    <2> QED
        BY <2>3 DEF Agents!DotsCurrent
<1>2. DotsCurrent /\ [PageNext]_pageVars => DotsCurrent'
    <2>1. SUFFICES ASSUME DotsCurrent, [PageNext]_pageVars, part' = "agents"
                   PROVE  Agents!DotsCurrent'
        BY DEF DotsCurrent
    <2>2. part = "agents" /\ [Agents!AgentNext]_<<v1, v2, v3, v4, v5, v6, v7, v8, v9, v10>>
        BY <2>1, ViewPartSteps
    <2> QED
        BY <2>1, <2>2, StepsKeepDots DEF DotsCurrent
<1> QED
    BY <1>1, <1>2, PTL DEF PageSpec

-----------------------------------------------------------------------------
(* The panes: v1 is tree, v2 activePane, v3 life, v4 activeId, v5 leaving, *)
(* v6 shown, v7 picker, v8 cap, v9 stale.                                  *)

Path == Seq({"a", "b"})

(* The panes' Cardinality is the one the library's theorems are about.     *)
LEMMA SameCardinality == \A S : Layout!Cardinality(S) = Cardinality(S)
BY DEF Layout!Cardinality, Cardinality

(* A path is a prefix of another one if it agrees with its beginning.      *)
LEMMA PrefixAt ==
    ASSUME NEW u \in Path, NEW q \in Path
    PROVE  Layout!IsPrefix(u, q) <=> Len(u) <= Len(q) /\ \A i \in 1..Len(u) : u[i] = q[i]
<1>1. /\ Len(u) \in Nat /\ Len(q) \in Nat
      /\ \A i \in 1..Len(u) : u[i] \in {"a", "b"}
      /\ \A i \in 1..Len(q) : q[i] \in {"a", "b"}
    BY LenProperties, ElementOfSeq DEF Path
<1>2. /\ SubSeq(u, 1, Len(u)) \in Path /\ Len(SubSeq(u, 1, Len(u))) = Len(u)
      /\ \A i \in 1..Len(u) : SubSeq(u, 1, Len(u))[i] = u[i]
    <2>1. 1 \in Int /\ Len(u) \in Int
        BY <1>1
    <2>2. /\ SubSeq(u, 1, Len(u)) \in Path
          /\ Len(SubSeq(u, 1, Len(u))) = IF 1 <= Len(u) THEN Len(u) - 1 + 1 ELSE 0
          /\ \A i \in 1..(Len(u) - 1 + 1) : SubSeq(u, 1, Len(u))[i] = u[1 + i - 1]
        BY <1>1, <2>1, SubSeqProperties DEF Path
    <2> QED
        BY <1>1, <2>2
<1>3. ASSUME Len(u) <= Len(q)
      PROVE  /\ SubSeq(q, 1, Len(u)) \in Path /\ Len(SubSeq(q, 1, Len(u))) = Len(u)
             /\ \A i \in 1..Len(u) : SubSeq(q, 1, Len(u))[i] = q[i]
    <2>1. 1 \in Int /\ Len(u) \in Int /\ \A i \in 1..Len(u) : q[i] \in {"a", "b"}
        BY <1>1, <1>3
    <2>2. /\ SubSeq(q, 1, Len(u)) \in Path
          /\ Len(SubSeq(q, 1, Len(u))) = IF 1 <= Len(u) THEN Len(u) - 1 + 1 ELSE 0
          /\ \A i \in 1..(Len(u) - 1 + 1) : SubSeq(q, 1, Len(u))[i] = q[1 + i - 1]
        BY <2>1, SubSeqProperties DEF Path
    <2> QED
        BY <1>1, <2>2
<1>4. ASSUME Len(u) <= Len(q), \A i \in 1..Len(u) : u[i] = q[i]
      PROVE  SubSeq(u, 1, Len(u)) = SubSeq(q, 1, Len(u))
    BY <1>1, <1>2, <1>3, <1>4, SeqEqual DEF Path
<1> QED
    BY <1>2, <1>3, <1>4 DEF Layout!IsPrefix

(* What follows a prefix of a path, moved below another path.              *)
Moved(u, f, r) == u \o SubSeq(r, Len(f) + 1, Len(r))

(* Moving puts the new beginning in the old one's place and keeps the      *)
(* rest.                                                                   *)
LEMMA MovedAt ==
    ASSUME NEW u \in Path, NEW f \in Path, NEW r \in Path, Layout!IsPrefix(f, r)
    PROVE  LET m == Moved(u, f, r) IN
           /\ m \in Path /\ Len(m) = Len(u) + Len(r) - Len(f)
           /\ \A i \in 1..Len(u) : m[i] = u[i]
           /\ \A i \in (Len(u) + 1)..Len(m) : m[i] = r[i - Len(u) + Len(f)]
           /\ Layout!IsPrefix(u, m)
<1> DEFINE w == SubSeq(r, Len(f) + 1, Len(r))
           m == Moved(u, f, r)
<1>1. /\ Len(u) \in Nat /\ Len(f) \in Nat /\ Len(r) \in Nat /\ Len(f) <= Len(r)
      /\ \A i \in 1..Len(r) : r[i] \in {"a", "b"}
    BY LenProperties, ElementOfSeq, PrefixAt DEF Path
<1>2. /\ Len(f) + 1 \in Int /\ Len(r) \in Int
      /\ \A i \in (Len(f) + 1)..Len(r) : r[i] \in {"a", "b"}
    BY <1>1
<1>3. /\ w \in Path
      /\ Len(w) = IF Len(f) + 1 <= Len(r) THEN Len(r) - (Len(f) + 1) + 1 ELSE 0
      /\ \A i \in 1..(Len(r) - (Len(f) + 1) + 1) : w[i] = r[(Len(f) + 1) + i - 1]
    BY <1>2, SubSeqProperties DEF Path
<1>4. Len(w) = Len(r) - Len(f) /\ \A i \in 1..Len(w) : w[i] = r[Len(f) + i]
    BY <1>1, <1>3
<1> HIDE DEF w
<1>5. /\ m \in Path /\ Len(m) = Len(u) + Len(w)
      /\ \A i \in 1..(Len(u) + Len(w)) : m[i] = IF i <= Len(u) THEN u[i] ELSE w[i - Len(u)]
    <2>1. m = u \o w
        BY DEF w, Moved
    <2>2. /\ u \o w \in Path /\ Len(u \o w) = Len(u) + Len(w)
          /\ \A i \in 1..(Len(u) + Len(w)) :
                (u \o w)[i] = IF i <= Len(u) THEN u[i] ELSE w[i - Len(u)]
        BY <1>3, ConcatProperties DEF Path
    <2> QED
        BY <2>1, <2>2
<1> HIDE DEF m
<1>6. Len(m) = Len(u) + Len(r) - Len(f) /\ Len(m) \in Nat
    BY <1>1, <1>4, <1>5
<1>7. \A i \in 1..Len(u) : m[i] = u[i]
    BY <1>1, <1>4, <1>5, <1>6
<1>8. \A i \in (Len(u) + 1)..Len(m) : m[i] = r[i - Len(u) + Len(f)]
    <2> SUFFICES ASSUME NEW i \in (Len(u) + 1)..Len(m) PROVE m[i] = r[i - Len(u) + Len(f)]
        OBVIOUS
    <2>1. i \in 1..(Len(u) + Len(w)) /\ ~(i <= Len(u)) /\ i - Len(u) \in 1..Len(w)
        BY <1>1, <1>4, <1>5, <1>6
    <2>2. i - Len(u) + Len(f) = Len(f) + (i - Len(u))
        BY <1>1, <2>1
    <2>3. m[i] = w[i - Len(u)] /\ w[i - Len(u)] = r[Len(f) + (i - Len(u))]
        BY <1>4, <1>5, <2>1
    <2> QED
        BY <2>2, <2>3
<1>9. Layout!IsPrefix(u, m)
    <2>1. Len(u) <= Len(m) /\ \A i \in 1..Len(u) : u[i] = m[i]
        BY <1>1, <1>6, <1>7
    <2> QED
        BY <1>5, <2>1, PrefixAt
<1> QED
    BY <1>5, <1>6, <1>7, <1>8, <1>9 DEF m

(* The same, as one fact about the moved path.                             *)
IsMoved(u, f, r, m) ==
    /\ m \in Path /\ Len(m) = Len(u) + Len(r) - Len(f)
    /\ \A i \in 1..Len(u) : m[i] = u[i]
    /\ \A i \in (Len(u) + 1)..Len(m) : m[i] = r[i - Len(u) + Len(f)]
    /\ Layout!IsPrefix(u, m)

(* Moved does what its description says.                                   *)
LEMMA MovedIs ==
    ASSUME NEW u \in Path, NEW f \in Path, NEW r \in Path, Layout!IsPrefix(f, r)
    PROVE  IsMoved(u, f, r, Moved(u, f, r))
BY MovedAt DEF IsMoved

(* Moved back, it is where it was.                                         *)
LEMMA MovedBack ==
    ASSUME NEW u \in Path, NEW f \in Path, NEW r \in Path, Layout!IsPrefix(f, r)
    PROVE  Moved(f, u, Moved(u, f, r)) = r
<1> DEFINE m == Moved(u, f, r)
           b == Moved(f, u, m)
<1>0. /\ Len(u) \in Nat /\ Len(f) \in Nat /\ Len(r) \in Nat /\ Len(f) <= Len(r)
      /\ \A i \in 1..Len(f) : f[i] = r[i]
    BY LenProperties, PrefixAt DEF Path
<1>1. /\ m \in Path /\ Len(m) = Len(u) + Len(r) - Len(f)
      /\ \A i \in (Len(u) + 1)..Len(m) : m[i] = r[i - Len(u) + Len(f)]
      /\ Layout!IsPrefix(u, m)
    BY MovedAt
<1> HIDE DEF m
<1>2. /\ b \in Path /\ Len(b) = Len(f) + Len(m) - Len(u)
      /\ \A i \in 1..Len(f) : b[i] = f[i]
      /\ \A i \in (Len(f) + 1)..Len(b) : b[i] = m[i - Len(f) + Len(u)]
    <2>1. IsMoved(f, u, m, b)
        BY <1>1, MovedIs
    <2> QED
        BY <2>1 DEF IsMoved
<1> HIDE DEF b
<1>3. Len(b) = Len(r)
    BY <1>0, <1>1, <1>2
<1>4. \A i \in 1..Len(b) : b[i] = r[i]
    <2> SUFFICES ASSUME NEW i \in 1..Len(b) PROVE b[i] = r[i]
        OBVIOUS
    <2>1. CASE i <= Len(f)
        BY <1>0, <1>2, <1>3, <2>1
    <2>2. CASE i > Len(f)
        <3>1. i - Len(f) + Len(u) \in (Len(u) + 1)..Len(m) /\ i \in (Len(f) + 1)..Len(b)
            BY <1>0, <1>1, <1>3, <2>2
        <3>2. b[i] = m[i - Len(f) + Len(u)]
            BY <1>2, <3>1
        <3>3. m[i - Len(f) + Len(u)] = r[(i - Len(f) + Len(u)) - Len(u) + Len(f)]
            BY <1>1, <3>1
        <3>4. (i - Len(f) + Len(u)) - Len(u) + Len(f) = i
            BY <1>0, <1>3
        <3> QED
            BY <3>2, <3>3, <3>4
    <2> QED
        BY <1>0, <1>3, <2>1, <2>2
<1>5. b = r
    BY <1>2, <1>3, <1>4, SeqEqual DEF Path
<1> QED
    BY <1>5 DEF b, m

(* The path of a pane's sibling, and of their parent.                      *)
LEMMA SiblingAt ==
    ASSUME NEW p \in Path, p # <<>>
    PROVE  /\ Len(p) \in Nat \ {0}
           /\ Layout!Front(p) \in Path /\ Len(Layout!Front(p)) = Len(p) - 1
           /\ \A i \in 1..(Len(p) - 1) : Layout!Front(p)[i] = p[i]
           /\ Layout!Sibling(p) \in Path /\ Len(Layout!Sibling(p)) = Len(p)
           /\ \A i \in 1..(Len(p) - 1) : Layout!Sibling(p)[i] = p[i]
           /\ p[Len(p)] \in {"a", "b"} /\ Layout!Sibling(p)[Len(p)] = Layout!Other(p[Len(p)])
           /\ Layout!IsPrefix(Layout!Front(p), Layout!Sibling(p))
           /\ Layout!IsPrefix(Layout!Front(p), p)
<1> DEFINE up == Layout!Front(p)
<1>1. Len(p) \in Nat \ {0} /\ \A i \in 1..Len(p) : p[i] \in {"a", "b"}
    BY EmptySeq, ElementOfSeq DEF Path
<1>2. /\ 1 \in Int /\ Len(p) - 1 \in Int
      /\ \A i \in 1..(Len(p) - 1) : p[i] \in {"a", "b"}
    BY <1>1
<1>3. /\ up \in Path /\ Len(up) = IF 1 <= Len(p) - 1 THEN Len(p) - 1 - 1 + 1 ELSE 0
      /\ \A i \in 1..(Len(p) - 1 - 1 + 1) : up[i] = p[1 + i - 1]
    BY <1>2, SubSeqProperties DEF Path, Layout!Front
<1> HIDE DEF up
<1>4. Len(up) = Len(p) - 1 /\ \A i \in 1..(Len(p) - 1) : up[i] = p[i]
    <2> DEFINE n == Len(p)
    <2>0. n \in Nat \ {0} /\ Len(up) = IF 1 <= n - 1 THEN n - 1 - 1 + 1 ELSE 0
        BY <1>1, <1>3
    <2> HIDE DEF n
    <2>1. Len(up) = n - 1
        BY <2>0
    <2> USE DEF n
    <2>2. \A i \in 1..(Len(p) - 1) : i \in 1..(Len(p) - 1 - 1 + 1) /\ 1 + i - 1 = i
        BY <1>1
    <2>3. \A i \in 1..(Len(p) - 1) : up[i] = p[i]
        BY <1>3, <2>2
    <2> QED
        BY <2>1, <2>3
<1>5. p[Len(p)] \in {"a", "b"} /\ Layout!Other(p[Len(p)]) \in {"a", "b"}
    BY <1>1 DEF Layout!Other
<1>6. Layout!Sibling(p) = Append(up, Layout!Other(p[Len(p)]))
    BY DEF Layout!Sibling, Layout!Last, up
<1>7. /\ Layout!Sibling(p) \in Path /\ Len(Layout!Sibling(p)) = Len(up) + 1
      /\ \A i \in 1..Len(up) : Layout!Sibling(p)[i] = up[i]
      /\ Layout!Sibling(p)[Len(up) + 1] = Layout!Other(p[Len(p)])
    BY <1>3, <1>5, <1>6, AppendProperties DEF Path
<1>8. /\ Len(Layout!Sibling(p)) = Len(p) /\ Layout!Sibling(p)[Len(p)] = Layout!Other(p[Len(p)])
      /\ \A i \in 1..(Len(p) - 1) : Layout!Sibling(p)[i] = p[i]
    BY <1>1, <1>4, <1>7
<1>9. Layout!IsPrefix(up, Layout!Sibling(p))
    BY <1>1, <1>3, <1>4, <1>7, PrefixAt
<1>10. Layout!IsPrefix(up, p)
    BY <1>1, <1>3, <1>4, PrefixAt
<1> QED
    BY <1>1, <1>3, <1>4, <1>5, <1>7, <1>8, <1>9, <1>10 DEF up

(* Prefixes of one path are prefixes of each other, and so on.             *)
LEMMA PrefixOrder ==
    ASSUME NEW u \in Path, NEW v \in Path, NEW w \in Path
    PROVE  /\ Layout!IsPrefix(u, u)
           /\ Layout!IsPrefix(u, v) /\ Layout!IsPrefix(v, w) => Layout!IsPrefix(u, w)
           /\ Layout!IsPrefix(u, w) /\ Layout!IsPrefix(v, w) /\ Len(u) <= Len(v)
                => Layout!IsPrefix(u, v)
           /\ Layout!IsPrefix(u, v) /\ Len(v) <= Len(u) => u = v
<1>1. Len(u) \in Nat /\ Len(v) \in Nat /\ Len(w) \in Nat
    BY LenProperties DEF Path
<1>2. Layout!IsPrefix(u, u)
    BY <1>1, PrefixAt
<1>3. ASSUME Layout!IsPrefix(u, v), Layout!IsPrefix(v, w) PROVE Layout!IsPrefix(u, w)
    <2>1. Len(u) <= Len(v) /\ \A i \in 1..Len(u) : u[i] = v[i]
        BY <1>3, PrefixAt
    <2>2. Len(v) <= Len(w) /\ \A i \in 1..Len(v) : v[i] = w[i]
        BY <1>3, PrefixAt
    <2>3. Len(u) <= Len(w) /\ \A i \in 1..Len(u) : u[i] = w[i]
        BY <1>1, <2>1, <2>2
    <2> QED
        BY <2>3, PrefixAt
<1>4. ASSUME Layout!IsPrefix(u, w), Layout!IsPrefix(v, w), Len(u) <= Len(v)
      PROVE  Layout!IsPrefix(u, v)
    <2>1. \A i \in 1..Len(u) : u[i] = w[i]
        BY <1>4, PrefixAt
    <2>2. \A i \in 1..Len(v) : v[i] = w[i]
        BY <1>4, PrefixAt
    <2>3. \A i \in 1..Len(u) : u[i] = v[i]
        BY <1>1, <1>4, <2>1, <2>2
    <2> QED
        BY <1>4, <2>3, PrefixAt
<1>5. ASSUME Layout!IsPrefix(u, v), Len(v) <= Len(u) PROVE u = v
    <2>1. Len(u) <= Len(v) /\ \A i \in 1..Len(u) : u[i] = v[i]
        BY <1>5, PrefixAt
    <2>2. Len(u) = Len(v)
        BY <1>1, <1>5, <2>1
    <2> QED
        BY <2>1, <2>2, SeqEqual DEF Path
<1> QED
    BY <1>2, <1>3, <1>4, <1>5

(* The paths one step below a path.                                        *)
LEMMA ChildAt ==
    ASSUME NEW p \in Path, NEW x \in {"a", "b"}
    PROVE  /\ Append(p, x) \in Path /\ Len(Append(p, x)) = Len(p) + 1 /\ Append(p, x) # p
           /\ \A i \in 1..Len(p) : Append(p, x)[i] = p[i]
           /\ Append(p, x)[Len(p) + 1] = x
           /\ Layout!IsPrefix(p, Append(p, x))
           /\ \A u \in Path : Layout!IsPrefix(u, Append(p, x)) <=>
                                  Layout!IsPrefix(u, p) \/ u = Append(p, x)
<1> DEFINE c == Append(p, x)
<1>0. Len(p) \in Nat
    BY LenProperties DEF Path
<1>1. /\ c \in Path /\ Len(c) = Len(p) + 1
      /\ \A i \in 1..Len(p) : c[i] = p[i]
      /\ c[Len(p) + 1] = x
    BY AppendProperties DEF Path
<1> HIDE DEF c
<1>2. Layout!IsPrefix(p, c)
    <2>1. Len(p) <= Len(c) /\ \A i \in 1..Len(p) : p[i] = c[i]
        BY <1>0, <1>1
    <2> QED
        BY <1>1, <2>1, PrefixAt
<1>3. ASSUME NEW u \in Path
      PROVE  Layout!IsPrefix(u, c) <=> Layout!IsPrefix(u, p) \/ u = c
    <2>1. ASSUME Layout!IsPrefix(u, p) \/ u = c PROVE Layout!IsPrefix(u, c)
        BY <1>1, <1>2, <2>1, PrefixOrder
    <2>2. ASSUME Layout!IsPrefix(u, c) PROVE Layout!IsPrefix(u, p) \/ u = c
        <3>1. Len(u) \in Nat /\ Len(u) <= Len(c)
            BY <1>1, <2>2, LenProperties, PrefixAt DEF Path
        <3>2. CASE Len(u) <= Len(p)
            BY <1>1, <1>2, <2>2, <3>2, PrefixOrder
        <3>3. CASE Len(c) <= Len(u)
            BY <1>1, <2>2, <3>3, PrefixOrder
        <3> QED
            BY <1>0, <1>1, <3>1, <3>2, <3>3
    <2> QED
        BY <2>1, <2>2
<1>4. c # p
    BY <1>0, <1>1
<1> QED
    BY <1>1, <1>2, <1>3, <1>4 DEF c

(* Moving paths keeps their order and their steps.                         *)
LEMMA MovedBelow ==
    ASSUME NEW u \in Path, NEW f \in Path, NEW r \in Path, Layout!IsPrefix(f, r)
    PROVE  /\ Moved(u, f, f) = u
           /\ \A x \in {"a", "b"} : Append(Moved(u, f, r), x) = Moved(u, f, Append(r, x))
           /\ \A v \in Path : Layout!IsPrefix(u, v) /\ Layout!IsPrefix(v, Moved(u, f, r))
                                  => Layout!IsPrefix(Moved(f, u, v), r)
<1> DEFINE m == Moved(u, f, r)
<1>0. /\ Len(u) \in Nat /\ Len(f) \in Nat /\ Len(r) \in Nat /\ Len(f) <= Len(r)
      /\ \A i \in 1..Len(f) : f[i] = r[i]
    BY LenProperties, PrefixAt DEF Path
<1>m. /\ m \in Path /\ Len(m) = Len(u) + Len(r) - Len(f)
      /\ \A i \in 1..Len(u) : m[i] = u[i]
      /\ \A i \in (Len(u) + 1)..Len(m) : m[i] = r[i - Len(u) + Len(f)]
      /\ Layout!IsPrefix(u, m)
    BY MovedAt
<1>1. Moved(u, f, f) = u
    <2>1. Layout!IsPrefix(f, f)
        BY PrefixOrder
    <2>2. /\ Moved(u, f, f) \in Path /\ Len(Moved(u, f, f)) = Len(u) + Len(f) - Len(f)
          /\ Layout!IsPrefix(u, Moved(u, f, f))
        BY <2>1, MovedAt
    <2>3. Len(Moved(u, f, f)) <= Len(u)
        BY <1>0, <2>2
    <2> QED
        BY <2>2, <2>3, PrefixOrder
<1> HIDE DEF m
<1>2. ASSUME NEW x \in {"a", "b"} PROVE Append(m, x) = Moved(u, f, Append(r, x))
    <2> DEFINE c == Append(r, x)
               d == Moved(u, f, c)
               e == Append(m, x)
    <2>1. /\ c \in Path /\ Len(c) = Len(r) + 1 /\ c[Len(r) + 1] = x
          /\ \A i \in 1..Len(r) : c[i] = r[i]
          /\ Layout!IsPrefix(r, c)
        BY ChildAt
    <2>2. c \in Path /\ m \in Path /\ Layout!IsPrefix(f, c)
        BY <1>m, <2>1, PrefixOrder
    <2> HIDE DEF c
    <2>3. /\ d \in Path /\ Len(d) = Len(u) + Len(c) - Len(f)
          /\ \A i \in 1..Len(u) : d[i] = u[i]
          /\ \A i \in (Len(u) + 1)..Len(d) : d[i] = c[i - Len(u) + Len(f)]
        <3>1. IsMoved(u, f, c, d)
            BY <2>2, MovedIs
        <3> QED
            BY <3>1 DEF IsMoved
    <2>4. /\ e \in Path /\ Len(e) = Len(m) + 1 /\ e[Len(m) + 1] = x
          /\ \A i \in 1..Len(m) : e[i] = m[i]
        <3>1. m \in Path /\ x \in {"a", "b"}
            BY <2>2
        <3> HIDE DEF d
        <3> QED
            BY <3>1, AppendProperties DEF Path
    <2> HIDE DEF d, e
    <2>5. Len(d) = Len(e) /\ Len(m) \in Nat
        BY <1>0, <1>m, <2>1, <2>3, <2>4
    <2>6. ASSUME NEW i \in 1..Len(e) PROVE e[i] = d[i]
        <3>1. CASE i <= Len(u)
            BY <1>0, <1>m, <2>3, <2>4, <2>5, <3>1
        <3>2. CASE i > Len(u) /\ i <= Len(m)
            <4>1. i \in (Len(u) + 1)..Len(m) /\ i \in (Len(u) + 1)..Len(d) /\ i \in 1..Len(m)
                BY <1>0, <2>4, <2>5, <3>2
            <4>2. i - Len(u) + Len(f) \in 1..Len(r)
                BY <1>0, <1>m, <3>2
            <4> QED
                BY <1>m, <2>1, <2>3, <2>4, <4>1, <4>2
        <3>3. CASE i = Len(m) + 1
            <4>1. i \in (Len(u) + 1)..Len(d) /\ i - Len(u) + Len(f) = Len(r) + 1
                BY <1>0, <1>m, <2>4, <2>5, <3>3
            <4> QED
                BY <2>1, <2>3, <2>4, <3>3, <4>1
        <3> QED
            BY <1>0, <2>4, <2>5, <3>1, <3>2, <3>3
    <2>7. e = d
        BY <2>3, <2>4, <2>5, <2>6, SeqEqual DEF Path
    <2> QED
        BY <2>7 DEF d, e, c
<1>3. ASSUME NEW v \in Path, Layout!IsPrefix(u, v), Layout!IsPrefix(v, m)
      PROVE  Layout!IsPrefix(Moved(f, u, v), r)
    <2> DEFINE b == Moved(f, u, v)
    <2>1. /\ b \in Path /\ Len(b) = Len(f) + Len(v) - Len(u)
          /\ \A i \in 1..Len(f) : b[i] = f[i]
          /\ \A i \in (Len(f) + 1)..Len(b) : b[i] = v[i - Len(f) + Len(u)]
        <3>1. IsMoved(f, u, v, b)
            BY <1>3, MovedIs
        <3> QED
            BY <3>1 DEF IsMoved
    <2>2. /\ Len(v) \in Nat /\ Len(u) <= Len(v) /\ Len(v) <= Len(m)
          /\ \A i \in 1..Len(v) : v[i] = m[i]
        BY <1>3, <1>m, LenProperties, PrefixAt DEF Path
    <2> HIDE DEF b
    <2>3. Len(b) <= Len(r)
        BY <1>0, <1>m, <2>1, <2>2
    <2>4. ASSUME NEW i \in 1..Len(b) PROVE b[i] = r[i]
        <3>1. CASE i <= Len(f)
            BY <1>0, <2>1, <2>4, <3>1
        <3>2. CASE i > Len(f)
            <4> DEFINE j == i - Len(f) + Len(u)
            <4>1. /\ i \in (Len(f) + 1)..Len(b) /\ j \in 1..Len(v)
                  /\ j \in (Len(u) + 1)..Len(m) /\ j - Len(u) + Len(f) = i
                BY <1>0, <1>m, <2>1, <2>2, <2>4, <3>2
            <4>2. b[i] = v[j]
                BY <2>1, <4>1
            <4> HIDE DEF j
            <4> QED
                BY <1>m, <2>2, <4>1, <4>2
        <3> QED
            BY <1>0, <3>1, <3>2
    <2> QED
        BY <2>1, <2>3, <2>4, PrefixAt DEF b
<1> QED
    BY <1>1, <1>2, <1>3 DEF m

(* A tree: the root, both children of every split and nothing below a leaf.*)
Node == [kind : {"leaf", "split"}, pane : Panes \cup {0}, session : Users \cup {NoSession}]
TreeShape(t) ==
    /\ DOMAIN t \subseteq Path /\ IsFiniteSet(DOMAIN t) /\ <<>> \in DOMAIN t
    /\ t \in [DOMAIN t -> Node]
    /\ \A q \in DOMAIN t, u \in Path :
          Layout!IsPrefix(u, q) /\ u # q => u \in DOMAIN t /\ t[u].kind = "split"
    /\ \A q \in DOMAIN t, x \in {"a", "b"} :
          t[q].kind = "split" => Append(q, x) \in DOMAIN t

(* closePane's tree: what is beside the parent stays, and what is below    *)
(* the sibling moves up.                                                   *)
LEMMA PromoteMap ==
    ASSUME NEW t, DOMAIN t \subseteq Path, NEW up \in Path, NEW from \in Path,
           Layout!IsPrefix(up, from)
    PROVE  LET n == Layout!Promote(t, up, from) IN
           /\ DOMAIN n \subseteq Path /\ n = [q \in DOMAIN n |-> n[q]]
           /\ \A q \in DOMAIN n : ~Layout!IsPrefix(up, q) => q \in DOMAIN t /\ n[q] = t[q]
           /\ \A q \in DOMAIN n : Layout!IsPrefix(up, q) =>
                 /\ Moved(from, up, q) \in DOMAIN t
                 /\ Layout!IsPrefix(from, Moved(from, up, q))
                 /\ n[q] = t[Moved(from, up, q)]
                 /\ q = Moved(up, from, Moved(from, up, q))
           /\ \A r \in DOMAIN t : ~Layout!IsPrefix(up, r) => r \in DOMAIN n
           /\ \A r \in DOMAIN t : Layout!IsPrefix(from, r) => Moved(up, from, r) \in DOMAIN n
<1> DEFINE n == Layout!Promote(t, up, from)
           dom == {r \in DOMAIN t : ~Layout!IsPrefix(up, r)}
                  \cup {Moved(up, from, r) : r \in {s \in DOMAIN t : Layout!IsPrefix(from, s)}}
<1>1. n = [q \in dom |-> IF Layout!IsPrefix(up, q) THEN t[Moved(from, up, q)] ELSE t[q]]
    BY DEF Layout!Promote, Moved
<1> HIDE DEF n
<1>2. DOMAIN n = dom
    BY <1>1
<1>3. ASSUME NEW r \in DOMAIN t, Layout!IsPrefix(from, r)
      PROVE  /\ Moved(up, from, r) \in Path /\ Layout!IsPrefix(up, Moved(up, from, r))
             /\ Moved(from, up, Moved(up, from, r)) = r
    <2>1. r \in Path
        OBVIOUS
    <2> QED
        BY <1>3, <2>1, MovedAt, MovedBack
<1>4. DOMAIN n \subseteq Path
    BY <1>2, <1>3
<1>5. \A q \in DOMAIN n : ~Layout!IsPrefix(up, q) => q \in DOMAIN t /\ n[q] = t[q]
    BY <1>1, <1>2, <1>3
<1>6. ASSUME NEW q \in DOMAIN n, Layout!IsPrefix(up, q)
      PROVE  /\ Moved(from, up, q) \in DOMAIN t
             /\ Layout!IsPrefix(from, Moved(from, up, q))
             /\ n[q] = t[Moved(from, up, q)]
             /\ q = Moved(up, from, Moved(from, up, q))
    <2>1. PICK r \in DOMAIN t : Layout!IsPrefix(from, r) /\ q = Moved(up, from, r)
        BY <1>2, <1>6
    <2>2. Moved(from, up, q) = r
        BY <1>3, <2>1
    <2>3. n[q] = t[Moved(from, up, q)]
        BY <1>1, <1>2, <1>6
    <2> QED
        BY <2>1, <2>2, <2>3
<1>7. \A r \in DOMAIN t : ~Layout!IsPrefix(up, r) => r \in DOMAIN n
    BY <1>2
<1>8. \A r \in DOMAIN t : Layout!IsPrefix(from, r) => Moved(up, from, r) \in DOMAIN n
    BY <1>2
<1>9. n = [q \in DOMAIN n |-> n[q]]
    BY <1>1
<1> QED
    BY <1>4, <1>5, <1>6, <1>7, <1>8, <1>9 DEF n

(* Where the node at q comes from.                                         *)
Source(up, from, q) == IF Layout!IsPrefix(up, q) THEN Moved(from, up, q) ELSE q

(* Every node of closePane's tree is a node of the old one, each of        *)
(* another.                                                                *)
LEMMA SourceOnce ==
    ASSUME NEW t, DOMAIN t \subseteq Path, NEW up \in Path, NEW from \in Path,
           Layout!IsPrefix(up, from)
    PROVE  LET n == Layout!Promote(t, up, from) IN
           /\ \A q \in DOMAIN n : /\ Source(up, from, q) \in DOMAIN t
                                  /\ n[q] = t[Source(up, from, q)]
           /\ \A q, r \in DOMAIN n : Source(up, from, q) = Source(up, from, r) => q = r
<1> DEFINE n == Layout!Promote(t, up, from)
<1>1. /\ DOMAIN n \subseteq Path
      /\ \A q \in DOMAIN n : ~Layout!IsPrefix(up, q) => q \in DOMAIN t /\ n[q] = t[q]
      /\ \A q \in DOMAIN n : Layout!IsPrefix(up, q) =>
                 /\ Moved(from, up, q) \in DOMAIN t
                 /\ Layout!IsPrefix(from, Moved(from, up, q))
                 /\ n[q] = t[Moved(from, up, q)]
                 /\ q = Moved(up, from, Moved(from, up, q))
    BY PromoteMap
<1> HIDE DEF n
<1>2. \A q \in DOMAIN n : /\ Source(up, from, q) \in DOMAIN t
                          /\ n[q] = t[Source(up, from, q)]
    BY <1>1 DEF Source
<1>3. \A q \in DOMAIN n : Layout!IsPrefix(up, q) <=> Layout!IsPrefix(up, Source(up, from, q))
    BY <1>1, <1>2, PrefixOrder DEF Source
<1>4. ASSUME NEW q \in DOMAIN n, NEW r \in DOMAIN n, Source(up, from, q) = Source(up, from, r)
      PROVE  q = r
    <2>1. CASE Layout!IsPrefix(up, q)
        <3>1. Layout!IsPrefix(up, r)
            BY <1>3, <1>4, <2>1
        <3>2. Moved(from, up, q) = Moved(from, up, r)
            BY <1>4, <2>1, <3>1 DEF Source
        <3> QED
            BY <1>1, <2>1, <3>1, <3>2
    <2>2. CASE ~Layout!IsPrefix(up, q)
        BY <1>3, <1>4, <2>2 DEF Source
    <2> QED
        BY <2>1, <2>2
<1> QED
    BY <1>2, <1>4 DEF n

(* The tree after the sibling is promoted is a tree.                       *)
LEMMA PromoteShape ==
    ASSUME NEW t, TreeShape(t), NEW up \in DOMAIN t, NEW from \in DOMAIN t,
           Layout!IsPrefix(up, from)
    PROVE  TreeShape(Layout!Promote(t, up, from))
<1> DEFINE n == Layout!Promote(t, up, from)
<1>t. /\ DOMAIN t \subseteq Path /\ IsFiniteSet(DOMAIN t) /\ <<>> \in DOMAIN t
      /\ t \in [DOMAIN t -> Node]
      /\ \A q \in DOMAIN t, u \in Path :
            Layout!IsPrefix(u, q) /\ u # q => u \in DOMAIN t /\ t[u].kind = "split"
      /\ \A q \in DOMAIN t, x \in {"a", "b"} :
            t[q].kind = "split" => Append(q, x) \in DOMAIN t
    BY DEF TreeShape
<1>p. up \in Path /\ from \in Path
    BY <1>t
<1>1. /\ DOMAIN n \subseteq Path /\ n = [q \in DOMAIN n |-> n[q]]
      /\ \A q \in DOMAIN n : ~Layout!IsPrefix(up, q) => q \in DOMAIN t /\ n[q] = t[q]
      /\ \A q \in DOMAIN n : Layout!IsPrefix(up, q) =>
                 /\ Moved(from, up, q) \in DOMAIN t
                 /\ Layout!IsPrefix(from, Moved(from, up, q))
                 /\ n[q] = t[Moved(from, up, q)]
                 /\ q = Moved(up, from, Moved(from, up, q))
      /\ \A r \in DOMAIN t : ~Layout!IsPrefix(up, r) => r \in DOMAIN n
      /\ \A r \in DOMAIN t : Layout!IsPrefix(from, r) => Moved(up, from, r) \in DOMAIN n
    BY <1>p, <1>t, PromoteMap
<1>2. /\ \A q \in DOMAIN n : /\ Source(up, from, q) \in DOMAIN t
                             /\ n[q] = t[Source(up, from, q)]
      /\ \A q, r \in DOMAIN n : Source(up, from, q) = Source(up, from, r) => q = r
    BY <1>p, <1>t, SourceOnce
<1> HIDE DEF n
<1>3. n \in [DOMAIN n -> Node]
    BY <1>1, <1>2, <1>t
<1>4. IsFiniteSet(DOMAIN n)
    <2> DEFINE f == [q \in DOMAIN n |-> Source(up, from, q)]
    <2>1. f \in Injection(DOMAIN n, DOMAIN t)
        BY <1>2 DEF Injection, IsInjective
    <2> QED
        BY <1>t, <2>1, FS_Injection
<1>5. Moved(up, from, from) = up /\ up \in DOMAIN n
    BY <1>1, <1>p, PrefixOrder, MovedBelow
<1>6. <<>> \in DOMAIN n
    <2>1. CASE Layout!IsPrefix(up, <<>>)
        <3>1. <<>> \in Path /\ Len(up) \in Nat /\ Len(<<>>) = 0
            BY <1>p, EmptySeq, LenProperties DEF Path
        <3>2. up = <<>>
            BY <1>p, <2>1, <3>1, PrefixOrder
        <3> QED
            BY <1>5, <3>2
    <2>2. CASE ~Layout!IsPrefix(up, <<>>)
        BY <1>1, <1>t, <2>2
    <2> QED
        BY <2>1, <2>2
<1>7. ASSUME NEW q \in DOMAIN n, NEW u \in Path, Layout!IsPrefix(u, q), u # q
      PROVE  u \in DOMAIN n /\ n[u].kind = "split"
    <2>0. q \in Path /\ Len(u) \in Nat /\ Len(up) \in Nat
        BY <1>1, <1>p, LenProperties DEF Path
    <2>s. ASSUME u \in DOMAIN t, t[u].kind = "split", ~Layout!IsPrefix(up, u)
          PROVE  u \in DOMAIN n /\ n[u].kind = "split"
        BY <1>1, <2>s
    <2>1. CASE ~Layout!IsPrefix(up, q)
        <3>1. u \in DOMAIN t /\ t[u].kind = "split"
            BY <1>1, <1>t, <1>7, <2>1
        <3>2. ~Layout!IsPrefix(up, u)
            BY <1>7, <1>p, <2>0, <2>1, PrefixOrder
        <3> QED
            BY <2>s, <3>1, <3>2
    <2>2. CASE Layout!IsPrefix(up, q) /\ ~Layout!IsPrefix(up, u)
        <3>1. Len(u) <= Len(up)
            BY <1>7, <1>p, <2>0, <2>2, PrefixOrder
        <3>2. Layout!IsPrefix(u, up)
            BY <1>7, <1>p, <2>0, <2>2, <3>1, PrefixOrder
        <3>3. u # up
            BY <1>p, <2>2, PrefixOrder
        <3> QED
            BY <1>t, <2>s, <2>2, <3>2, <3>3
    <2>3. CASE Layout!IsPrefix(up, q) /\ Layout!IsPrefix(up, u)
        <3> DEFINE r == Moved(from, up, q)
                   v == Moved(from, up, u)
        <3>1. /\ r \in DOMAIN t /\ r \in Path /\ Layout!IsPrefix(from, r)
              /\ q = Moved(up, from, r)
            BY <1>1, <1>t, <2>3
        <3>2. /\ v \in Path /\ Layout!IsPrefix(from, v) /\ u = Moved(up, from, v)
            BY <1>p, <2>3, MovedAt, MovedBack
        <3>3. Layout!IsPrefix(v, r)
            <4> HIDE DEF r
            <4> QED
                BY <1>p, <1>7, <2>3, <3>1, MovedBelow
        <3> HIDE DEF r, v
        <3>4. v # r
            BY <1>7, <3>1, <3>2
        <3>5. v \in DOMAIN t /\ t[v].kind = "split"
            BY <1>t, <3>1, <3>2, <3>3, <3>4
        <3>6. u \in DOMAIN n
            BY <1>1, <3>2, <3>5
        <3> QED
            BY <1>1, <2>3, <3>5, <3>6 DEF v
    <2> QED
        BY <2>1, <2>2, <2>3
<1>8. ASSUME NEW q \in DOMAIN n, NEW x \in {"a", "b"}, n[q].kind = "split"
      PROVE  Append(q, x) \in DOMAIN n
    <2>0. q \in Path
        BY <1>1
    <2>1. CASE ~Layout!IsPrefix(up, q)
        <3>1. Append(q, x) \in DOMAIN t
            BY <1>1, <1>t, <1>8, <2>1
        <3>2. Layout!IsPrefix(up, Append(q, x)) => up = Append(q, x)
            BY <1>p, <2>0, <2>1, ChildAt
        <3> QED
            BY <1>1, <1>5, <3>1, <3>2
    <2>2. CASE Layout!IsPrefix(up, q)
        <3> DEFINE r == Moved(from, up, q)
        <3>1. /\ r \in DOMAIN t /\ r \in Path /\ Layout!IsPrefix(from, r)
              /\ q = Moved(up, from, r) /\ t[r].kind = "split"
            BY <1>1, <1>t, <1>8, <2>2
        <3> HIDE DEF r
        <3>2. Append(r, x) \in DOMAIN t
            BY <1>t, <3>1
        <3>3. Layout!IsPrefix(from, Append(r, x))
            BY <1>p, <3>1, ChildAt
        <3>4. Append(q, x) = Moved(up, from, Append(r, x))
            BY <1>p, <3>1, MovedBelow
        <3> QED
            BY <1>1, <3>2, <3>3, <3>4
    <2> QED
        BY <2>1, <2>2
<1>9. TreeShape(n)
    BY <1>1, <1>3, <1>4, <1>6, <1>7, <1>8 DEF TreeShape
<1> QED
    BY <1>9 DEF n

(* The trees there are: no pane and no session is there twice.             *)
PanesApart(t) == \A p, q \in Layout!Leaves(t) : t[p].pane = t[q].pane => p = q
SessionsApart(t) ==
    \A p, q \in Layout!Leaves(t) :
        t[p].session = t[q].session /\ t[p].session # NoSession => p = q
GoodTree(t) == TreeShape(t) /\ PanesApart(t) /\ SessionsApart(t)

(* In such a tree PathOf finds the leaf of each of its panes, and that one *)
(* only.                                                                   *)
LEMMA PathOfPane ==
    ASSUME NEW t, GoodTree(t)
    PROVE  /\ \A pane \in Layout!PanesOf(t) :
                 /\ Layout!PathOf(t, pane) \in Layout!Leaves(t)
                 /\ t[Layout!PathOf(t, pane)].pane = pane
           /\ \A q \in Layout!Leaves(t) :
                 t[q].pane \in Layout!PanesOf(t) /\ Layout!PathOf(t, t[q].pane) = q
<1>1. ASSUME NEW pane \in Layout!PanesOf(t)
      PROVE  /\ Layout!PathOf(t, pane) \in Layout!Leaves(t)
             /\ t[Layout!PathOf(t, pane)].pane = pane
    <2>1. \E q \in Layout!Leaves(t) : t[q].pane = pane
        BY DEF Layout!PanesOf
    <2> QED
        BY <2>1 DEF Layout!PathOf
<1>2. \A q \in Layout!Leaves(t) : t[q].pane \in Layout!PanesOf(t)
    BY DEF Layout!PanesOf
<1> QED
    BY <1>1, <1>2 DEF GoodTree, PanesApart

(* A tree whose leaves are leaves of a good tree, each of another one.     *)
LEMMA SourcedTree ==
    ASSUME NEW t, GoodTree(t), NEW n, TreeShape(n), NEW src,
           \A q \in Layout!Leaves(n) : src[q] \in Layout!Leaves(t) /\ n[q] = t[src[q]],
           \A q, r \in Layout!Leaves(n) : src[q] = src[r] => q = r
    PROVE  GoodTree(n) /\ Layout!PanesOf(n) \subseteq Layout!PanesOf(t)
BY DEF GoodTree, PanesApart, SessionsApart, Layout!PanesOf

(* closePane: the parent and the sibling of a pane that is not the root.   *)
LEMMA ParentAndSibling ==
    ASSUME NEW t, TreeShape(t), NEW p \in Layout!Leaves(t), p # <<>>
    PROVE  /\ p \in Path /\ Layout!Front(p) \in DOMAIN t /\ Layout!Sibling(p) \in DOMAIN t
           /\ Layout!IsPrefix(Layout!Front(p), Layout!Sibling(p))
           /\ \A q \in Layout!Leaves(t) \ {p} :
                 Layout!IsPrefix(Layout!Front(p), q) => Layout!IsPrefix(Layout!Sibling(p), q)
           /\ Layout!IsPrefix(Layout!Front(p), p) /\ ~Layout!IsPrefix(Layout!Sibling(p), p)
<1> DEFINE up == Layout!Front(p)
           from == Layout!Sibling(p)
           k == Len(p)
<1>t. /\ DOMAIN t \subseteq Path /\ p \in DOMAIN t /\ t[p].kind = "leaf"
      /\ \A q \in DOMAIN t, u \in Path :
            Layout!IsPrefix(u, q) /\ u # q => u \in DOMAIN t /\ t[u].kind = "split"
      /\ \A q \in DOMAIN t, x \in {"a", "b"} :
            t[q].kind = "split" => Append(q, x) \in DOMAIN t
    BY DEF TreeShape, Layout!Leaves
<1>1. /\ p \in Path /\ k \in Nat \ {0}
      /\ up \in Path /\ Len(up) = k - 1 /\ \A i \in 1..(k - 1) : up[i] = p[i]
      /\ from \in Path /\ Len(from) = k /\ \A i \in 1..(k - 1) : from[i] = p[i]
      /\ p[k] \in {"a", "b"} /\ from[k] = Layout!Other(p[k])
      /\ Layout!IsPrefix(up, from) /\ Layout!IsPrefix(up, p)
    BY <1>t, SiblingAt
<1>2. from = Append(up, Layout!Other(p[k])) /\ Layout!Other(p[k]) \in {"a", "b"} \ {p[k]}
    BY <1>1 DEF Layout!Sibling, Layout!Last, Layout!Other
<1> HIDE DEF up, from, k
<1>3. up # p
    BY <1>1 DEF k
<1>4. up \in DOMAIN t /\ t[up].kind = "split"
    BY <1>1, <1>3, <1>t
<1>5. from \in DOMAIN t
    BY <1>2, <1>4, <1>t
<1>6. ~Layout!IsPrefix(from, p)
    <2>1. k \in 1..Len(from) /\ from[k] # p[k]
        BY <1>1, <1>2
    <2> QED
        BY <1>1, <2>1, PrefixAt
<1>7. ASSUME NEW q \in Layout!Leaves(t) \ {p}, Layout!IsPrefix(up, q)
      PROVE  Layout!IsPrefix(from, q)
    <2>1. q \in Path /\ q \in DOMAIN t /\ t[q].kind = "leaf" /\ q # up
        BY <1>4, <1>t DEF Layout!Leaves
    <2>2. /\ Len(q) \in Nat /\ Len(up) <= Len(q) /\ \A i \in 1..Len(up) : up[i] = q[i]
          /\ \A i \in 1..Len(q) : q[i] \in {"a", "b"}
        BY <1>1, <1>7, <2>1, PrefixAt, LenProperties, ElementOfSeq DEF Path
    <2>3. Len(q) # Len(up)
        <3>1. SUFFICES ASSUME Len(q) = Len(up) PROVE FALSE
            OBVIOUS
        <3> QED
            BY <1>1, <1>7, <2>1, <2>2, <3>1, PrefixOrder
    <2>4. k <= Len(q) /\ q[k] \in {"a", "b"} /\ \A i \in 1..(k - 1) : p[i] = q[i]
        BY <1>1, <2>2, <2>3
    <2>5. CASE q[k] = p[k]
        <3>1. Len(p) <= Len(q) /\ \A i \in 1..Len(p) : p[i] = q[i]
            BY <1>1, <2>4, <2>5 DEF k
        <3>2. Layout!IsPrefix(p, q)
            BY <1>1, <2>1, <3>1, PrefixAt
        <3> QED
            BY <1>1, <1>7, <1>t, <2>1, <3>2
    <2>6. CASE q[k] # p[k]
        <3>1. q[k] = from[k]
            BY <1>1, <1>2, <2>4, <2>6 DEF Layout!Other
        <3>2. Len(from) <= Len(q) /\ \A i \in 1..Len(from) : from[i] = q[i]
            BY <1>1, <2>4, <3>1
        <3> QED
            BY <1>1, <2>1, <3>2, PrefixAt
    <2> QED
        BY <2>5, <2>6
<1> QED
    BY <1>1, <1>4, <1>5, <1>6, <1>7 DEF up, from

(* closePane leaves a tree with no pane or session in it twice, and adds   *)
(* no pane.                                                                *)
LEMMA ClosePaneGood ==
    ASSUME NEW t, GoodTree(t), NEW pane
    PROVE  /\ GoodTree(Layout!ClosePane(t, pane))
           /\ Layout!PanesOf(Layout!ClosePane(t, pane)) \subseteq Layout!PanesOf(t)
<1> DEFINE p == Layout!PathOf(t, pane)
<1>1. CASE pane \notin Layout!PanesOf(t)
    BY <1>1 DEF Layout!ClosePane
<1>2. CASE pane \in Layout!PanesOf(t) /\ p = <<>>
    <2> DEFINE n == [t EXCEPT ![<<>>].session = NoSession]
    <2>1. Layout!ClosePane(t, pane) = n
        BY <1>2 DEF Layout!ClosePane
    <2>2. t \in [DOMAIN t -> Node] /\ <<>> \in DOMAIN t
        BY DEF GoodTree, TreeShape
    <2>3. /\ DOMAIN n = DOMAIN t /\ n \in [DOMAIN n -> Node]
          /\ \A q \in DOMAIN t : n[q].kind = t[q].kind /\ n[q].pane = t[q].pane
          /\ \A q \in DOMAIN t : n[q].session \in {t[q].session, NoSession}
        BY <2>2 DEF Node
    <2> HIDE DEF n
    <2>4. Layout!Leaves(n) = Layout!Leaves(t) /\ Layout!PanesOf(n) = Layout!PanesOf(t)
        BY <2>3 DEF Layout!Leaves, Layout!PanesOf
    <2>5. TreeShape(n)
        BY <2>3 DEF GoodTree, TreeShape
    <2>6. PanesApart(n) /\ SessionsApart(n)
        BY <2>3, <2>4 DEF GoodTree, PanesApart, SessionsApart, Layout!Leaves
    <2> QED
        BY <2>1, <2>4, <2>5, <2>6 DEF GoodTree
<1>3. CASE pane \in Layout!PanesOf(t) /\ p # <<>>
    <2> DEFINE up == Layout!Front(p)
               from == Layout!Sibling(p)
               n == Layout!Promote(t, up, from)
               src == [q \in DOMAIN n |-> Source(up, from, q)]
    <2>1. Layout!ClosePane(t, pane) = n
        BY <1>3 DEF Layout!ClosePane
    <2>2. TreeShape(t) /\ DOMAIN t \subseteq Path /\ p \in Layout!Leaves(t)
        BY <1>3, PathOfPane DEF GoodTree, TreeShape
    <2>3. up \in DOMAIN t /\ from \in DOMAIN t /\ Layout!IsPrefix(up, from)
        BY <1>3, <2>2, ParentAndSibling
    <2> HIDE DEF up, from, p
    <2>4. TreeShape(n)
        BY <2>2, <2>3, PromoteShape
    <2>5. /\ \A q \in DOMAIN n : Source(up, from, q) \in DOMAIN t /\ n[q] = t[Source(up, from, q)]
          /\ \A q, r \in DOMAIN n : Source(up, from, q) = Source(up, from, r) => q = r
        BY <2>2, <2>3, SourceOnce
    <2> HIDE DEF n
    <2>6. /\ \A q \in Layout!Leaves(n) : src[q] \in Layout!Leaves(t) /\ n[q] = t[src[q]]
          /\ \A q, r \in Layout!Leaves(n) : src[q] = src[r] => q = r
        BY <2>5 DEF Layout!Leaves
    <2> HIDE DEF src
    <2>7. GoodTree(n) /\ Layout!PanesOf(n) \subseteq Layout!PanesOf(t)
        BY <2>4, <2>6, SourcedTree
    <2> QED
        BY <2>1, <2>7
<1> QED
    BY <1>1, <1>2, <1>3

(* setSession: the panes stay, and what was elsewhere is taken from there. *)
LEMMA SetSessionGood ==
    ASSUME NEW t, GoodTree(t), NEW pane, NEW s \in Users \cup {NoSession}
    PROVE  LET n == Layout!SetSession(t, pane, s) IN
           /\ GoodTree(n)
           /\ Layout!Leaves(n) = Layout!Leaves(t) /\ Layout!PanesOf(n) = Layout!PanesOf(t)
           /\ \A q \in Layout!Leaves(t) :
                 /\ n[q].pane = t[q].pane
                 /\ n[q].session = IF t[q].pane = pane THEN s
                                   ELSE IF t[q].session = s THEN NoSession ELSE t[q].session
<1> DEFINE n == Layout!SetSession(t, pane, s)
<1>1. DOMAIN n = DOMAIN t /\ n = [q \in DOMAIN t |-> n[q]]
    BY DEF Layout!SetSession
<1>2. ASSUME NEW q \in DOMAIN t
      PROVE  /\ n[q] \in Node /\ n[q].kind = t[q].kind
             /\ t[q].kind = "leaf" =>
                  /\ n[q].pane = t[q].pane
                  /\ n[q].session = IF t[q].pane = pane THEN s
                                    ELSE IF t[q].session = s THEN NoSession ELSE t[q].session
    <2>1. t[q] \in Node
        BY DEF GoodTree, TreeShape
    <2>2. n[q] = IF t[q].kind = "split" THEN t[q]
                 ELSE IF t[q].pane = pane THEN [t[q] EXCEPT !.session = s]
                 ELSE IF t[q].session = s THEN [t[q] EXCEPT !.session = NoSession] ELSE t[q]
        BY DEF Layout!SetSession
    <2> QED
        BY <2>1, <2>2 DEF Node
<1> HIDE DEF n
<1>3. /\ Layout!Leaves(n) = Layout!Leaves(t)
      /\ \A q \in Layout!Leaves(t) :
                 /\ n[q].pane = t[q].pane
                 /\ n[q].session = IF t[q].pane = pane THEN s
                                   ELSE IF t[q].session = s THEN NoSession ELSE t[q].session
    BY <1>1, <1>2 DEF Layout!Leaves
<1>4. Layout!PanesOf(n) = Layout!PanesOf(t)
    BY <1>3 DEF Layout!PanesOf
<1>5. TreeShape(n)
    <2>1. n \in [DOMAIN n -> Node]
        BY <1>1, <1>2
    <2> QED
        BY <1>1, <1>2, <2>1 DEF GoodTree, TreeShape
<1>6. PanesApart(n)
    BY <1>3 DEF GoodTree, PanesApart
<1>7. SessionsApart(n)
    BY <1>3 DEF GoodTree, PanesApart, SessionsApart
<1> QED
    BY <1>3, <1>4, <1>5, <1>6, <1>7 DEF GoodTree, n

(* splitPane: the pane goes one step down, beside the new one.             *)
LEMMA SplitPaneGood ==
    ASSUME NEW t, GoodTree(t), NEW pane \in Layout!PanesOf(t),
           NEW fresh \in Panes \ Layout!PanesOf(t), NEW newFirst \in BOOLEAN
    PROVE  LET n == Layout!SplitPane(t, pane, Layout!Leaf(fresh, NoSession), newFirst)
               p == Layout!PathOf(t, pane)
               old == Append(p, IF newFirst THEN "b" ELSE "a")
               new == Append(p, IF newFirst THEN "a" ELSE "b")
           IN  /\ GoodTree(n) /\ Layout!PanesOf(n) = Layout!PanesOf(t) \cup {fresh}
               /\ Layout!Leaves(n) = (Layout!Leaves(t) \ {p}) \cup {old, new}
               /\ old # new /\ old \notin Layout!Leaves(t) /\ new \notin Layout!Leaves(t)
               /\ n[old] = t[p] /\ n[new] = Layout!Leaf(fresh, NoSession)
               /\ \A q \in Layout!Leaves(t) \ {p} : n[q] = t[q]
<1> DEFINE n == Layout!SplitPane(t, pane, Layout!Leaf(fresh, NoSession), newFirst)
           p == Layout!PathOf(t, pane)
           old == Append(p, IF newFirst THEN "b" ELSE "a")
           new == Append(p, IF newFirst THEN "a" ELSE "b")
           leaf == Layout!Leaf(fresh, NoSession)
<1>t. /\ DOMAIN t \subseteq Path /\ IsFiniteSet(DOMAIN t) /\ <<>> \in DOMAIN t
      /\ t \in [DOMAIN t -> Node]
      /\ \A q \in DOMAIN t, u \in Path :
            Layout!IsPrefix(u, q) /\ u # q => u \in DOMAIN t /\ t[u].kind = "split"
      /\ \A q \in DOMAIN t, x \in {"a", "b"} :
            t[q].kind = "split" => Append(q, x) \in DOMAIN t
    BY DEF GoodTree, TreeShape
<1>p. /\ p \in Layout!Leaves(t) /\ t[p].pane = pane
      /\ p \in DOMAIN t /\ p \in Path /\ t[p].kind = "leaf"
    BY <1>t, PathOfPane DEF Layout!Leaves
<1>n. n = [q \in DOMAIN t \cup {Append(p, "a"), Append(p, "b")} |->
              IF q = p THEN Layout!Split ELSE IF q = old THEN t[p]
              ELSE IF q \in DOMAIN t THEN t[q] ELSE leaf]
    BY DEF Layout!SplitPane
<1>l. leaf \in Node /\ leaf.kind = "leaf" /\ leaf.pane = fresh /\ leaf.session = NoSession
    BY DEF Layout!Leaf, Node
<1>s. Layout!Split \in Node /\ Layout!Split.kind = "split"
    BY DEF Layout!Split, Node
<1> HIDE DEF n, p, leaf
<1>c. ASSUME NEW x \in {"a", "b"}
      PROVE  /\ Append(p, x) \in Path /\ Append(p, x) # p /\ Append(p, x) \notin DOMAIN t
             /\ \A u \in Path : Layout!IsPrefix(u, Append(p, x)) <=>
                                  Layout!IsPrefix(u, p) \/ u = Append(p, x)
             /\ Append(p, x)[Len(p) + 1] = x
    <2>1. /\ Append(p, x) \in Path /\ Append(p, x) # p /\ Layout!IsPrefix(p, Append(p, x))
          /\ \A u \in Path : Layout!IsPrefix(u, Append(p, x)) <=>
                                  Layout!IsPrefix(u, p) \/ u = Append(p, x)
          /\ Append(p, x)[Len(p) + 1] = x
        BY <1>p, ChildAt
    <2>2. Append(p, x) \notin DOMAIN t
        BY <1>p, <1>t, <2>1
    <2> QED
        BY <2>1, <2>2
<1>a. Append(p, "a") # Append(p, "b")
    BY <1>c
<1>o. /\ {old, new} = {Append(p, "a"), Append(p, "b")} /\ old # new
      /\ {old, new} \cap DOMAIN t = {} /\ old # p /\ new # p
      /\ {old, new} \subseteq Path
    BY <1>a, <1>c
<1>k. \A u \in Path, c \in {old, new} : Layout!IsPrefix(u, c) => Layout!IsPrefix(u, p) \/ u = c
    BY <1>c, <1>o
<1>z. \A x \in {"a", "b"} : Append(p, x) \in {old, new}
    BY <1>o
<1> HIDE DEF old, new
<1>1. DOMAIN n = DOMAIN t \cup {old, new}
    BY <1>n, <1>o
<1>2. /\ n[p] = Layout!Split /\ n[old] = t[p] /\ n[new] = leaf
      /\ \A q \in DOMAIN t \ {p} : n[q] = t[q]
    BY <1>n, <1>o, <1>p
<1>3. Layout!Leaves(n) = (Layout!Leaves(t) \ {p}) \cup {old, new}
    BY <1>1, <1>2, <1>l, <1>o, <1>p, <1>s DEF Layout!Leaves
<1>4. n \in [DOMAIN n -> Node]
    <2>1. n = [q \in DOMAIN n |-> n[q]]
        BY <1>n
    <2>2. \A q \in DOMAIN n : n[q] \in Node
        BY <1>1, <1>2, <1>l, <1>p, <1>s, <1>t
    <2> QED
        BY <2>1, <2>2
<1>5. IsFiniteSet(DOMAIN n)
    <2>1. IsFiniteSet(DOMAIN t \cup {old}) /\ IsFiniteSet((DOMAIN t \cup {old}) \cup {new})
        BY <1>t, FS_AddElement
    <2>2. DOMAIN n = (DOMAIN t \cup {old}) \cup {new}
        BY <1>1
    <2> QED
        BY <2>1, <2>2
<1>6. ASSUME NEW q \in DOMAIN n, NEW u \in Path, Layout!IsPrefix(u, q), u # q
      PROVE  u \in DOMAIN n /\ n[u].kind = "split"
    <2>1. CASE q \in DOMAIN t
        <3>1. u \in DOMAIN t /\ t[u].kind = "split"
            BY <1>6, <1>t, <2>1
        <3> QED
            BY <1>1, <1>2, <1>p, <3>1
    <2>2. CASE q \in {old, new}
        <3>1. Layout!IsPrefix(u, p)
            BY <1>6, <1>k, <2>2
        <3>2. u # p => u \in DOMAIN t /\ t[u].kind = "split"
            BY <1>p, <1>t, <3>1
        <3> QED
            BY <1>1, <1>2, <1>p, <1>s, <3>2
    <2> QED
        BY <1>1, <2>1, <2>2
<1>7. ASSUME NEW q \in DOMAIN n, NEW x \in {"a", "b"}, n[q].kind = "split"
      PROVE  Append(q, x) \in DOMAIN n
    <2>1. CASE q = p
        BY <1>1, <1>z, <2>1
    <2>2. CASE q \in DOMAIN t \ {p}
        BY <1>1, <1>2, <1>7, <1>t, <2>2
    <2>3. CASE q \in {old, new}
        BY <1>2, <1>7, <1>l, <1>p, <2>3
    <2> QED
        BY <1>1, <2>1, <2>2, <2>3
<1>8. TreeShape(n)
    <2>1. DOMAIN n \subseteq Path /\ <<>> \in DOMAIN n
        BY <1>1, <1>o, <1>t
    <2> QED
        BY <2>1, <1>4, <1>5, <1>6, <1>7 DEF TreeShape
<1>9. /\ \A q \in Layout!Leaves(t) \ {p} : n[q] = t[q]
      /\ \A q \in Layout!Leaves(t) : t[q].pane \in Layout!PanesOf(t)
    BY <1>2 DEF Layout!Leaves, Layout!PanesOf
<1>10. PanesApart(n)
    <2>1. \A q \in Layout!Leaves(n) \ {old, new} : q \in Layout!Leaves(t) \ {p} /\ n[q] = t[q]
        BY <1>3, <1>9
    <2>2. \A q \in Layout!Leaves(n) \ {new} : n[q].pane # fresh
        BY <1>2, <1>9, <1>p, <2>1
    <2>3. \A q \in Layout!Leaves(n) \ {old, new} : n[q].pane # t[p].pane
        BY <1>p, <2>1 DEF GoodTree, PanesApart
    <2>4. \A q, r \in Layout!Leaves(n) \ {old, new} : n[q].pane = n[r].pane => q = r
        BY <2>1 DEF GoodTree, PanesApart
    <2> QED
        BY <1>2, <1>l, <2>2, <2>3, <2>4 DEF PanesApart
<1>11. SessionsApart(n)
    <2>1. \A q \in Layout!Leaves(n) \ {old, new} : q \in Layout!Leaves(t) \ {p} /\ n[q] = t[q]
        BY <1>3, <1>9
    <2>2. \A q \in Layout!Leaves(n) \ {old, new} :
             n[q].session = t[p].session => n[q].session = NoSession
        BY <1>p, <2>1 DEF GoodTree, SessionsApart
    <2>3. \A q, r \in Layout!Leaves(n) \ {old, new} :
             n[q].session = n[r].session /\ n[q].session # NoSession => q = r
        BY <2>1 DEF GoodTree, SessionsApart
    <2> QED
        BY <1>2, <1>l, <2>2, <2>3 DEF SessionsApart
<1>12. Layout!PanesOf(n) = Layout!PanesOf(t) \cup {fresh}
    <2>1. Layout!PanesOf(t) = {t[q].pane : q \in Layout!Leaves(t) \ {p}} \cup {t[p].pane}
        BY <1>p DEF Layout!PanesOf
    <2>2. Layout!PanesOf(n) = {n[q].pane : q \in Layout!Leaves(t) \ {p}}
                              \cup {n[old].pane, n[new].pane}
        BY <1>3 DEF Layout!PanesOf
    <2> QED
        BY <1>2, <1>9, <1>l, <2>1, <2>2
<1>13. GoodTree(n)
    BY <1>8, <1>10, <1>11 DEF GoodTree
<1>14. old \notin Layout!Leaves(t) /\ new \notin Layout!Leaves(t)
    BY <1>o DEF Layout!Leaves
<1>15. /\ GoodTree(n) /\ Layout!PanesOf(n) = Layout!PanesOf(t) \cup {fresh}
       /\ Layout!Leaves(n) = (Layout!Leaves(t) \ {p}) \cup {old, new}
       /\ old # new /\ old \notin Layout!Leaves(t) /\ new \notin Layout!Leaves(t)
       /\ n[old] = t[p] /\ n[new] = leaf
       /\ \A q \in Layout!Leaves(t) \ {p} : n[q] = t[q]
    BY <1>2, <1>3, <1>9, <1>12, <1>13, <1>14, <1>o
<1> QED
    BY <1>15 DEF n, p, old, new, leaf

(* Every set of numbers has a least one.                                   *)
LEMMA LeastOf ==
    ASSUME NEW D, D \subseteq Nat, D # {}
    PROVE  \E m \in D : \A j \in D : m <= j
<1> DEFINE T == {1..m : m \in D}
<1>1. \A m \in D : IsFiniteSet(1..m)
    BY FS_Interval
<1>2. T \subseteq FiniteSubsetsOf(Nat) /\ T # {}
    <2>1. \A m \in D : 1..m \in SUBSET Nat
        OBVIOUS
    <2>2. \A m \in D : 1..m \in FiniteSubsetsOf(Nat)
        BY <1>1, <2>1 DEF FiniteSubsetsOf
    <2> QED
        BY <2>2
<1>3. IsWellFoundedOn(StrictSubsetOrdering(Nat), FiniteSubsetsOf(Nat))
    BY FS_StrictSubsetOrderingWellFounded
<1>4. PICK x \in T : \A y \in T : ~(<<y, x>> \in StrictSubsetOrdering(Nat))
    BY <1>2, <1>3, WFMin
<1>5. PICK m \in D : x = 1..m
    OBVIOUS
<1>6. ASSUME NEW j \in D, ~(m <= j) PROVE FALSE
    <2>1. 1..j \subseteq 1..m /\ m \in 1..m /\ m \notin 1..j
        BY <1>6
    <2>2. <<1..j, x>> \in StrictSubsetOrdering(Nat)
        <3>1. 1..j \in SUBSET Nat /\ x \in SUBSET Nat /\ 1..j \subseteq x /\ 1..j # x
            BY <1>5, <2>1
        <3> HIDE DEF T
        <3> QED
            BY <3>1 DEF StrictSubsetOrdering
    <2> QED
        BY <1>4, <2>2
<1> QED
    BY <1>5, <1>6

(* A tree has a leaf: the node with the fewest nodes below it.             *)
LEMMA HasLeaf ==
    ASSUME NEW t, TreeShape(t)
    PROVE  Layout!Leaves(t) # {}
<1> DEFINE below(r) == {q \in DOMAIN t : Layout!IsPrefix(r, q)}
           D == {Cardinality(below(r)) : r \in DOMAIN t}
<1>1. \A r \in DOMAIN t : IsFiniteSet(below(r)) /\ Cardinality(below(r)) \in Nat
    BY FS_Subset, FS_CardinalityType DEF TreeShape
<1>2. D \subseteq Nat /\ D # {}
    <2>1. PICK r \in DOMAIN t : TRUE
        BY DEF TreeShape
    <2>2. Cardinality(below(r)) \in D
        BY <2>1
    <2>3. ASSUME NEW j \in D PROVE j \in Nat
        BY <1>1, <2>3
    <2> QED
        BY <2>2, <2>3
<1>3. PICK m \in D : \A j \in D : m <= j
    BY <1>2, LeastOf
<1>4. PICK r \in DOMAIN t : m = Cardinality(below(r))
    OBVIOUS
<1>5. ASSUME t[r].kind = "split" PROVE FALSE
    <2> DEFINE c == Append(r, "a")
    <2>1. r \in Path /\ c \in DOMAIN t /\ c \in Path
        BY <1>5 DEF TreeShape
    <2>2. Layout!IsPrefix(r, c) /\ Len(c) = Len(r) + 1 /\ Len(r) \in Nat
        BY <2>1, ChildAt, LenProperties DEF Path
    <2> HIDE DEF c
    <2>3. below(c) \subseteq below(r)
        BY <2>1, <2>2, PrefixOrder DEF TreeShape
    <2>4. r \in below(r) /\ r \notin below(c)
        BY <2>1, <2>2, PrefixOrder, PrefixAt
    <2>5. Cardinality(below(r)) <= Cardinality(below(c))
        BY <1>3, <1>4, <2>1
    <2>6. Cardinality(below(c)) <= Cardinality(below(r)) /\ Cardinality(below(c)) # Cardinality(below(r))
        BY <1>1, <2>3, <2>4, FS_Subset
    <2> QED
        BY <1>1, <2>1, <2>5, <2>6
<1>6. r \in Layout!Leaves(t)
    BY <1>5 DEF Layout!Leaves, TreeShape, Node
<1> QED
    BY <1>6

(* The order of the leaves is total: two paths of which none is a prefix   *)
(* of the other differ somewhere, and first at one place.                  *)
LEMMA BeforeOrder ==
    ASSUME NEW p \in Path, NEW q \in Path, NEW r \in Path
    PROVE  /\ ~Layout!Before(p, p)
           /\ Layout!Before(p, q) /\ Layout!Before(q, r) => Layout!Before(p, r)
           /\ ~Layout!IsPrefix(p, q) /\ ~Layout!IsPrefix(q, p)
                => Layout!Before(p, q) \/ Layout!Before(q, p)
<1>1. /\ Len(p) \in Nat /\ Len(q) \in Nat /\ Len(r) \in Nat
      /\ \A i \in 1..Len(p) : p[i] \in {"a", "b"}
      /\ \A i \in 1..Len(q) : q[i] \in {"a", "b"}
    BY LenProperties, ElementOfSeq DEF Path
<1>2. ~Layout!Before(p, p)
    BY DEF Layout!Before
<1>3. ASSUME Layout!Before(p, q), Layout!Before(q, r) PROVE Layout!Before(p, r)
    <2>1. PICK i \in 1..Len(p) : /\ i <= Len(q) /\ p[i] = "a" /\ q[i] = "b"
                                 /\ \A j \in 1..(i - 1) : p[j] = q[j]
        BY <1>3 DEF Layout!Before
    <2>2. PICK k \in 1..Len(q) : /\ k <= Len(r) /\ q[k] = "a" /\ r[k] = "b"
                                 /\ \A j \in 1..(k - 1) : q[j] = r[j]
        BY <1>3 DEF Layout!Before
    <2>3. CASE i < k
        <3>1. i <= Len(r) /\ r[i] = "b" /\ \A j \in 1..(i - 1) : p[j] = r[j]
            BY <1>1, <2>1, <2>2, <2>3
        <3> QED
            BY <2>1, <3>1 DEF Layout!Before
    <2>4. CASE k < i
        <3>1. k \in 1..Len(p) /\ p[k] = "a" /\ \A j \in 1..(k - 1) : p[j] = r[j]
            BY <1>1, <2>1, <2>2, <2>4
        <3> QED
            BY <2>2, <3>1 DEF Layout!Before
    <2> QED
        BY <1>1, <2>1, <2>2, <2>3, <2>4
<1>4. ASSUME ~Layout!IsPrefix(p, q), ~Layout!IsPrefix(q, p)
      PROVE  Layout!Before(p, q) \/ Layout!Before(q, p)
    <2> DEFINE D == {i \in Nat : 1 <= i /\ i <= Len(p) /\ i <= Len(q) /\ p[i] # q[i]}
    <2>1. D # {}
        <3>1. SUFFICES ASSUME D = {} PROVE FALSE
            OBVIOUS
        <3>2. \A i \in 1..Len(p) : i <= Len(q) => p[i] = q[i]
            BY <1>1, <3>1
        <3>3. CASE Len(p) <= Len(q)
            BY <1>1, <1>4, <3>2, <3>3, PrefixAt
        <3>4. CASE Len(q) <= Len(p)
            BY <1>1, <1>4, <3>2, <3>4, PrefixAt
        <3> QED
            BY <1>1, <3>3, <3>4
    <2>2. PICK m \in D : \A j \in D : m <= j
        BY <2>1, LeastOf
    <2>3. \A j \in 1..(m - 1) : p[j] = q[j]
        BY <1>1, <2>2
    <2>4. /\ m \in 1..Len(p) /\ m \in 1..Len(q) /\ m <= Len(q) /\ m <= Len(p)
          /\ p[m] # q[m] /\ p[m] \in {"a", "b"} /\ q[m] \in {"a", "b"}
        BY <1>1, <2>2
    <2>5. CASE p[m] = "a"
        BY <2>3, <2>4, <2>5 DEF Layout!Before
    <2>6. CASE p[m] = "b"
        BY <2>3, <2>4, <2>6 DEF Layout!Before
    <2> QED
        BY <2>4, <2>5, <2>6
<1> QED
    BY <1>2, <1>3, <1>4

(* flattenLeaves: every leaf has its place, and every place its leaf.      *)
LEMMA FlattenPlaces ==
    ASSUME NEW t, TreeShape(t)
    PROVE  LET n == Layout!Cardinality(Layout!Leaves(t)) IN
           /\ n \in Nat \ {0} /\ Len(Layout!Flatten(t)) = n
           /\ \A i \in 1..n : \E p \in Layout!Leaves(t) : Layout!Flatten(t)[i] = t[p]
           /\ \A p \in Layout!Leaves(t) : \E i \in 1..n : Layout!Flatten(t)[i] = t[p]
<1> DEFINE L == Layout!Leaves(t)
           n == Cardinality(L)
           preds(p) == {q \in L : Layout!Before(q, p)}
           place == [p \in L |-> Cardinality(preds(p)) + 1]
<1>1. L \subseteq Path /\ IsFiniteSet(L) /\ n \in Nat \ {0}
    <2>1. L \subseteq DOMAIN t
        BY DEF Layout!Leaves
    <2>2. IsFiniteSet(L) /\ n \in Nat
        BY <2>1, FS_Subset, FS_CardinalityType DEF TreeShape
    <2>3. L # {}
        BY HasLeaf
    <2>4. n # 0
        BY <2>2, <2>3, FS_EmptySet
    <2> QED
        BY <2>1, <2>2, <2>4 DEF TreeShape
<1>2. \A p, q \in L : p # q => ~Layout!IsPrefix(p, q)
    BY <1>1 DEF TreeShape, Layout!Leaves
<1> HIDE DEF L
<1>3. /\ \A p \in L : ~Layout!Before(p, p)
      /\ \A p, q, r \in L : Layout!Before(p, q) /\ Layout!Before(q, r) => Layout!Before(p, r)
      /\ \A p, q \in L : p # q => Layout!Before(p, q) \/ Layout!Before(q, p)
    BY <1>1, <1>2, BeforeOrder
<1>4. ASSUME NEW p \in L
      PROVE  /\ IsFiniteSet(preds(p)) /\ Cardinality(preds(p)) \in Nat
             /\ Cardinality(preds(p)) < n
    <2>1. preds(p) \subseteq L /\ p \notin preds(p)
        BY <1>3
    <2> HIDE DEF preds
    <2>2. /\ IsFiniteSet(preds(p)) /\ Cardinality(preds(p)) <= n /\ Cardinality(preds(p)) # n
        BY <1>1, <2>1, FS_Subset
    <2>3. Cardinality(preds(p)) \in Nat
        BY <2>2, FS_CardinalityType
    <2> QED
        BY <1>1, <2>2, <2>3
<1>5. ASSUME NEW p \in L, NEW q \in L, Layout!Before(p, q)
      PROVE  Cardinality(preds(p)) < Cardinality(preds(q))
    <2>1. preds(p) \subseteq preds(q) /\ p \in preds(q) /\ p \notin preds(p)
        BY <1>3, <1>5
    <2>2. /\ IsFiniteSet(preds(q)) /\ Cardinality(preds(q)) \in Nat
          /\ Cardinality(preds(p)) \in Nat
        BY <1>4
    <2> HIDE DEF preds
    <2>3. /\ Cardinality(preds(p)) <= Cardinality(preds(q))
          /\ Cardinality(preds(p)) # Cardinality(preds(q))
        BY <2>1, <2>2, FS_Subset
    <2> QED
        BY <2>2, <2>3
<1>6. \A p \in L : place[p] \in 1..n
    BY <1>1, <1>4
<1>7. ASSUME NEW p \in L, NEW q \in L, place[p] = place[q] PROVE p = q
    <2>1. /\ Cardinality(preds(p)) \in Nat /\ Cardinality(preds(q)) \in Nat
        BY <1>4
    <2>2. ~Layout!Before(p, q) /\ ~Layout!Before(q, p)
        BY <1>5, <1>7, <2>1
    <2> QED
        BY <1>3, <2>2
<1>8. place \in Injection(L, 1..n)
    <2>1. place \in [L -> 1..n]
        BY <1>6
    <2> QED
        BY <1>7, <2>1 DEF Injection, IsInjective
<1>9. \A i \in 1..n : \E p \in L : place[p] = i
    <2>1. IsFiniteSet(1..n) /\ Cardinality(1..n) = n
        BY <1>1, FS_Interval
    <2>2. place \in Surjection(L, 1..n)
        BY <1>8, <2>1, FS_Injection
    <2> QED
        BY <2>2 DEF Surjection
<1>10. Layout!Flatten(t) = [i \in 1..n |-> t[CHOOSE p \in L : Cardinality(preds(p)) + 1 = i]]
    BY DEF Layout!Flatten, L, Layout!Cardinality, Cardinality
<1>11. \A p \in L : place[p] = Cardinality(preds(p)) + 1
    OBVIOUS
<1> HIDE DEF place
<1>12. ASSUME NEW i \in 1..n, NEW q \in L, place[q] = i
       PROVE  (CHOOSE p \in L : Cardinality(preds(p)) + 1 = i) = q
    BY <1>7, <1>11, <1>12
<1> HIDE DEF n, preds
<1>13. \A p \in L : Layout!Flatten(t)[place[p]] = t[p]
    BY <1>6, <1>10, <1>12
<1>14. Len(Layout!Flatten(t)) = n
    BY <1>1, <1>10
<1>15. /\ n \in Nat \ {0} /\ Len(Layout!Flatten(t)) = n
       /\ \A i \in 1..n : \E p \in L : Layout!Flatten(t)[i] = t[p]
       /\ \A p \in L : \E i \in 1..n : Layout!Flatten(t)[i] = t[p]
    BY <1>1, <1>6, <1>9, <1>13, <1>14
<1> QED
    BY <1>15, SameCardinality DEF n, L

(* The trees there are, the active pane in them and what is drawn of it.   *)
LayoutInv ==
    /\ GoodTree(v1) /\ v2 \in Layout!PanesOf(v1)
    /\ v3 \in [Users -> {"unused", "open", "gone"}]
    /\ ~v9 => v6 = Layout!Drawn(v1, v2, v3)

(* Whoever changes the tree has it drawn.                                  *)
LEMMA DrawingFollows ==
    ASSUME NEW t, NEW pane, NEW l \in [Users -> {"unused", "open", "gone"}],
           GoodTree(t), pane \in Layout!PanesOf(t), Layout!Draw(t, pane, l), v8' = v8
    PROVE  LayoutInv'
<1>1. v1' = t /\ v2' = pane /\ v3' = l /\ v6' = Layout!Drawn(t, pane, l)
    BY DEF Layout!Draw
<1>2. GoodTree(v1') /\ v2' \in Layout!PanesOf(v1') /\ v3' \in [Users -> {"unused", "open", "gone"}]
    BY <1>1
<1>3. GoodTree(v1)' /\ (v2 \in Layout!PanesOf(v1))'
    BY <1>2
       DEF GoodTree, TreeShape, PanesApart, SessionsApart, Layout!Leaves, Layout!PanesOf
<1>4. v6' = Layout!Drawn(v1, v2, v3)'
    BY <1>1 DEF Layout!Drawn, Layout!DrawnPanes, Layout!Compact, Layout!PanesOf, Layout!Leaves
<1> QED
    BY <1>2, <1>3, <1>4 DEF LayoutInv

(* A pane that is drawn is in the tree, and so is the first of the leaves. *)
LEMMA DrawnInTree ==
    ASSUME NEW t, GoodTree(t), NEW pane \in Layout!PanesOf(t)
    PROVE  Layout!DrawnPanes(t, pane) \subseteq Layout!PanesOf(t)
BY DEF Layout!DrawnPanes

(* Every entry of flattenLeaves is a pane of the tree.                     *)
LEMMA FlattenInTree ==
    ASSUME NEW t, GoodTree(t),
           NEW i \in 1..Layout!Cardinality(Layout!Leaves(t))
    PROVE  Layout!Flatten(t)[i].pane \in Layout!PanesOf(t)
<1>1. PICK p \in Layout!Leaves(t) : Layout!Flatten(t)[i] = t[p]
    BY FlattenPlaces DEF GoodTree
<1> QED
    BY <1>1 DEF Layout!PanesOf

(* The id a new pane is given is a pane's and not in the tree.             *)
LEMMA FreshPaneFresh ==
    ASSUME Layout!HasFreshPane
    PROVE  Layout!FreshPane \in Panes \ Layout!PanesOf(v1)
BY DEF Layout!HasFreshPane, Layout!FreshPane

(* A session is shown in a pane of the tree.                               *)
LEMMA ShowFollows ==
    ASSUME LayoutInv, NEW s \in Users, NEW pane \in Layout!PanesOf(v1),
           NEW l \in [Users -> {"unused", "open", "gone"}], Layout!Show(s, pane, l), v8' = v8
    PROVE  LayoutInv'
<1>1. /\ GoodTree(Layout!SetSession(v1, pane, s))
      /\ Layout!PanesOf(Layout!SetSession(v1, pane, s)) = Layout!PanesOf(v1)
    BY SetSessionGood DEF LayoutInv
<1> QED
    BY <1>1, DrawingFollows DEF Layout!Show

(* Sessions that are opened, shown, closed or picked.                      *)
LEMMA SessionsKeepLayout ==
    ASSUME LayoutInv,
           \/ \E s \in Users : \/ Layout!SwitchTo(s) \/ Layout!AddSession(s)
                               \/ Layout!RemoveSession(s) \/ Layout!RemoveAnswered(s)
                               \/ Layout!PickSession(s)
           \/ Layout!StepSession \/ Layout!PickNew
    PROVE  LayoutInv'
<1>0. /\ GoodTree(v1) /\ v2 \in Layout!PanesOf(v1)
      /\ v3 \in [Users -> {"unused", "open", "gone"}]
    BY DEF LayoutInv
<1>a. \A pane : Layout!Active(v1, pane) \in Layout!PanesOf(v1)
    BY <1>0 DEF Layout!Active
<1>1. ASSUME NEW s \in Users, Layout!SwitchTo(s) PROVE LayoutInv'
    BY <1>0, <1>1, ShowFollows DEF Layout!SwitchTo
<1>2. ASSUME NEW s \in Users, Layout!AddSession(s) PROVE LayoutInv'
    <2>1. [v3 EXCEPT ![s] = "open"] \in [Users -> {"unused", "open", "gone"}]
        BY <1>0
    <2> QED
        BY <1>0, <1>2, <2>1, ShowFollows DEF Layout!AddSession
<1>3. ASSUME NEW s \in Users, Layout!RemoveSession(s) PROVE LayoutInv'
    <2>1. /\ v3' = [v3 EXCEPT ![s] = "gone"] /\ v6' = v6 \ {s}
          /\ UNCHANGED <<v1, v2, v8, v9>>
        BY <1>3 DEF Layout!RemoveSession
    <2>2. /\ v3' \in [Users -> {"unused", "open", "gone"}]
          /\ {u \in Users : v3'[u] = "open"} = {u \in Users : v3[u] = "open"} \ {s}
        BY <1>0, <2>1
    <2> DEFINE X == {v1[p].session : p \in {q \in Layout!Leaves(v1) :
                                               v1[q].pane \in Layout!DrawnPanes(v1, v2)}}
    <2>a. /\ Layout!Drawn(v1, v2, v3) = X \cap {u \in Users : v3[u] = "open"}
          /\ Layout!Drawn(v1, v2, v3)' = X' \cap {u \in Users : v3'[u] = "open"}
        BY DEF Layout!Drawn
    <2>b. X' = X
        BY <2>1 DEF Layout!DrawnPanes, Layout!Compact, Layout!PanesOf, Layout!Leaves
    <2> HIDE DEF X
    <2>3. Layout!Drawn(v1, v2, v3)' = Layout!Drawn(v1, v2, v3) \ {s}
        BY <2>2, <2>a, <2>b
    <2>4. GoodTree(v1)' /\ (v2 \in Layout!PanesOf(v1))'
        BY <1>0, <2>1
           DEF GoodTree, TreeShape, PanesApart, SessionsApart, Layout!Leaves, Layout!PanesOf
    <2> QED
        BY <2>1, <2>2, <2>3, <2>4 DEF LayoutInv
<1>4. ASSUME NEW s \in Users, Layout!RemoveAnswered(s) PROVE LayoutInv'
    <2>1. CASE \E u \in Users : Layout!IsOpen(u)
        BY <1>0, <1>4, <2>1, ShowFollows DEF Layout!RemoveAnswered
    <2>2. CASE ~\E u \in Users : Layout!IsOpen(u)
        <3>1. /\ GoodTree(Layout!SetSession(v1, v2, NoSession))
              /\ v2 \in Layout!PanesOf(Layout!SetSession(v1, v2, NoSession))
            BY <1>0, SetSessionGood
        <3> QED
            BY <1>0, <1>4, <2>2, <3>1, DrawingFollows DEF Layout!RemoveAnswered
    <2> QED
        BY <2>1, <2>2
<1>5. ASSUME NEW s \in Users, Layout!PickSession(s) PROVE LayoutInv'
    BY <1>0, <1>a, <1>5, ShowFollows DEF Layout!PickSession
<1>6. CASE Layout!PickNew
    BY <1>0, <1>a, <1>6, DrawingFollows DEF Layout!PickNew
<1> QED
    BY <1>1, <1>2, <1>3, <1>4, <1>5, <1>6 DEF Layout!StepSession

(* Panes that are split, closed, dropped on or stepped to.                 *)
LEMMA PanesKeepLayout ==
    ASSUME LayoutInv,
           \/ \E pane \in Panes :
                 \/ Layout!SplitButton(pane) \/ Layout!CloseButton(pane)
                 \/ \E s \in Users : \/ Layout!DropCenter(pane, s)
                                     \/ \E newFirst \in BOOLEAN : Layout!DropEdge(pane, s, newFirst)
           \/ \E delta \in Int : Layout!StepActivePane(delta)
    PROVE  LayoutInv'
<1>0. /\ GoodTree(v1) /\ v2 \in Layout!PanesOf(v1)
      /\ v3 \in [Users -> {"unused", "open", "gone"}]
    BY DEF LayoutInv
<1>1. ASSUME NEW pane \in Panes, Layout!SplitButton(pane) PROVE LayoutInv'
    <2> DEFINE n == Layout!SplitPane(v1, pane, Layout!Leaf(Layout!FreshPane, NoSession), FALSE)
    <2>1. /\ pane \in Layout!PanesOf(v1) /\ Layout!FreshPane \in Panes \ Layout!PanesOf(v1)
          /\ Layout!Draw(n, Layout!FreshPane, v3) /\ v8' = v8
        BY <1>0, <1>1, DrawnInTree, FreshPaneFresh DEF Layout!SplitButton
    <2>2. ASSUME NEW b \in BOOLEAN
          PROVE  LET m == Layout!SplitPane(v1, pane, Layout!Leaf(Layout!FreshPane, NoSession), b)
                 IN  GoodTree(m) /\ Layout!FreshPane \in Layout!PanesOf(m)
        BY <1>0, <2>1, SplitPaneGood
    <2>3. GoodTree(n) /\ Layout!FreshPane \in Layout!PanesOf(n)
        BY <2>2
    <2> QED
        BY <1>0, <2>1, <2>3, DrawingFollows
<1>2. ASSUME NEW pane \in Panes, Layout!CloseButton(pane) PROVE LayoutInv'
    <2> DEFINE n == Layout!ClosePane(v1, pane)
    <2>1. Layout!Draw(n, Layout!ActiveAfterClose(n, v2), v3) /\ v8' = v8
        BY <1>2 DEF Layout!CloseButton
    <2>2. GoodTree(n)
        BY <1>0, ClosePaneGood
    <2> HIDE DEF n
    <2>3. 1 \in 1..Layout!Cardinality(Layout!Leaves(n))
        BY <2>2, FlattenPlaces DEF GoodTree
    <2>4. Layout!ActiveAfterClose(n, v2) \in Layout!PanesOf(n)
        BY <2>2, <2>3, FlattenInTree DEF Layout!ActiveAfterClose
    <2> QED
        BY <1>0, <2>1, <2>2, <2>4, DrawingFollows
<1>3. ASSUME NEW pane \in Panes, NEW s \in Users, Layout!DropCenter(pane, s) PROVE LayoutInv'
    <2>1. /\ GoodTree(Layout!SetSession(v1, pane, s))
          /\ v2 \in Layout!PanesOf(Layout!SetSession(v1, pane, s))
        BY <1>0, SetSessionGood
    <2> QED
        BY <1>0, <1>3, <2>1, DrawingFollows DEF Layout!DropCenter
<1>4. ASSUME NEW pane \in Panes, NEW s \in Users, NEW newFirst \in BOOLEAN,
             Layout!DropEdge(pane, s, newFirst)
      PROVE  LayoutInv'
    <2> DEFINE n == Layout!SplitPane(v1, pane, Layout!Leaf(Layout!FreshPane, NoSession), newFirst)
               m == Layout!SetSession(n, Layout!FreshPane, s)
    <2>1. /\ pane \in Layout!PanesOf(v1) /\ Layout!FreshPane \in Panes \ Layout!PanesOf(v1)
          /\ Layout!Draw(m, Layout!FreshPane, v3) /\ v8' = v8
        BY <1>4, FreshPaneFresh DEF Layout!DropEdge, Layout!Dropped
    <2>2. GoodTree(n) /\ Layout!FreshPane \in Layout!PanesOf(n)
        BY <1>0, <2>1, SplitPaneGood
    <2> HIDE DEF n
    <2>3. GoodTree(m) /\ Layout!FreshPane \in Layout!PanesOf(m)
        BY <2>2, SetSessionGood
    <2> HIDE DEF m
    <2> QED
        BY <1>0, <2>1, <2>3, DrawingFollows
<1>5. ASSUME NEW delta \in Int, Layout!StepActivePane(delta) PROVE LayoutInv'
    <2> DEFINE leaves == Layout!Flatten(v1)
               n == Layout!Cardinality(Layout!Leaves(v1))
               at == CHOOSE i \in 1..n : leaves[i].pane = v2
               to == ((at - 1 + delta) % n) + 1
    <2>1. /\ n \in Nat \ {0} /\ Len(leaves) = n
          /\ \A p \in Layout!Leaves(v1) : \E i \in 1..n : leaves[i] = v1[p]
        BY <1>0, FlattenPlaces DEF GoodTree
    <2>2. Layout!Draw(v1, leaves[to].pane, v3) /\ v8' = v8
        BY <1>5, <2>1 DEF Layout!StepActivePane
    <2>3. \E i \in 1..n : leaves[i].pane = v2
        BY <1>0, <2>1 DEF Layout!PanesOf
    <2> HIDE DEF n, leaves
    <2>4. at \in 1..n
        BY <2>3
    <2> HIDE DEF at
    <2>5. to \in 1..n
        BY <2>1, <2>4
    <2> HIDE DEF to
    <2>6. leaves[to].pane \in Layout!PanesOf(v1)
        BY <1>0, <2>5, FlattenInTree DEF n, leaves
    <2> QED
        BY <1>0, <2>2, <2>6, DrawingFollows
<1> QED
    BY <1>1, <1>2, <1>3, <1>4, <1>5

(* The picker and the window.                                              *)
LEMMA WindowKeepsLayout ==
    ASSUME LayoutInv,
           \/ \E pane \in Panes : Layout!OpenPicker(pane)
           \/ Layout!ClosePicker \/ \E c \in Caps : Layout!ResizeWindow(c)
           \/ Layout!Redraw
           \/ UNCHANGED <<v1, v2, v3, v4, v5, v6, v7, v8, v9>>
    PROVE  LayoutInv'
<1>0. /\ GoodTree(v1) /\ v2 \in Layout!PanesOf(v1)
      /\ v3 \in [Users -> {"unused", "open", "gone"}]
    BY DEF LayoutInv
<1>1. ASSUME UNCHANGED <<v1, v2, v3>>, v9' \/ UNCHANGED <<v6, v8, v9>>
      PROVE  LayoutInv'
    <2>1. GoodTree(v1)' /\ (v2 \in Layout!PanesOf(v1))'
        BY <1>0, <1>1
           DEF GoodTree, TreeShape, PanesApart, SessionsApart, Layout!Leaves, Layout!PanesOf
    <2>2. UNCHANGED <<v6, v8, v9>> => Layout!Drawn(v1, v2, v3)' = Layout!Drawn(v1, v2, v3)
        BY <1>1
           DEF Layout!Drawn, Layout!DrawnPanes, Layout!Compact, Layout!PanesOf, Layout!Leaves
    <2> QED
        BY <1>0, <1>1, <2>1, <2>2 DEF LayoutInv
<1>2. CASE Layout!Redraw
    BY <1>0, <1>2, DrawingFollows DEF Layout!Redraw
<1> QED
    BY <1>1, <1>2 DEF Layout!OpenPicker, Layout!ClosePicker, Layout!ResizeWindow

(* Every step of the panes leaves them as LayoutInv says.                  *)
LEMMA LayoutStep ==
    ASSUME LayoutInv, [Layout!LayoutNext]_<<v1, v2, v3, v4, v5, v6, v7, v8, v9>>
    PROVE  LayoutInv'
<1>1. ASSUME NEW delta \in Int, Layout!StepView(delta) PROVE LayoutInv'
    <2>1. Layout!StepActivePane(delta) \/ Layout!StepSession
        BY <1>1 DEF Layout!StepView
    <2> QED
        BY <2>1, SessionsKeepLayout, PanesKeepLayout
<1>2. ASSUME NEW s \in Users,
             \/ Layout!SwitchTo(s) \/ Layout!AddSession(s) \/ Layout!RemoveSession(s)
             \/ Layout!RemoveAnswered(s) \/ Layout!PickSession(s)
      PROVE  LayoutInv'
    BY <1>2, SessionsKeepLayout
<1>3. ASSUME NEW pane \in Panes,
             \/ Layout!SplitButton(pane) \/ Layout!CloseButton(pane)
             \/ \E s \in Users : \/ Layout!DropCenter(pane, s)
                                 \/ Layout!DropEdge(pane, s, TRUE)
                                 \/ Layout!DropEdge(pane, s, FALSE)
      PROVE  LayoutInv'
    <2>1. TRUE \in BOOLEAN /\ FALSE \in BOOLEAN
        OBVIOUS
    <2> QED
        BY <1>3, <2>1, PanesKeepLayout
<1>4. ASSUME \/ \E pane \in Panes : Layout!OpenPicker(pane)
             \/ Layout!ClosePicker \/ \E c \in Caps : Layout!ResizeWindow(c)
             \/ Layout!Redraw
             \/ UNCHANGED <<v1, v2, v3, v4, v5, v6, v7, v8, v9>>
      PROVE  LayoutInv'
    BY <1>4, WindowKeepsLayout
<1>5. CASE Layout!PickNew
    BY <1>5, SessionsKeepLayout
<1>6. 1 \in Int /\ -1 \in Int
    OBVIOUS
<1> QED
    BY <1>1, <1>2, <1>3, <1>4, <1>5, <1>6 DEF Layout!LayoutNext

(* The page begins with one empty pane, the active one.                    *)
LEMMA LayoutStart ==
    ASSUME Layout!LayoutInit
    PROVE  LayoutInv
<1> DEFINE first == Layout!MinOf(Panes)
           leaf == Layout!Leaf(first, NoSession)
<1>1. first \in Panes
    <2>1. \E x \in Panes : \A y \in Panes : x <= y
        BY PageAssumption, LeastOf
    <2> QED
        BY <2>1 DEF Layout!MinOf
<1>2. /\ v1 = [p \in {<<>>} |-> leaf] /\ v2 = first /\ v3 = [s \in Users |-> "unused"]
      /\ v6 = {}
    BY DEF Layout!LayoutInit
<1> HIDE DEF first
<1>3. leaf \in Node /\ leaf.kind = "leaf" /\ leaf.pane = first /\ leaf.session = NoSession
    BY <1>1 DEF Layout!Leaf, Node
<1> HIDE DEF leaf
<1>4. DOMAIN v1 = {<<>>} /\ v1[<<>>] = leaf /\ Layout!Leaves(v1) = {<<>>}
    BY <1>2, <1>3 DEF Layout!Leaves
<1>5. <<>> \in Path /\ Len(<<>>) = 0
    BY EmptySeq DEF Path
<1>6. \A u \in Path : Layout!IsPrefix(u, <<>>) => u = <<>>
    <2>1. \A u \in Path : Len(u) \in Nat
        BY LenProperties DEF Path
    <2>2. \A u \in Path : Layout!IsPrefix(u, <<>>) => Len(<<>>) <= Len(u)
        BY <1>5, <2>1
    <2> QED
        BY <1>5, <2>2, PrefixOrder
<1>7. TreeShape(v1)
    <2>1. IsFiniteSet(DOMAIN v1)
        BY <1>4, FS_Singleton
    <2>2. v1 \in [DOMAIN v1 -> Node]
        BY <1>2, <1>3
    <2> QED
        BY <1>3, <1>4, <1>5, <1>6, <2>1, <2>2 DEF TreeShape
<1>8. GoodTree(v1) /\ Layout!PanesOf(v1) = {first}
    BY <1>3, <1>4, <1>7 DEF GoodTree, PanesApart, SessionsApart, Layout!PanesOf
<1>9. v6 = Layout!Drawn(v1, v2, v3)
    BY <1>2 DEF Layout!Drawn
<1> QED
    BY <1>2, <1>8, <1>9 DEF LayoutInv

(* The panes are always as LayoutInv says.                                 *)
LEMMA LayoutAlways == PageSpec => [](part = "layout" => LayoutInv)
<1>1. PageInit => (part = "layout" => LayoutInv)
    BY LayoutStart DEF PageInit
<1>2. (part = "layout" => LayoutInv) /\ [PageNext]_pageVars => (part = "layout" => LayoutInv)'
    BY ViewPartSteps, LayoutStep
<1> QED
    BY <1>1, <1>2, PTL DEF PageSpec

(* tree.js:84: a session is in one pane at most, by whatever mixture of    *)
(* tabs, drops, picks and answers it got there: ShownOnce, for any         *)
(* sessions, panes and tree.                                               *)
THEOREM SessionsShownOnce == PageSpec => []ShownOnce
<1>1. (part = "layout" => LayoutInv) => ShownOnce
    BY DEF LayoutInv, GoodTree, SessionsApart, ShownOnce, Layout!ShownOnce
<1> QED
    BY <1>1, LayoutAlways, PTL

(* store.js, panes.js: the active pane is a leaf of the tree, whichever    *)
(* panes were closed while answers were out, and what is on the screen is  *)
(* what the tree says: ScreenFollowsTree.                                  *)
THEOREM ScreenShowsTree == PageSpec => []ScreenFollowsTree
<1>1. (part = "layout" => LayoutInv) => ScreenFollowsTree
    BY DEF LayoutInv, ScreenFollowsTree, Layout!ScreenFollowsTree
<1> QED
    BY <1>1, LayoutAlways, PTL

(* What is below a path is before and after the same paths as it is.       *)
LEMMA BeforeBelow ==
    ASSUME NEW u \in Path, NEW q \in Path, NEW r \in Path, Layout!IsPrefix(u, q)
    PROVE  /\ Layout!Before(u, r) => Layout!Before(q, r)
           /\ Layout!Before(r, u) => Layout!Before(r, q)
<1>1. /\ Len(u) \in Nat /\ Len(q) \in Nat /\ Len(r) \in Nat
      /\ Len(u) <= Len(q) /\ \A i \in 1..Len(u) : u[i] = q[i]
    BY LenProperties, PrefixAt DEF Path
<1>2. ASSUME Layout!Before(u, r) PROVE Layout!Before(q, r)
    <2>1. PICK i \in 1..Len(u) : /\ i <= Len(r) /\ u[i] = "a" /\ r[i] = "b"
                                 /\ \A j \in 1..(i - 1) : u[j] = r[j]
        BY <1>2 DEF Layout!Before
    <2>2. i \in 1..Len(q) /\ q[i] = "a" /\ \A j \in 1..(i - 1) : q[j] = r[j]
        BY <1>1, <2>1
    <2> QED
        BY <2>1, <2>2 DEF Layout!Before
<1>3. ASSUME Layout!Before(r, u) PROVE Layout!Before(r, q)
    <2>1. PICK i \in 1..Len(r) : /\ i <= Len(u) /\ r[i] = "a" /\ u[i] = "b"
                                 /\ \A j \in 1..(i - 1) : r[j] = u[j]
        BY <1>3 DEF Layout!Before
    <2>2. i <= Len(q) /\ q[i] = "b" /\ \A j \in 1..(i - 1) : r[j] = q[j]
        BY <1>1, <2>1
    <2> QED
        BY <2>1, <2>2 DEF Layout!Before
<1> QED
    BY <1>2, <1>3

(* A path that is not below u differs from those that are within u.        *)
LEMMA BeforeAbove ==
    ASSUME NEW u \in Path, NEW q \in Path, NEW r \in Path,
           Layout!IsPrefix(u, q), ~Layout!IsPrefix(u, r)
    PROVE  /\ Layout!Before(q, r) => Layout!Before(u, r)
           /\ Layout!Before(r, q) => Layout!Before(r, u)
<1>1. /\ Len(u) \in Nat /\ Len(q) \in Nat /\ Len(r) \in Nat
      /\ Len(u) <= Len(q) /\ \A i \in 1..Len(u) : u[i] = q[i]
    BY LenProperties, PrefixAt DEF Path
<1>2. ~(Len(u) <= Len(r) /\ \A i \in 1..Len(u) : u[i] = r[i])
    BY PrefixAt
<1>3. ASSUME Layout!Before(q, r) PROVE Layout!Before(u, r)
    <2>1. PICK i \in 1..Len(q) : /\ i <= Len(r) /\ q[i] = "a" /\ r[i] = "b"
                                 /\ \A j \in 1..(i - 1) : q[j] = r[j]
        BY <1>3 DEF Layout!Before
    <2>2. i <= Len(u)
        BY <1>1, <1>2, <2>1
    <2>3. i \in 1..Len(u) /\ u[i] = "a" /\ \A j \in 1..(i - 1) : u[j] = r[j]
        BY <1>1, <2>1, <2>2
    <2> QED
        BY <2>1, <2>3 DEF Layout!Before
<1>4. ASSUME Layout!Before(r, q) PROVE Layout!Before(r, u)
    <2>1. PICK i \in 1..Len(r) : /\ i <= Len(q) /\ r[i] = "a" /\ q[i] = "b"
                                 /\ \A j \in 1..(i - 1) : r[j] = q[j]
        BY <1>4 DEF Layout!Before
    <2>2. i <= Len(u)
        BY <1>1, <1>2, <2>1
    <2>3. u[i] = "b" /\ \A j \in 1..(i - 1) : r[j] = u[j]
        BY <1>1, <2>1, <2>2
    <2> QED
        BY <2>1, <2>2, <2>3 DEF Layout!Before
<1> QED
    BY <1>3, <1>4

(* Paths that move together keep their order.                              *)
LEMMA BeforeMoved ==
    ASSUME NEW u \in Path, NEW f \in Path, NEW q \in Path, NEW r \in Path,
           Layout!IsPrefix(f, q), Layout!IsPrefix(f, r), Layout!Before(q, r)
    PROVE  Layout!Before(Moved(u, f, q), Moved(u, f, r))
<1> DEFINE m == Moved(u, f, q)
           n == Moved(u, f, r)
<1>1. /\ Len(u) \in Nat /\ Len(f) \in Nat /\ Len(q) \in Nat /\ Len(r) \in Nat
      /\ Len(f) <= Len(q) /\ \A i \in 1..Len(f) : f[i] = q[i]
      /\ Len(f) <= Len(r) /\ \A i \in 1..Len(f) : f[i] = r[i]
    BY LenProperties, PrefixAt DEF Path
<1>a. ASSUME NEW x \in Path, Layout!IsPrefix(f, x)
      PROVE  LET y == Moved(u, f, x) IN
             /\ y \in Path /\ Len(y) = Len(u) + Len(x) - Len(f)
             /\ \A i \in 1..Len(u) : y[i] = u[i]
             /\ \A i \in (Len(u) + 1)..Len(y) : y[i] = x[i - Len(u) + Len(f)]
             /\ Layout!IsPrefix(u, y)
    BY <1>a, MovedAt, Zenon
<1>2. /\ Len(m) = Len(u) + Len(q) - Len(f)
      /\ \A i \in 1..Len(u) : m[i] = u[i]
      /\ \A i \in (Len(u) + 1)..Len(m) : m[i] = q[i - Len(u) + Len(f)]
    BY <1>a
<1>3. /\ Len(n) = Len(u) + Len(r) - Len(f)
      /\ \A i \in 1..Len(u) : n[i] = u[i]
      /\ \A i \in (Len(u) + 1)..Len(n) : n[i] = r[i - Len(u) + Len(f)]
    BY <1>a
<1> HIDE DEF m, n
<1>4. PICK i \in 1..Len(q) : /\ i <= Len(r) /\ q[i] = "a" /\ r[i] = "b"
                             /\ \A j \in 1..(i - 1) : q[j] = r[j]
    BY DEF Layout!Before
<1>5. i > Len(f)
    BY <1>1, <1>4
<1> DEFINE k == i - Len(f) + Len(u)
<1>6. /\ k \in (Len(u) + 1)..Len(m) /\ k \in (Len(u) + 1)..Len(n)
      /\ k \in 1..Len(m) /\ k <= Len(n) /\ k - Len(u) + Len(f) = i
    BY <1>1, <1>2, <1>3, <1>4, <1>5
<1> HIDE DEF k
<1>7. m[k] = "a" /\ n[k] = "b"
    BY <1>2, <1>3, <1>4, <1>6
<1>8. ASSUME NEW j \in 1..(k - 1) PROVE m[j] = n[j]
    <2>1. CASE j <= Len(u)
        BY <1>1, <1>2, <1>3, <1>8, <2>1
    <2>2. CASE j > Len(u)
        <3> DEFINE h == j - Len(u) + Len(f)
        <3>a. j \in Nat /\ k \in Nat /\ Len(u) + 1 <= j /\ j <= k - 1
            BY <1>1, <1>6, <1>8, <2>2
        <3>b. j \in (Len(u) + 1)..Len(m)
            BY <1>1, <1>6, <3>a
        <3>c. j \in (Len(u) + 1)..Len(n)
            BY <1>1, <1>6, <3>a
        <3>d. h \in 1..(i - 1)
            BY <1>1, <1>6, <3>a
        <3>1. /\ j \in (Len(u) + 1)..Len(m) /\ j \in (Len(u) + 1)..Len(n)
              /\ h \in 1..(i - 1)
            BY <3>b, <3>c, <3>d
        <3>2. m[j] = q[h] /\ n[j] = r[h]
            BY <1>2, <1>3, <3>1
        <3> QED
            BY <1>4, <3>1, <3>2
    <2> QED
        BY <1>1, <1>6, <2>1, <2>2
<1>9. Layout!Before(m, n)
    BY <1>6, <1>7, <1>8 DEF Layout!Before
<1> QED
    BY <1>9 DEF m, n

(* What KeepsPlace says of the tree n that takes the place of t.           *)
Kept(t, n) ==
    LET common == Layout!PanesOf(t) \cap Layout!PanesOf(n)
    IN  /\ Layout!Cardinality(Layout!PanesOf(t) \ common) <= 1
        /\ \A p, q \in common : Layout!Precedes(t, p, q) => Layout!Precedes(n, p, q)
        /\ \A p \in common :
              \/ Layout!SessionIn(n, p) = Layout!SessionIn(t, p)
              \/ /\ Layout!SessionIn(n, p) = NoSession
                 /\ Layout!Holding(n, Layout!SessionIn(t, p)) # {}

(* It follows from where each leaf of t is in n.                           *)
LEMMA KeptBy ==
    ASSUME NEW t, GoodTree(t), NEW n, GoodTree(n), NEW gone, NEW at,
           Layout!PanesOf(t) \subseteq Layout!PanesOf(n) \cup {gone},
           \A q \in Layout!Leaves(t) : t[q].pane \in Layout!PanesOf(n) =>
              /\ at[q] \in Layout!Leaves(n) /\ n[at[q]].pane = t[q].pane
              /\ \/ n[at[q]].session = t[q].session
                 \/ /\ n[at[q]].session = NoSession
                    /\ \E r \in Layout!Leaves(n) : n[r].session = t[q].session,
           \A q, r \in Layout!Leaves(t) :
              /\ t[q].pane \in Layout!PanesOf(n) /\ t[r].pane \in Layout!PanesOf(n)
              /\ Layout!Before(q, r)
              => Layout!Before(at[q], at[r])
    PROVE  Kept(t, n)
<1> DEFINE common == Layout!PanesOf(t) \cap Layout!PanesOf(n)
<1>1. Layout!Cardinality(Layout!PanesOf(t) \ common) <= 1
    <2> DEFINE lost == Layout!PanesOf(t) \ common
    <2>1. lost \subseteq {gone}
        OBVIOUS
    <2>2. IsFiniteSet({gone}) /\ Cardinality({gone}) = 1
        BY FS_Singleton
    <2> HIDE DEF lost
    <2>3. Cardinality(lost) <= 1
        BY <2>1, <2>2, FS_Subset
    <2> QED
        BY <2>3, SameCardinality DEF lost
<1>2. ASSUME NEW p \in common
      PROVE  /\ Layout!PathOf(t, p) \in Layout!Leaves(t) /\ t[Layout!PathOf(t, p)].pane = p
             /\ at[Layout!PathOf(t, p)] \in Layout!Leaves(n)
             /\ Layout!PathOf(n, p) = at[Layout!PathOf(t, p)]
    <2>1. Layout!PathOf(t, p) \in Layout!Leaves(t) /\ t[Layout!PathOf(t, p)].pane = p
        BY PathOfPane
    <2>2. /\ at[Layout!PathOf(t, p)] \in Layout!Leaves(n)
          /\ n[at[Layout!PathOf(t, p)]].pane = p
        BY <2>1
    <2> QED
        BY <2>1, <2>2, PathOfPane
<1>3. \A p, q \in common : Layout!Precedes(t, p, q) => Layout!Precedes(n, p, q)
    BY <1>2 DEF Layout!Precedes
<1>4. ASSUME NEW p \in common
      PROVE  \/ Layout!SessionIn(n, p) = Layout!SessionIn(t, p)
             \/ /\ Layout!SessionIn(n, p) = NoSession
                /\ Layout!Holding(n, Layout!SessionIn(t, p)) # {}
    <2> DEFINE q == Layout!PathOf(t, p)
    <2>1. /\ q \in Layout!Leaves(t) /\ t[q].pane = p /\ Layout!PathOf(n, p) = at[q]
          /\ Layout!SessionIn(t, p) = t[q].session /\ Layout!SessionIn(n, p) = n[at[q]].session
        BY <1>2 DEF Layout!SessionIn
    <2> HIDE DEF q
    <2>2. ASSUME NEW r \in Layout!Leaves(n), n[r].session = t[q].session
          PROVE  Layout!Holding(n, t[q].session) # {}
        <3>1. n[r].pane \in Layout!PanesOf(n) /\ Layout!PathOf(n, n[r].pane) = r
            BY PathOfPane
        <3>2. n[r].pane \in Layout!Holding(n, t[q].session)
            BY <2>2, <3>1 DEF Layout!Holding, Layout!SessionIn
        <3> QED
            BY <3>2
    <2> QED
        BY <2>1, <2>2
<1> QED
    <2> HIDE DEF common
    <2>1. /\ Layout!Cardinality(Layout!PanesOf(t) \ common) <= 1
          /\ \A p, q \in common : Layout!Precedes(t, p, q) => Layout!Precedes(n, p, q)
          /\ \A p \in common :
                \/ Layout!SessionIn(n, p) = Layout!SessionIn(t, p)
                \/ /\ Layout!SessionIn(n, p) = NoSession
                   /\ Layout!Holding(n, Layout!SessionIn(t, p)) # {}
        BY <1>1, <1>3, <1>4
    <2> QED
        BY <2>1 DEF Kept, common

(* splitPane keeps the panes where they are.                               *)
LEMMA SplitKeeps ==
    ASSUME NEW t, GoodTree(t), NEW pane \in Layout!PanesOf(t),
           NEW fresh \in Panes \ Layout!PanesOf(t), NEW newFirst \in BOOLEAN,
           NEW n, n = Layout!SplitPane(t, pane, Layout!Leaf(fresh, NoSession), newFirst)
    PROVE  /\ Kept(t, n)
           /\ \A s \in Users : Kept(t, Layout!SetSession(n, fresh, s))
<1> DEFINE p == Layout!PathOf(t, pane)
           old == Append(p, IF newFirst THEN "b" ELSE "a")
           new == Append(p, IF newFirst THEN "a" ELSE "b")
           at == [q \in Layout!Leaves(t) |-> IF q = p THEN old ELSE q]
<1>p. p \in Layout!Leaves(t) /\ Layout!Leaves(t) \subseteq Path
    BY PathOfPane DEF GoodTree, TreeShape, Layout!Leaves
<1>1. /\ GoodTree(n) /\ Layout!PanesOf(n) = Layout!PanesOf(t) \cup {fresh}
      /\ Layout!Leaves(n) = (Layout!Leaves(t) \ {p}) \cup {old, new}
      /\ n[old] = t[p] /\ n[new] = Layout!Leaf(fresh, NoSession)
      /\ \A q \in Layout!Leaves(t) \ {p} : n[q] = t[q]
    BY SplitPaneGood
<1>2. old \in Path /\ Layout!IsPrefix(p, old)
    BY <1>p, ChildAt
<1>3. n[new].pane = fresh
    BY <1>1 DEF Layout!Leaf
<1> HIDE DEF p, old, new
<1>4. \A q \in Layout!Leaves(t) : at[q] \in Layout!Leaves(n) /\ n[at[q]] = t[q]
    BY <1>1
<1>5. ASSUME NEW q \in Layout!Leaves(t), NEW r \in Layout!Leaves(t), Layout!Before(q, r)
      PROVE  Layout!Before(at[q], at[r])
    <2>0. p \in Path /\ q \in Path /\ r \in Path
        BY <1>p
    <2>1. CASE q = p /\ r = p
        BY <1>5, <2>0, <2>1, BeforeOrder
    <2>2. CASE q = p /\ r # p
        BY <1>2, <1>5, <2>0, <2>2, BeforeBelow
    <2>3. CASE q # p /\ r = p
        BY <1>2, <1>5, <2>0, <2>3, BeforeBelow
    <2>4. CASE q # p /\ r # p
        BY <1>5, <2>4
    <2> QED
        BY <2>1, <2>2, <2>3, <2>4
<1> HIDE DEF at
<1>6. Kept(t, n)
    BY <1>1, <1>4, <1>5, KeptBy
<1>7. ASSUME NEW s \in Users PROVE Kept(t, Layout!SetSession(n, fresh, s))
    <2> DEFINE m == Layout!SetSession(n, fresh, s)
    <2>1. /\ GoodTree(m)
          /\ Layout!Leaves(m) = Layout!Leaves(n) /\ Layout!PanesOf(m) = Layout!PanesOf(n)
          /\ \A q \in Layout!Leaves(n) :
                 /\ m[q].pane = n[q].pane
                 /\ m[q].session = IF n[q].pane = fresh THEN s
                                   ELSE IF n[q].session = s THEN NoSession ELSE n[q].session
        BY <1>1, SetSessionGood
    <2> HIDE DEF m
    <2>2. new \in Layout!Leaves(m) /\ m[new].session = s
        BY <1>1, <1>3, <2>1
    <2>3. ASSUME NEW q \in Layout!Leaves(t)
          PROVE  /\ at[q] \in Layout!Leaves(m) /\ m[at[q]].pane = t[q].pane
                 /\ \/ m[at[q]].session = t[q].session
                    \/ /\ m[at[q]].session = NoSession
                       /\ \E r \in Layout!Leaves(m) : m[r].session = t[q].session
        <3>1. at[q] \in Layout!Leaves(n) /\ n[at[q]] = t[q] /\ t[q].pane # fresh
            BY <1>4 DEF Layout!PanesOf
        <3> QED
            BY <2>1, <2>2, <3>1
    <2>4. Layout!PanesOf(t) \subseteq Layout!PanesOf(m) \cup {pane}
        BY <1>1, <2>1
    <2>5. Kept(t, m)
        BY <1>5, <2>1, <2>3, <2>4, KeptBy
    <2> QED
        BY <2>5 DEF m
<1> QED
    BY <1>6, <1>7

(* closePane takes one pane out and leaves the others where they are.      *)
LEMMA CloseKeeps ==
    ASSUME NEW t, GoodTree(t), NEW pane
    PROVE  LET n == Layout!ClosePane(t, pane)
           IN  Layout!PanesOf(n) = Layout!PanesOf(t) \/ Kept(t, n)
<1> DEFINE p == Layout!PathOf(t, pane)
<1>1. CASE pane \notin Layout!PanesOf(t)
    BY <1>1 DEF Layout!ClosePane
<1>2. CASE pane \in Layout!PanesOf(t) /\ p = <<>>
    <2> DEFINE n == [t EXCEPT ![<<>>].session = NoSession]
    <2>1. Layout!ClosePane(t, pane) = n
        BY <1>2 DEF Layout!ClosePane
    <2>2. t \in [DOMAIN t -> Node] /\ <<>> \in DOMAIN t
        BY DEF GoodTree, TreeShape
    <2>3. /\ DOMAIN n = DOMAIN t
          /\ \A q \in DOMAIN t : n[q].kind = t[q].kind /\ n[q].pane = t[q].pane
        BY <2>2 DEF Node
    <2> HIDE DEF n
    <2>4. Layout!PanesOf(n) = Layout!PanesOf(t)
        BY <2>3 DEF Layout!Leaves, Layout!PanesOf
    <2> QED
        BY <2>1, <2>4
<1>3. CASE pane \in Layout!PanesOf(t) /\ p # <<>>
    <2> DEFINE up == Layout!Front(p)
               from == Layout!Sibling(p)
               n == Layout!Promote(t, up, from)
               at == [q \in Layout!Leaves(t) |->
                         IF Layout!IsPrefix(from, q) THEN Moved(up, from, q) ELSE q]
    <2>1. Layout!ClosePane(t, pane) = n
        BY <1>3 DEF Layout!ClosePane
    <2>2. /\ TreeShape(t) /\ DOMAIN t \subseteq Path /\ p \in Layout!Leaves(t)
          /\ t[p].pane = pane /\ Layout!Leaves(t) \subseteq Path
        BY <1>3, PathOfPane DEF GoodTree, TreeShape, Layout!Leaves
    <2>3. /\ up \in DOMAIN t /\ from \in DOMAIN t /\ Layout!IsPrefix(up, from)
          /\ \A q \in Layout!Leaves(t) \ {p} :
                Layout!IsPrefix(up, q) => Layout!IsPrefix(from, q)
          /\ Layout!IsPrefix(up, p) /\ ~Layout!IsPrefix(from, p)
        BY <1>3, <2>2, ParentAndSibling
    <2>4. GoodTree(n)
        BY <2>1, ClosePaneGood
    <2> HIDE DEF up, from, p
    <2>p. up \in Path /\ from \in Path /\ p \in Path
        BY <2>2, <2>3
    <2>5. /\ \A q \in DOMAIN n : ~Layout!IsPrefix(up, q) => q \in DOMAIN t /\ n[q] = t[q]
          /\ \A q \in DOMAIN n : Layout!IsPrefix(up, q) =>
                 /\ Moved(from, up, q) \in DOMAIN t
                 /\ Layout!IsPrefix(from, Moved(from, up, q))
                 /\ n[q] = t[Moved(from, up, q)]
          /\ \A r \in DOMAIN t : ~Layout!IsPrefix(up, r) => r \in DOMAIN n
          /\ \A r \in DOMAIN t : Layout!IsPrefix(from, r) => Moved(up, from, r) \in DOMAIN n
        BY <2>2, <2>3, <2>p, PromoteMap
    <2> HIDE DEF n
    <2>6. ASSUME NEW q \in Layout!Leaves(n) PROVE n[q].pane # pane
        <3>1. q \in DOMAIN n /\ n[q].kind = "leaf"
            BY DEF Layout!Leaves
        <3>2. CASE Layout!IsPrefix(up, q)
            <4> DEFINE r == Moved(from, up, q)
            <4>1. r \in DOMAIN t /\ Layout!IsPrefix(from, r) /\ n[q] = t[r]
                BY <2>5, <3>1, <3>2
            <4> HIDE DEF r
            <4>2. r \in Layout!Leaves(t) /\ r # p
                BY <2>3, <3>1, <4>1 DEF Layout!Leaves
            <4> QED
                BY <2>2, <4>1, <4>2 DEF GoodTree, PanesApart
        <3>3. CASE ~Layout!IsPrefix(up, q)
            <4>1. q \in Layout!Leaves(t) /\ q # p /\ n[q] = t[q]
                BY <2>3, <2>5, <3>1, <3>3 DEF Layout!Leaves
            <4> QED
                BY <2>2, <4>1 DEF GoodTree, PanesApart
        <3> QED
            BY <3>2, <3>3
    <2>7. ASSUME NEW q \in Layout!Leaves(t), t[q].pane \in Layout!PanesOf(n)
          PROVE  q # p
        BY <2>2, <2>6, <2>7 DEF Layout!PanesOf
    <2>8. ASSUME NEW q \in Layout!Leaves(t) \ {p}
          PROVE  at[q] \in Layout!Leaves(n) /\ n[at[q]] = t[q]
        <3>1. q \in DOMAIN t /\ q \in Path /\ t[q].kind = "leaf"
            BY <2>2 DEF Layout!Leaves
        <3>2. CASE Layout!IsPrefix(from, q)
            <4> DEFINE m == Moved(up, from, q)
            <4>1. /\ Layout!IsPrefix(up, m) /\ m \in DOMAIN n /\ Moved(from, up, m) = q
                BY <2>5, <2>p, <3>1, <3>2, MovedAt, MovedBack
            <4>2. at[q] = m
                BY <3>2
            <4> HIDE DEF m, at
            <4>3. n[m] = t[q]
                BY <2>5, <4>1
            <4> QED
                BY <3>1, <4>1, <4>2, <4>3 DEF Layout!Leaves
        <3>3. CASE ~Layout!IsPrefix(from, q)
            <4>1. q \in DOMAIN n /\ n[q] = t[q]
                BY <2>3, <2>5, <3>1, <3>3
            <4>2. at[q] = q
                BY <3>3
            <4> QED
                BY <3>1, <4>1, <4>2 DEF Layout!Leaves
        <3> QED
            BY <3>2, <3>3
    <2>9. ASSUME NEW q \in Layout!Leaves(t) \ {p}, NEW r \in Layout!Leaves(t) \ {p},
                 Layout!Before(q, r)
          PROVE  Layout!Before(at[q], at[r])
        <3>0. q \in Path /\ r \in Path
            BY <2>2
        <3>a. ASSUME NEW x \in Layout!Leaves(t) \ {p}
              PROVE  Layout!IsPrefix(from, x) <=> Layout!IsPrefix(up, x)
            <4>1. x \in Path
                BY <2>2
            <4> QED
                BY <2>3, <2>p, <4>1, PrefixOrder
        <3>b. ASSUME NEW x \in Path, Layout!IsPrefix(from, x)
              PROVE  Moved(up, from, x) \in Path /\ Layout!IsPrefix(up, Moved(up, from, x))
            BY <2>p, <3>b, MovedAt
        <3>1. CASE Layout!IsPrefix(from, q) /\ Layout!IsPrefix(from, r)
            BY <2>9, <2>p, <3>0, <3>1, BeforeMoved
        <3>2. CASE Layout!IsPrefix(from, q) /\ ~Layout!IsPrefix(from, r)
            <4> DEFINE m == Moved(up, from, q)
            <4>1. Layout!IsPrefix(up, q) /\ ~Layout!IsPrefix(up, r)
                BY <3>2, <3>a
            <4>2. Layout!Before(up, r)
                BY <2>9, <2>p, <3>0, <4>1, BeforeAbove
            <4>3. m \in Path /\ Layout!IsPrefix(up, m) /\ at[q] = m /\ at[r] = r
                BY <3>0, <3>2, <3>b
            <4> HIDE DEF m, at
            <4>4. Layout!Before(m, r)
                BY <2>p, <3>0, <4>2, <4>3, BeforeBelow
            <4> QED
                BY <4>3, <4>4
        <3>3. CASE ~Layout!IsPrefix(from, q) /\ Layout!IsPrefix(from, r)
            <4> DEFINE m == Moved(up, from, r)
            <4>1. ~Layout!IsPrefix(up, q) /\ Layout!IsPrefix(up, r)
                BY <3>3, <3>a
            <4>2. Layout!Before(q, up)
                BY <2>9, <2>p, <3>0, <4>1, BeforeAbove
            <4>3. m \in Path /\ Layout!IsPrefix(up, m) /\ at[r] = m /\ at[q] = q
                BY <3>0, <3>3, <3>b
            <4> HIDE DEF m, at
            <4>4. Layout!Before(q, m)
                BY <2>p, <3>0, <4>2, <4>3, BeforeBelow
            <4> QED
                BY <4>3, <4>4
        <3>4. CASE ~Layout!IsPrefix(from, q) /\ ~Layout!IsPrefix(from, r)
            BY <2>9, <3>4
        <3> QED
            BY <3>1, <3>2, <3>3, <3>4
    <2> HIDE DEF at
    <2>10. Layout!PanesOf(t) \subseteq Layout!PanesOf(n) \cup {pane}
        <3>1. \A q \in Layout!Leaves(t) \ {p} : t[q].pane \in Layout!PanesOf(n)
            BY <2>8 DEF Layout!PanesOf
        <3> QED
            BY <2>2, <3>1 DEF Layout!PanesOf
    <2>11. \A q \in Layout!Leaves(t) : t[q].pane \in Layout!PanesOf(n) =>
              /\ at[q] \in Layout!Leaves(n) /\ n[at[q]].pane = t[q].pane
              /\ n[at[q]].session = t[q].session
        BY <2>7, <2>8
    <2>12. \A q, r \in Layout!Leaves(t) :
              /\ t[q].pane \in Layout!PanesOf(n) /\ t[r].pane \in Layout!PanesOf(n)
              /\ Layout!Before(q, r)
              => Layout!Before(at[q], at[r])
        BY <2>7, <2>9
    <2>13. Kept(t, n)
        BY <2>4, <2>10, <2>11, <2>12, KeptBy
    <2> QED
        BY <2>1, <2>13
<1> QED
    BY <1>1, <1>2, <1>3

(* Every step of the panes either keeps the set of panes or keeps them     *)
(* where they are.                                                         *)
LEMMA LayoutStepKeeps ==
    ASSUME LayoutInv, [Layout!LayoutNext]_<<v1, v2, v3, v4, v5, v6, v7, v8, v9>>
    PROVE  Layout!PanesOf(v1') = Layout!PanesOf(v1) \/ Kept(v1, v1')
<1>0. GoodTree(v1)
    BY DEF LayoutInv
<1>1. ASSUME NEW pane \in Panes, Layout!SplitButton(pane) PROVE Kept(v1, v1')
    <2>1. /\ pane \in Layout!PanesOf(v1) /\ Layout!FreshPane \in Panes \ Layout!PanesOf(v1)
          /\ v1' = Layout!SplitPane(v1, pane, Layout!Leaf(Layout!FreshPane, NoSession), FALSE)
        BY <1>0, <1>1, DrawnInTree, FreshPaneFresh DEF Layout!SplitButton, Layout!Draw, LayoutInv
    <2>2. ASSUME NEW b \in BOOLEAN
          PROVE  Kept(v1, Layout!SplitPane(v1, pane, Layout!Leaf(Layout!FreshPane, NoSession), b))
        BY <1>0, <2>1, SplitKeeps
    <2> QED
        BY <2>1, <2>2
<1>2. ASSUME NEW pane \in Panes, NEW s \in Users, NEW newFirst \in BOOLEAN,
             Layout!DropEdge(pane, s, newFirst)
      PROVE  Kept(v1, v1')
    <2>1. /\ pane \in Layout!PanesOf(v1) /\ Layout!FreshPane \in Panes \ Layout!PanesOf(v1)
          /\ v1' = Layout!SetSession(Layout!SplitPane(v1, pane,
                       Layout!Leaf(Layout!FreshPane, NoSession), newFirst), Layout!FreshPane, s)
        BY <1>2, FreshPaneFresh DEF Layout!DropEdge, Layout!Dropped, Layout!Draw
    <2> QED
        BY <1>0, <2>1, SplitKeeps
<1>3. ASSUME NEW pane \in Panes, Layout!CloseButton(pane)
      PROVE  Layout!PanesOf(v1') = Layout!PanesOf(v1) \/ Kept(v1, v1')
    <2>1. v1' = Layout!ClosePane(v1, pane)
        BY <1>3 DEF Layout!CloseButton, Layout!Draw
    <2> QED
        BY <1>0, <2>1, CloseKeeps
<1>4. ASSUME NEW pane, NEW s \in Users \cup {NoSession},
             v1' = Layout!SetSession(v1, pane, s)
      PROVE  Layout!PanesOf(v1') = Layout!PanesOf(v1)
    BY <1>0, <1>4, SetSessionGood
<1>5. ASSUME NEW s \in Users,
             \/ Layout!SwitchTo(s) \/ Layout!AddSession(s) \/ Layout!RemoveAnswered(s)
             \/ Layout!PickSession(s) \/ \E pane \in Panes : Layout!DropCenter(pane, s)
      PROVE  Layout!PanesOf(v1') = Layout!PanesOf(v1)
    <2>1. \E pane, u : u \in Users \cup {NoSession} /\ v1' = Layout!SetSession(v1, pane, u)
        BY <1>5 DEF Layout!SwitchTo, Layout!AddSession, Layout!RemoveAnswered,
                    Layout!PickSession, Layout!DropCenter, Layout!Show, Layout!Draw
    <2> QED
        BY <1>4, <2>1
<1>6. ASSUME \/ \E s \in Users : Layout!RemoveSession(s)
             \/ \E pane \in Panes : Layout!OpenPicker(pane)
             \/ Layout!PickNew \/ Layout!ClosePicker \/ Layout!Redraw
             \/ \E c \in Caps : Layout!ResizeWindow(c)
             \/ \E delta : Layout!StepActivePane(delta)
             \/ UNCHANGED <<v1, v2, v3, v4, v5, v6, v7, v8, v9>>
      PROVE  v1' = v1
    BY <1>6 DEF Layout!RemoveSession, Layout!OpenPicker, Layout!PickNew, Layout!ClosePicker,
                Layout!Redraw, Layout!ResizeWindow, Layout!StepActivePane, Layout!Draw
<1>7. ASSUME NEW delta, Layout!StepView(delta)
      PROVE  Layout!PanesOf(v1') = Layout!PanesOf(v1)
    <2>1. Layout!StepActivePane(delta) \/ \E s \in Users : Layout!SwitchTo(s)
        BY <1>7 DEF Layout!StepView, Layout!StepSession
    <2> QED
        BY <1>5, <1>6, <2>1
<1>8. TRUE \in BOOLEAN /\ FALSE \in BOOLEAN
    OBVIOUS
<1> QED
    BY <1>1, <1>2, <1>3, <1>5, <1>6, <1>7, <1>8 DEF Layout!LayoutNext

(* tree.js: splitting and closing panes leaves the others where they are:  *)
(* PanesKeepPlace, for any tree and any way the panes come and go.         *)
THEOREM PanesStayPut == PageSpec => PanesKeepPlace
<1>1. (part = "layout" => LayoutInv) /\ [PageNext]_pageVars
        => [part = "layout" => Layout!KeepsPlace]_pageVars
    <2> SUFFICES ASSUME part = "layout" => LayoutInv, [PageNext]_pageVars, part = "layout"
                 PROVE  Layout!KeepsPlace
        OBVIOUS
    <2>1. Layout!PanesOf(v1') = Layout!PanesOf(v1) \/ Kept(v1, v1')
        BY ViewPartSteps, LayoutStepKeeps
    <2> QED
        BY <2>1 DEF Kept, Layout!KeepsPlace
<1> QED
    BY <1>1, LayoutAlways, PTL DEF PageSpec, PanesKeepPlace

-----------------------------------------------------------------------------
(* The code viewer's pane: v4 is total, v8 log, v9 logAsks.                *)

(* The log goes on where the page that is asked for starts, or before it:  *)
(* one page at most is asked for the log that is shown, and while it is    *)
(* there is no button to ask for another.                                  *)
LogTyped ==
    /\ v4 \in Nat
    /\ v8 \in [commits : Seq(Int), more : Nat \cup {-1}]
    /\ v9 \subseteq [skip : Nat, here : BOOLEAN]
OneAsk == \A a, b \in v9 : a.here /\ b.here => a = b
MayFollow(c, skip) == c = <<>> \/ c[Len(c)] <= v4 - skip + 1
NextFits ==
    /\ v8.more # -1 => MayFollow(v8.commits, v8.more)
    /\ \A a \in v9 : a.here => v8.more = -1 /\ MayFollow(v8.commits, a.skip)
LogInv == LogTyped /\ OneAsk /\ NextFits /\ Pane!LogNoGap

(* A pane that is emptied has no log, and of the pages that are asked for  *)
(* the first one at most is for it.                                        *)
LEMMA EmptiedLog ==
    ASSUME LogInv, v8' = Pane!NoLog, v4' \in Nat,
           v9' \in {Pane!Away, Pane!Away \cup {[skip |-> 0, here |-> TRUE]}}
    PROVE  LogInv'
<1>1. v8'.commits = <<>> /\ v8'.more = -1
    BY DEF Pane!NoLog, Pane!NoMore
<1>2. \A a \in v9' : a = [skip |-> 0, here |-> TRUE] \/ \E b \in v9 : a = [b EXCEPT !.here = FALSE]
    BY DEF Pane!Away
<1>3. \A b \in v9 : /\ [b EXCEPT !.here = FALSE] \in [skip : Nat, here : BOOLEAN]
                    /\ [b EXCEPT !.here = FALSE].here = FALSE
    BY DEF LogInv, LogTyped
<1>n. /\ [skip |-> 0, here |-> TRUE] \in [skip : Nat, here : BOOLEAN]
      /\ [skip |-> 0, here |-> TRUE].skip = 0
    OBVIOUS
<1>4. v9' \subseteq [skip : Nat, here : BOOLEAN] /\ \A a \in v9' : a = [skip |-> 0, here |-> TRUE] \/ a.here = FALSE
    BY <1>2, <1>3, <1>n
<1>5. Len(v8'.commits) = 0 /\ v8' \in [commits : Seq(Int), more : Nat \cup {-1}]
    BY <1>1 DEF Pane!NoLog, Pane!NoMore
<1>6. LogTyped' /\ OneAsk'
    BY <1>4, <1>5 DEF LogTyped, OneAsk
<1>8. NextFits'
    BY <1>1, <1>4 DEF NextFits, MayFollow
<1>7. Pane!LogNoGap'
    BY <1>5 DEF Pane!LogNoGap
<1> QED
    BY <1>6, <1>7, <1>8 DEF LogInv

(* Its button asks for the page after what is shown.                       *)
LEMMA MoreFits ==
    ASSUME LogInv, Pane!More
    PROVE  LogInv'
<1>1. /\ v8.more # -1 /\ v4' = v4
      /\ v9' = v9 \cup {[skip |-> v8.more, here |-> TRUE]}
      /\ v8' = [v8 EXCEPT !.more = -1]
    BY DEF Pane!More, Pane!NoMore
<1>2. v8'.commits = v8.commits /\ v8'.more = -1
    BY <1>1 DEF LogInv, LogTyped
<1>3. v8.more \in Nat /\ \A a \in v9 : ~a.here
    <2>1. v8.more \in Nat \cup {-1}
        BY DEF LogInv, LogTyped
    <2>2. \A a \in v9 : a.here => v8.more = -1
        BY DEF LogInv, NextFits
    <2> QED
        BY <1>1, <2>1, <2>2
<1>4. LogTyped' /\ OneAsk'
    <2>1. v8' \in [commits : Seq(Int), more : Nat \cup {-1}]
        BY <1>1 DEF LogInv, LogTyped
    <2>2. v9' \subseteq [skip : Nat, here : BOOLEAN]
        <3>1. [skip |-> v8.more, here |-> TRUE] \in [skip : Nat, here : BOOLEAN]
            BY <1>3
        <3>2. v9 \subseteq [skip : Nat, here : BOOLEAN]
            BY DEF LogInv, LogTyped
        <3> QED
            BY <1>1, <3>1, <3>2
    <2>3. \A a \in v9' : a.here => a = [skip |-> v8.more, here |-> TRUE]
        BY <1>1, <1>3
    <2> QED
        BY <1>1, <2>1, <2>2, <2>3 DEF LogInv, LogTyped, OneAsk
<1>5. NextFits'
    BY <1>1, <1>2, <1>3 DEF LogInv, LogTyped, NextFits, MayFollow
<1> QED
    BY <1>2, <1>4, <1>5 DEF LogInv, Pane!LogNoGap

(* A page has the commits from the one after its skip on, without a gap,   *)
(* and no page starts after the one that follows it.                       *)
LEMMA PageHasNoGap ==
    ASSUME v4 \in Nat, NEW skip \in Nat, skip < v4
    PROVE  LET page == Pane!PageOf(skip)
           IN  /\ page \in Seq(Int) /\ Len(page) \in Nat \ {0}
               /\ \A k \in 1..Len(page) : page[k] = v4 - skip - k + 1
               /\ skip + Page < v4 => Len(page) = Page
<1> DEFINE n == IF v4 - skip < Page THEN v4 - skip ELSE Page
<1>1. n \in Nat \ {0} /\ (skip + Page < v4 => n = Page)
    BY PageAssumption
<1>2. Pane!PageOf(skip) = [k \in 1..n |-> v4 - skip - k + 1]
    BY DEF Pane!PageOf, Pane!Commits
<1> HIDE DEF n
<1>3. /\ [k \in 1..n |-> v4 - skip - k + 1] \in Seq(Int)
      /\ Len([k \in 1..n |-> v4 - skip - k + 1]) = n
    BY <1>1
<1> QED
    BY <1>1, <1>2, <1>3

(* It goes on where the log ended, or before.                              *)
LEMMA AnswerFits ==
    ASSUME LogInv, NEW a \in v9, Pane!LogAnswered(a)
    PROVE  LogInv'
<1> DEFINE page == Pane!PageOf(a.skip)
           all == v8.commits \o page
           next == IF a.skip + Page < v4 THEN a.skip + Len(page) ELSE -1
<1>1. /\ v9' = v9 \ {a} /\ v4' = v4
      /\ v8' = IF ~a.here \/ page = <<>> THEN v8 ELSE [commits |-> all, more |-> next]
    BY DEF Pane!LogAnswered, Pane!ForShown, Pane!NextSkip, Pane!NoMore
<1>2. v4 \in Nat /\ a.skip \in Nat /\ v8.commits \in Seq(Int)
    BY DEF LogInv, LogTyped
<1>3. CASE v8' = v8
    BY <1>1, <1>3 DEF LogInv, LogTyped, OneAsk, NextFits, MayFollow, Pane!LogNoGap
<1>4. CASE v8' # v8
    <2>1. a.here /\ v8'.commits = all /\ v8'.more = next
        BY <1>1, <1>4
    <2>2. a.skip < v4
        BY <1>1, <1>4 DEF Pane!PageOf
    <2>3. /\ page \in Seq(Int) /\ Len(page) \in Nat \ {0}
          /\ \A k \in 1..Len(page) : page[k] = v4 - a.skip - k + 1
          /\ a.skip + Page < v4 => Len(page) = Page
        BY <1>2, <2>2, PageHasNoGap
    <2>4. v8.commits = <<>> \/ v8.commits[Len(v8.commits)] <= v4 - a.skip + 1
        BY <2>1 DEF LogInv, NextFits, MayFollow
    <2>5. \A b \in v9' : ~b.here
        BY <1>1, <2>1 DEF LogInv, OneAsk
    <2> HIDE DEF page
    <2>6. /\ all \in Seq(Int) /\ Len(all) = Len(v8.commits) + Len(page)
          /\ \A k \in 1..(Len(v8.commits) + Len(page)) :
                all[k] = IF k <= Len(v8.commits) THEN v8.commits[k]
                         ELSE page[k - Len(v8.commits)]
        BY <1>2, <2>3, ConcatProperties
    <2>7. next \in Nat \cup {-1}
        BY <1>2, <2>3
    <2>8. all[Len(all)] = v4 - a.skip - Len(page) + 1
        <3>1. Len(v8.commits) \in Nat
            BY <1>2
        <3> QED
            BY <1>2, <2>3, <2>6, <3>1
    <2>9. next # -1 => all[Len(all)] <= v4 - next + 1
        BY <1>2, <2>3, <2>8
    <2>10. \A k \in 1..(Len(all) - 1) : all[k + 1] >= all[k] - 1
        <3> SUFFICES ASSUME NEW k \in 1..(Len(all) - 1) PROVE all[k + 1] >= all[k] - 1
            OBVIOUS
        <3> DEFINE m == Len(v8.commits)
                   old == v8.commits
        <3>1. m \in Nat /\ \A j \in 1..m : old[j] \in Int
            BY <1>2
        <3>2. \A j \in 1..(m - 1) : old[j + 1] >= old[j] - 1
            BY DEF LogInv, Pane!LogNoGap
        <3>3. old = <<>> => m = 0
            OBVIOUS
        <3>4. m # 0 => old[m] <= v4 - a.skip + 1
            BY <2>4, <3>1, <3>3
        <3> HIDE DEF m, old, all
        <3>5. /\ Len(all) = m + Len(page)
              /\ \A j \in 1..(m + Len(page)) : all[j] = IF j <= m THEN old[j] ELSE page[j - m]
            BY <2>6 DEF m, old
        <3>a. k \in Int /\ k >= 1 /\ k < m + Len(page)
            BY <2>3, <3>1, <3>5
        <3>b. /\ all[k] = IF k <= m THEN old[k] ELSE page[k - m]
              /\ all[k + 1] = IF k + 1 <= m THEN old[k + 1] ELSE page[k + 1 - m]
            BY <2>3, <3>1, <3>5, <3>a
        <3>6. CASE k < m
            <4>1. old[k + 1] >= old[k] - 1
                BY <3>1, <3>2, <3>6, <3>a
            <4> QED
                BY <3>1, <3>6, <3>a, <3>b, <4>1
        <3>7. CASE k = m
            <4>1. all[k] = old[m] /\ all[k + 1] = page[1] /\ old[m] \in Int
                BY <3>1, <3>7, <3>a, <3>b
            <4>2. page[1] = v4 - a.skip
                BY <1>2, <2>3
            <4> QED
                BY <1>2, <3>1, <3>4, <3>7, <3>a, <4>1, <4>2
        <3>8. CASE k > m
            <4>1. page[k - m] = v4 - a.skip - (k - m) + 1
                BY <2>3, <3>1, <3>8, <3>a
            <4>2. page[k + 1 - m] = v4 - a.skip - (k + 1 - m) + 1
                BY <2>3, <3>1, <3>8, <3>a
            <4> QED
                BY <1>2, <3>1, <3>8, <3>a, <3>b, <4>1, <4>2
        <3> QED
            BY <3>1, <3>6, <3>7, <3>8, <3>a
    <2> HIDE DEF next, all
    <2>11. LogTyped' /\ OneAsk'
        BY <1>1, <2>1, <2>5, <2>6, <2>7 DEF LogInv, LogTyped, OneAsk
    <2>12. NextFits'
        BY <1>1, <2>1, <2>5, <2>9 DEF NextFits, MayFollow
    <2>13. Pane!LogNoGap'
        BY <2>1, <2>10 DEF Pane!LogNoGap
    <2> QED
        BY <2>11, <2>12, <2>13 DEF LogInv
<1> QED
    BY <1>3, <1>4

(* The steps that do not touch the log, while commits are added.           *)
LEMMA LogUntouched ==
    ASSUME LogInv, v8' = v8, v9' \subseteq v9, v4' \in Nat, v4' >= v4
    PROVE  LogInv'
<1>1. \A skip \in Nat : MayFollow(v8.commits, skip) => (MayFollow(v8.commits, skip))'
    <2>1. v8.commits # <<>> => v8.commits[Len(v8.commits)] \in Int
        BY DEF LogInv, LogTyped
    <2> QED
        BY <2>1 DEF LogInv, LogTyped, MayFollow
<1> QED
    BY <1>1 DEF LogInv, LogTyped, OneAsk, NextFits, MayFollow, Pane!LogNoGap

(* The log goes on without a gap as long as the page is about it.          *)
LEMMA LogAlways == PageSpec => [](part = "pane" => LogInv)
<1> DEFINE Inv == part = "pane" => LogInv
<1>1. PageInit => Inv
    <2>1. SUFFICES ASSUME PageInit, part = "pane" PROVE LogInv
        OBVIOUS
    <2>2. Pane!PaneInit
        BY <2>1 DEF PageInit
    <2>3. v4 = 1 /\ v9 = {} /\ v8 = [commits |-> <<>>, more |-> -1]
        BY <2>2 DEF Pane!PaneInit, Pane!NoLog, Pane!NoMore
    <2>4. v8.commits = <<>> /\ v8.more = -1 /\ Len(v8.commits) = 0
        BY <2>3
    <2> QED
        BY <2>3, <2>4 DEF LogInv, LogTyped, OneAsk, NextFits, MayFollow, Pane!LogNoGap
<1>2. Inv /\ [PageNext]_pageVars => Inv'
    <2>1. SUFFICES ASSUME Inv, [PageNext]_pageVars, part' = "pane" PROVE LogInv'
        OBVIOUS
    <2>2. LogInv /\ [Pane!PaneNext]_<<v1, v2, v3, v4, v5, v6, v7, v8, v9>>
        BY <2>1, ViewPartSteps
    <2>3. v4 \in Nat
        BY <2>2 DEF LogInv, LogTyped
    <2>4. CASE UNCHANGED <<v1, v2, v3, v4, v5, v6, v7, v8, v9>>
        BY <2>2, <2>3, <2>4, LogUntouched
    <2>5. ASSUME NEW v, Pane!Show(v) \/ Pane!Shown(v) \/ Pane!ShownAsMessage(v)
          PROVE  LogInv'
        BY <2>2, <2>3, <2>5, EmptiedLog
           DEF Pane!Show, Pane!Shown, Pane!ShownAsMessage, Pane!Emptied
    <2>6. CASE Pane!More
        BY <2>2, <2>6, MoreFits
    <2>7. ASSUME NEW a \in v9, Pane!LogAnswered(a) PROVE LogInv'
        BY <2>2, <2>7, AnswerFits
    <2>8. ASSUME NEW a \in v9, Pane!LogFails(a) PROVE LogInv'
        BY <2>2, <2>3, <2>8, LogUntouched DEF Pane!LogFails
    <2>9. ASSUME NEW b, Pane!Done(b) PROVE LogInv'
        BY <2>2, <2>3, <2>9, EmptiedLog DEF Pane!Done, Pane!Emptied
    <2>10. ASSUME NEW b, Pane!Press(b) \/ Pane!NotDone(b) PROVE LogInv'
        BY <2>2, <2>3, <2>10, LogUntouched DEF Pane!Press, Pane!NotDone
    <2>11. CASE Pane!AgentEdits \/ Pane!AgentCommits
        BY <2>2, <2>3, <2>11, LogUntouched DEF Pane!AgentEdits, Pane!AgentCommits
    <2>12. CASE Pane!ReopenViewer
        BY <2>2, <2>3, <2>12, EmptiedLog DEF Pane!ReopenViewer, Pane!Emptied
    <2> QED
        BY <2>2, <2>4, <2>5, <2>6, <2>7, <2>8, <2>9, <2>10, <2>11, <2>12 DEF Pane!PaneNext
<1> QED
    BY <1>1, <1>2, PTL DEF PageSpec

(* git.js:169: the pages of a log, put one after another, leave out no     *)
(* commit, though pages come late and commits are added between them:      *)
(* LogNoGap, for any length of a page and any history.                     *)
THEOREM LogLeavesOutNone == PageSpec => []LogNoGap
<1>1. (part = "pane" => LogInv) => LogNoGap
    BY DEF LogNoGap, LogInv
<1> QED
    BY <1>1, LogAlways, PTL

-----------------------------------------------------------------------------
(* The names files can have, and the paths they make.                      *)
Word == UNION {{n[k] : k \in DOMAIN n} : n \in Nodes}
TreePath == Seq(Word)

(* A file has a path of names, with a last one; so has a folder, but for   *)
(* the highest; and the paths of the tree are such paths.                  *)
LEMMA FilePaths ==
    /\ \A n \in Nodes : n \in TreePath /\ Len(n) \in Nat \ {0} /\ Tree!Last(n) \in Word
    /\ Folders \subseteq TreePath /\ Start \in Folders /\ <<>> \in Folders
<1>1. ASSUME NEW n \in Nodes
      PROVE  n \in TreePath /\ Len(n) \in Nat \ {0} /\ Tree!Last(n) \in Word
    <2> DEFINE own == {n[k] : k \in DOMAIN n}
    <2>1. n # <<>> /\ n \in Seq(own)
        BY PageAssumption
    <2>2. own \subseteq Word
        BY DEF Word
    <2> HIDE DEF own
    <2>3. n \in TreePath
        BY <2>1, <2>2, SeqMonotonic DEF TreePath
    <2>4. Len(n) \in Nat \ {0}
        BY <2>1, EmptySeq
    <2>5. n[Len(n)] \in Word
        BY <2>3, <2>4, ElementOfSeq DEF TreePath
    <2> QED
        BY <2>3, <2>4, <2>5 DEF Tree!Last
<1>2. <<>> \in TreePath
    BY EmptySeq DEF TreePath
<1>3. Folders \subseteq Nodes \cup {<<>>} /\ Start \in Folders /\ <<>> \in Folders
    BY PageAssumption
<1> QED
    BY <1>1, <1>2, <1>3

(* The paths of the tree are sequences of names, and so are those of what  *)
(* is in a folder.                                                         *)
LEMMA TreePaths ==
    /\ Folders \subseteq Tree!Paths /\ Tree!Paths \subseteq TreePath
    /\ \A f \in Folders, n \in Nodes : Append(f, Tree!Last(n)) \in Tree!Paths
<1> DEFINE heads == Nodes \cup {<<>>}
           tails == {<<>>} \cup {<<Tree!Last(n)>> : n \in Nodes}
<1>1. Tree!Paths = {p \o q : p \in heads, q \in tails}
    BY DEF Tree!Paths
<1>2. heads \subseteq Seq(Word) /\ Folders \subseteq heads /\ Folders \subseteq Seq(Word)
    BY PageAssumption, FilePaths, EmptySeq DEF TreePath
<1>3. <<>> \in tails /\ \A n \in Nodes : <<Tree!Last(n)>> \in tails
    OBVIOUS
<1>4. tails \subseteq Seq(Word)
    <2>1. <<>> \in Seq(Word)
        BY EmptySeq
    <2>2. ASSUME NEW n \in Nodes PROVE <<Tree!Last(n)>> \in Seq(Word)
        BY FilePaths
    <2> QED
        BY <2>1, <2>2
<1> HIDE DEF heads, tails
<1>5. ASSUME NEW f \in Folders PROVE f \in Tree!Paths
    <2>1. f = f \o <<>>
        BY <1>2, ConcatEmptySeq
    <2> QED
        BY <1>1, <1>2, <1>3, <2>1
<1>6. ASSUME NEW f \in Folders, NEW n \in Nodes PROVE Append(f, Tree!Last(n)) \in Tree!Paths
    <2>1. Append(f, Tree!Last(n)) = f \o <<Tree!Last(n)>>
        BY <1>2, FilePaths, AppendIsConcat
    <2>2. f \in heads /\ \E q \in tails : q = <<Tree!Last(n)>>
        BY <1>2, <1>3
    <2>3. PICK q \in tails : Append(f, Tree!Last(n)) = f \o q
        BY <2>1, <2>2
    <2>4. f \o q \in Tree!Paths
        BY <1>1, <2>2
    <2> QED
        BY <2>3, <2>4
<1>7. ASSUME NEW r \in Tree!Paths PROVE r \in Seq(Word)
    <2>1. PICK p \in heads, q \in tails : r = p \o q
        BY <1>1
    <2> QED
        BY <1>2, <1>4, <2>1, ConcatProperties
<1> QED
    BY <1>5, <1>6, <1>7 DEF TreePath

(* A path is strictly below another one when it is longer and begins with  *)
(* its names.                                                              *)
LEMMA BelowIs ==
    ASSUME NEW u \in TreePath, NEW q \in TreePath
    PROVE  Tree!IsStrictPrefix(u, q)
             <=> Len(u) < Len(q) /\ \A i \in 1..Len(u) : u[i] = q[i]
<1>1. /\ Len(u) \in Nat /\ Len(q) \in Nat
      /\ \A i \in 1..Len(u) : u[i] \in Word
      /\ \A i \in 1..Len(q) : q[i] \in Word
    BY LenProperties, ElementOfSeq DEF TreePath
<1>2. SubSeq(u, 1, Len(u)) = u
    BY SubSeqFull DEF TreePath
<1> DEFINE b == SubSeq(q, 1, Len(u))
<1>3. Len(u) <= Len(q) => /\ b \in TreePath /\ Len(b) = Len(u)
                          /\ \A i \in 1..Len(u) : b[i] = q[i]
    <2>1. SUFFICES ASSUME Len(u) <= Len(q)
                   PROVE  /\ b \in TreePath /\ Len(b) = Len(u)
                          /\ \A i \in 1..Len(u) : b[i] = q[i]
        OBVIOUS
    <2>2. 1 \in Int /\ Len(u) \in Int /\ \A i \in 1..Len(u) : q[i] \in Word
        BY <1>1, <2>1
    <2>3. /\ b \in Seq(Word) /\ Len(b) = IF 1 <= Len(u) THEN Len(u) - 1 + 1 ELSE 0
          /\ \A i \in 1..(Len(u) - 1 + 1) : b[i] = q[1 + i - 1]
        BY <2>2, SubSeqProperties
    <2> HIDE DEF b
    <2> QED
        BY <1>1, <2>3 DEF TreePath
<1>4. Tree!IsStrictPrefix(u, q) <=> Len(u) <= Len(q) /\ u = b /\ u # q
    BY <1>2 DEF Tree!IsStrictPrefix, Tree!IsPrefix
<1> HIDE DEF b
<1>5. ASSUME Tree!IsStrictPrefix(u, q)
      PROVE  Len(u) < Len(q) /\ \A i \in 1..Len(u) : u[i] = q[i]
    <2>1. Len(u) <= Len(q) /\ u # q /\ \A i \in 1..Len(u) : u[i] = q[i]
        BY <1>3, <1>4, <1>5
    <2>2. Len(u) # Len(q)
        BY <2>1, SeqEqual DEF TreePath
    <2> QED
        BY <1>1, <2>1, <2>2
<1>6. ASSUME Len(u) < Len(q), \A i \in 1..Len(u) : u[i] = q[i]
      PROVE  Tree!IsStrictPrefix(u, q)
    <2>1. Len(u) <= Len(q) /\ u # q
        BY <1>1, <1>6
    <2>2. u = b
        BY <1>3, <1>6, <2>1, SeqEqual DEF TreePath
    <2> QED
        BY <1>4, <2>1, <2>2
<1> QED
    BY <1>5, <1>6

(* Below what is below a path is below it.                                 *)
LEMMA BelowBelow ==
    ASSUME NEW u \in TreePath, NEW v \in TreePath, NEW w \in TreePath,
           Tree!IsStrictPrefix(u, v), Tree!IsStrictPrefix(v, w)
    PROVE  Tree!IsStrictPrefix(u, w)
<1>1. Len(u) \in Nat /\ Len(v) \in Nat /\ Len(w) \in Nat
    BY LenProperties DEF TreePath
<1>2. /\ Len(u) < Len(v) /\ \A i \in 1..Len(u) : u[i] = v[i]
      /\ Len(v) < Len(w) /\ \A i \in 1..Len(v) : v[i] = w[i]
    BY BelowIs
<1>3. \A i \in 1..Len(u) : u[i] = w[i]
    BY <1>1, <1>2
<1> QED
    BY <1>1, <1>2, <1>3, BelowIs

(* An entry is below its folder, and its folder is what is before its name.*)
LEMMA EntryBelow ==
    ASSUME NEW u \in TreePath, NEW x \in Word
    PROVE  /\ Append(u, x) \in TreePath
           /\ Tree!IsStrictPrefix(u, Append(u, x)) /\ Tree!Front(Append(u, x)) = u
<1> DEFINE q == Append(u, x)
<1>1. /\ q \in TreePath /\ Len(q) = Len(u) + 1 /\ \A i \in 1..Len(u) : q[i] = u[i]
    BY AppendProperties DEF TreePath
<1>2. Len(u) \in Nat
    BY LenProperties DEF TreePath
<1> HIDE DEF q
<1>3. Tree!IsStrictPrefix(u, q)
    BY <1>1, <1>2, BelowIs
<1>4. Tree!Front(q) = SubSeq(q, 1, Len(u))
    BY <1>1, <1>2 DEF Tree!Front
<1>5. SubSeq(q, 1, Len(u)) = SubSeq(u, 1, Len(u)) 
    BY <1>3 DEF Tree!IsStrictPrefix, Tree!IsPrefix
<1>6. SubSeq(u, 1, Len(u)) = u
    BY SubSeqFull DEF TreePath
<1> QED
    BY <1>1, <1>3, <1>4, <1>5, <1>6 DEF q

-----------------------------------------------------------------------------
(* The rows of the tree.                                                   *)
TreeRow == [path : Tree!Paths, dir : BOOLEAN, depth : Nat, asks : Nat]

(* The names of what is in a folder can be listed, as it has finitely many.*)
LEMMA NamesListed ==
    ASSUME NEW dir
    PROVE  Tree!Names(dir) \in Seq({Tree!Last(n) : n \in Nodes})
<1> DEFINE inside == {m \in Nodes : Tree!Front(m) = dir}
           S == {Tree!Last(n) : n \in inside}
<1>1. IsFiniteSet(S)
    <2>1. IsFiniteSet(inside)
        BY PageAssumption, FS_Subset
    <2> DEFINE f == [m \in inside |-> Tree!Last(m)]
    <2>2. f \in Surjection(inside, S)
        BY Fun_IsSurj
    <2> QED
        BY <2>1, <2>2, FS_Surjection
<1> HIDE DEF S
<1>2. Cardinality(S) \in Nat /\ ExistsBijection(1..Cardinality(S), S)
    BY <1>1, FS_CardinalityType, FS_Bijection
<1>3. PICK f \in Bijection(1..Cardinality(S), S) : TRUE
    BY <1>2 DEF ExistsBijection
<1>4. f \in [1..Cardinality(S) -> S] /\ Tree!IsInjective(f)
    <2>1. /\ f \in [1..Cardinality(S) -> S]
          /\ \A a, b \in 1..Cardinality(S) : f[a] = f[b] => a = b
        BY Fun_BijectionProperties
    <2>2. DOMAIN f = 1..Cardinality(S)
        BY <2>1
    <2> QED
        BY <2>1, <2>2 DEF Tree!IsInjective
<1>5. Tree!Names(dir) = CHOOSE g \in [1..Cardinality(S) -> S] : Tree!IsInjective(g)
    <2>1. Tree!Names(dir) = CHOOSE g \in [1..Tree!Cardinality(S) -> S] : Tree!IsInjective(g)
        BY DEF Tree!Names, Tree!SetToSeq, S
    <2>2. Tree!Cardinality(S) = Cardinality(S)
        BY DEF Tree!Cardinality, Cardinality
    <2> QED
        BY <2>1, <2>2
<1>6. Tree!Names(dir) \in [1..Cardinality(S) -> S]
    BY <1>4, <1>5
<1>7. S \subseteq {Tree!Last(n) : n \in Nodes}
    BY DEF S
<1>8. Tree!Names(dir) \in Seq(S)
    BY <1>2, <1>6
<1> QED
    BY <1>7, <1>8, SeqMonotonic

(* What is put below a row: rows of its entries, one level down.           *)
LEMMA EntriesAre ==
    ASSUME NEW dir, NEW f \in Folders, NEW d \in Nat
    PROVE  LET new == Tree!RowsOf(dir, f, d)
           IN  /\ new \in Seq(TreeRow)
               /\ \A k \in 1..Len(new) :
                     /\ new[k].depth = d /\ Tree!Front(new[k].path) = f
                     /\ Tree!IsStrictPrefix(f, new[k].path)
<1> DEFINE names == Tree!Names(dir)
           new == Tree!RowsOf(dir, f, d)
<1>1. names \in Seq({Tree!Last(n) : n \in Nodes})
    BY NamesListed
<1> HIDE DEF names
<1>2. Len(names) \in Nat /\ DOMAIN names = 1..Len(names)
    BY <1>1, LenProperties
<1>3. ASSUME NEW k \in 1..Len(names)
      PROVE  /\ Append(f, names[k]) \in Tree!Paths
             /\ Tree!Front(Append(f, names[k])) = f
             /\ Tree!IsStrictPrefix(f, Append(f, names[k]))
    <2>1. names[k] \in {Tree!Last(n) : n \in Nodes}
        BY <1>1, ElementOfSeq
    <2>2. PICK n \in Nodes : names[k] = Tree!Last(n)
        BY <2>1
    <2>3. Append(f, names[k]) \in Tree!Paths /\ f \in TreePath /\ names[k] \in Word
        BY <2>2, TreePaths, FilePaths
    <2> QED
        BY <2>3, EntryBelow
<1>4. new = [k \in 1..Len(names) |->
                [path |-> Append(f, names[k]), depth |-> d, asks |-> 0,
                 dir |-> Append(dir, names[k]) \in Folders]]
    BY <1>2 DEF Tree!RowsOf, names
<1> HIDE DEF new
<1>5. new \in [1..Len(names) -> TreeRow]
    BY <1>3, <1>4 DEF TreeRow
<1>6. new \in Seq(TreeRow) /\ Len(new) = Len(names)
    BY <1>2, <1>5
<1>7. \A k \in 1..Len(new) : new[k].depth = d /\ new[k].path = Append(f, names[k])
    BY <1>4, <1>6
<1> QED
    BY <1>3, <1>6, <1>7 DEF new

(* A row has the row of its folder before it and nothing that lies         *)
(* elsewhere between the two.                                              *)
Under(rs, j, i) ==
    /\ rs[j].path = Tree!Front(rs[i].path) /\ rs[j].depth = rs[i].depth - 1
    /\ \A m \in (j + 1)..i : Tree!IsStrictPrefix(rs[j].path, rs[m].path)
Nested(rs) == \A i \in 1..Len(rs) : rs[i].depth > 0 => \E j \in 1..(i - 1) : Under(rs, j, i)

(* A row has a path and a depth.                                           *)
LEMMA RowIs ==
    ASSUME NEW rs \in Seq(TreeRow), NEW m \in 1..Len(rs)
    PROVE  /\ rs[m] \in TreeRow /\ rs[m].path \in Tree!Paths
           /\ rs[m].path \in TreePath /\ rs[m].depth \in Nat
<1>1. rs[m] \in TreeRow
    BY ElementOfSeq
<1>2. rs[m].path \in Tree!Paths /\ rs[m].depth \in Nat
    BY <1>1 DEF TreeRow
<1> QED
    BY <1>1, <1>2, TreePaths

(* Awaiting more or fewer answers, it is a row with that path and depth.   *)
LEMMA RowAsking ==
    ASSUME NEW d \in TreeRow, NEW k \in Nat
    PROVE  /\ [d EXCEPT !.asks = k] \in TreeRow
           /\ [d EXCEPT !.asks = k].path = d.path /\ [d EXCEPT !.asks = k].depth = d.depth
BY DEF TreeRow

(* Rows that agree in their paths and depths are nested alike.             *)
LEMMA SameNesting ==
    ASSUME NEW rs \in Seq(TreeRow), NEW ss \in Seq(TreeRow), Len(ss) = Len(rs), Nested(rs),
           \A i \in 1..Len(rs) : ss[i].path = rs[i].path /\ ss[i].depth = rs[i].depth
    PROVE  Nested(ss)
<1>1. Len(rs) \in Nat
    BY LenProperties
<1>2. ASSUME NEW i \in 1..Len(rs), NEW j \in 1..(i - 1), Under(rs, j, i) PROVE Under(ss, j, i)
    <2>1. j \in 1..Len(rs) /\ \A m \in (j + 1)..i : m \in 1..Len(rs)
        BY <1>1
    <2> QED
        BY <1>2, <2>1 DEF Under
<1> QED
    BY <1>2 DEF Nested

(* The rows with entries put in.                                           *)
LEMMA InsertedRows ==
    ASSUME NEW rs \in Seq(TreeRow), NEW i \in 1..Len(rs), NEW new \in Seq(TreeRow)
    PROVE  LET out == Tree!InsertAfter(rs, i, new)
           IN  /\ out \in Seq(TreeRow) /\ Len(out) = Len(rs) + Len(new)
               /\ \A m \in 1..i : out[m] = rs[m]
               /\ \A m \in (i + 1)..(i + Len(new)) : out[m] = new[m - i]
               /\ \A m \in (i + Len(new) + 1)..Len(out) : out[m] = rs[m - Len(new)]
<1> DEFINE a == SubSeq(rs, 1, i)
           b == SubSeq(rs, i + 1, Len(rs))
<1>1. Len(rs) \in Nat /\ Len(new) \in Nat /\ \A m \in 1..Len(rs) : rs[m] \in TreeRow
    BY LenProperties, ElementOfSeq
<1>2. a \in Seq(TreeRow) /\ Len(a) = i /\ \A m \in 1..i : a[m] = rs[m]
    <2>1. 1 \in Int /\ i \in Int /\ \A m \in 1..i : rs[m] \in TreeRow
        BY <1>1
    <2>2. /\ a \in Seq(TreeRow) /\ Len(a) = IF 1 <= i THEN i - 1 + 1 ELSE 0
          /\ \A m \in 1..(i - 1 + 1) : a[m] = rs[1 + m - 1]
        BY <2>1, SubSeqProperties
    <2> HIDE DEF a
    <2> QED
        BY <1>1, <2>2
<1>3. /\ b \in Seq(TreeRow) /\ Len(b) = Len(rs) - i
      /\ \A m \in 1..(Len(rs) - i) : b[m] = rs[i + m]
    <2>1. i + 1 \in Int /\ Len(rs) \in Int /\ \A m \in (i + 1)..Len(rs) : rs[m] \in TreeRow
        BY <1>1
    <2>2. /\ b \in Seq(TreeRow)
          /\ Len(b) = IF i + 1 <= Len(rs) THEN Len(rs) - (i + 1) + 1 ELSE 0
          /\ \A m \in 1..(Len(rs) - (i + 1) + 1) : b[m] = rs[i + 1 + m - 1]
        BY <2>1, SubSeqProperties
    <2> HIDE DEF b
    <2> QED
        BY <1>1, <2>2
<1>4. Tree!InsertAfter(rs, i, new) = (a \o new) \o b
    BY DEF Tree!InsertAfter
<1> HIDE DEF a, b
<1> DEFINE an == a \o new
           out == an \o b
<1>5. /\ an \in Seq(TreeRow) /\ Len(an) = i + Len(new)
      /\ \A m \in 1..(i + Len(new)) : an[m] = IF m <= i THEN a[m] ELSE new[m - i]
    BY <1>1, <1>2, ConcatProperties
<1> HIDE DEF an
<1>6. /\ out \in Seq(TreeRow) /\ Len(out) = Len(an) + Len(b)
      /\ \A m \in 1..(Len(an) + Len(b)) : out[m] = IF m <= Len(an) THEN an[m] ELSE b[m - Len(an)]
    BY <1>3, <1>5, ConcatProperties
<1> HIDE DEF out
<1>7. Tree!InsertAfter(rs, i, new) = out
    BY <1>4 DEF out, an
<1>8. Len(out) = Len(rs) + Len(new)
    BY <1>1, <1>3, <1>5, <1>6
<1>9. ASSUME NEW m \in 1..i PROVE out[m] = rs[m]
    <2>1. m \in 1..(Len(an) + Len(b)) /\ m <= Len(an) /\ m \in 1..(i + Len(new))
        BY <1>1, <1>3, <1>5
    <2>2. out[m] = an[m] /\ an[m] = a[m]
        BY <1>5, <1>6, <2>1
    <2> QED
        BY <1>2, <2>2
<1>10. ASSUME NEW m \in (i + 1)..(i + Len(new)) PROVE out[m] = new[m - i]
    <2>1. m \in 1..(Len(an) + Len(b)) /\ m <= Len(an) /\ m \in 1..(i + Len(new)) /\ ~(m <= i)
        BY <1>1, <1>3, <1>5
    <2> QED
        BY <1>5, <1>6, <2>1
<1>11. ASSUME NEW m \in (i + Len(new) + 1)..Len(out) PROVE out[m] = rs[m - Len(new)]
    <2>1. /\ m \in 1..(Len(an) + Len(b)) /\ ~(m <= Len(an))
          /\ m - Len(an) \in 1..(Len(rs) - i) /\ i + (m - Len(an)) = m - Len(new)
        BY <1>1, <1>3, <1>5, <1>8
    <2>2. out[m] = b[m - Len(an)]
        BY <1>6, <2>1
    <2> QED
        BY <1>3, <2>1, <2>2
<1> QED
    BY <1>6, <1>7, <1>8, <1>9, <1>10, <1>11

(* Entries put right after the row of their folder leave the rows nested.  *)
LEMMA InsertedNested ==
    ASSUME NEW rs \in Seq(TreeRow), Nested(rs), NEW i \in 1..Len(rs),
           NEW new \in Seq(TreeRow),
           \A k \in 1..Len(new) :
              /\ new[k].depth = rs[i].depth + 1
              /\ Tree!Front(new[k].path) = rs[i].path
              /\ Tree!IsStrictPrefix(rs[i].path, new[k].path)
    PROVE  Nested(Tree!InsertAfter(rs, i, new))
<1> DEFINE out == Tree!InsertAfter(rs, i, new)
           n == Len(new)
<1>1. /\ out \in Seq(TreeRow) /\ Len(out) = Len(rs) + n
      /\ \A m \in 1..i : out[m] = rs[m]
      /\ \A m \in (i + 1)..(i + n) : out[m] = new[m - i]
      /\ \A m \in (i + n + 1)..Len(out) : out[m] = rs[m - n]
    BY InsertedRows
<1>2. Len(rs) \in Nat /\ n \in Nat
    BY LenProperties
<1>3. /\ \A m \in 1..Len(rs) : rs[m].path \in TreePath /\ rs[m].depth \in Nat
      /\ \A m \in 1..n : new[m].path \in TreePath
    BY RowIs
<1> HIDE DEF out, n
<1>4. ASSUME NEW p \in 1..Len(out), out[p].depth > 0
      PROVE  \E j \in 1..(p - 1) : Under(out, j, p)
    <2>1. CASE p <= i
        <3>1. p \in 1..i /\ p \in 1..Len(rs) /\ out[p] = rs[p]
            BY <1>1, <1>2, <2>1
        <3>2. PICK j \in 1..(p - 1) : Under(rs, j, p)
            BY <1>4, <3>1 DEF Nested
        <3>3. ASSUME NEW m \in j..p PROVE out[m] = rs[m]
            <4>1. m \in 1..i
                BY <1>2, <3>1
            <4> QED
                BY <1>1, <4>1
        <3>4. out[j] = rs[j] /\ \A m \in (j + 1)..p : out[m] = rs[m]
            BY <1>2, <3>1, <3>3
        <3> QED
            BY <3>1, <3>2, <3>4 DEF Under
    <2>2. CASE i < p /\ p <= i + n
        <3>1. /\ i \in 1..(p - 1) /\ out[i] = rs[i] /\ p - i \in 1..n /\ out[p] = new[p - i]
              /\ \A m \in (i + 1)..p : m - i \in 1..n /\ out[m] = new[m - i]
            <4>1. i \in Nat /\ p \in Nat /\ i \in 1..i
                BY <1>2
            <4>2. i \in 1..(p - 1) /\ out[i] = rs[i]
                BY <1>1, <2>2, <4>1
            <4>3. ASSUME NEW m \in (i + 1)..p PROVE m - i \in 1..n /\ out[m] = new[m - i]
                <5>1. m \in (i + 1)..(i + n) /\ m - i \in 1..n
                    BY <1>2, <2>2, <4>1
                <5> QED
                    BY <1>1, <5>1
            <4>4. p \in (i + 1)..p
                BY <2>2, <4>1
            <4> QED
                BY <4>2, <4>3, <4>4
        <3>2. out[p].depth = rs[i].depth + 1 /\ Tree!Front(out[p].path) = rs[i].path
            BY <3>1 DEF n
        <3>3. ASSUME NEW m \in (i + 1)..p PROVE Tree!IsStrictPrefix(out[i].path, out[m].path)
            BY <3>1 DEF n
        <3>4. out[i].depth = out[p].depth - 1
            BY <1>3, <3>1, <3>2
        <3> QED
            BY <3>1, <3>2, <3>3, <3>4 DEF Under
    <2>3. CASE i + n < p
        <3>1. /\ p - n \in 1..Len(rs) /\ p - n > i /\ out[p] = rs[p - n]
            BY <1>1, <1>2, <2>3
        <3>2. PICK j \in 1..((p - n) - 1) : Under(rs, j, p - n)
            BY <1>4, <3>1 DEF Nested
        <3>3. j \in 1..Len(rs) /\ j \in Int
            BY <1>2, <3>1
        <3>4. CASE j > i
            <4>1. j + n \in 1..(p - 1) /\ out[j + n] = rs[j]
                <5>1. j + n \in 1..(p - 1) /\ (j + n) - n = j
                    BY <1>2, <3>1, <3>3, <3>4
                <5>2. j + n \in (i + n + 1)..Len(out)
                    <6>1. j + n <= Len(rs) + n /\ i + n + 1 <= j + n
                        BY <1>2, <3>3, <3>4
                    <6>2. Len(out) = Len(rs) + n /\ j + n \in Int
                        BY <1>1, <3>3, <1>2
                    <6> QED
                        BY <1>2, <6>1, <6>2
                <5> QED
                    BY <1>1, <5>1, <5>2
            <4>2. ASSUME NEW m \in (j + n + 1)..p
                  PROVE  m - n \in (j + 1)..(p - n) /\ out[m] = rs[m - n]
                BY <1>1, <1>2, <3>1, <3>3, <3>4
            <4>3. \A m \in (j + n + 1)..p : Tree!IsStrictPrefix(out[j + n].path, out[m].path)
                BY <3>2, <4>1, <4>2 DEF Under
            <4> QED
                BY <3>1, <3>2, <4>1, <4>3 DEF Under
        <3>5. CASE j <= i
            <4>1. j \in 1..(p - 1) /\ out[j] = rs[j]
                BY <1>1, <1>2, <3>1, <3>3, <3>5
            <4>2. j = i \/ Tree!IsStrictPrefix(rs[j].path, rs[i].path)
                BY <3>1, <3>2, <3>3, <3>5 DEF Under
            <4>3. ASSUME NEW m \in (j + 1)..p
                  PROVE  Tree!IsStrictPrefix(rs[j].path, out[m].path)
                <5>1. CASE m <= i
                    <6>1. out[m] = rs[m] /\ m \in (j + 1)..(p - n)
                        BY <1>1, <1>2, <3>1, <3>3, <5>1
                    <6> QED
                        BY <3>2, <6>1 DEF Under
                <5>2. CASE i < m /\ m <= i + n
                    <6>1. out[m] = new[m - i] /\ m - i \in 1..n
                        BY <1>1, <1>2, <3>3, <5>2
                    <6>2. /\ Tree!IsStrictPrefix(rs[i].path, new[m - i].path)
                          /\ rs[j].path \in TreePath /\ rs[i].path \in TreePath
                          /\ new[m - i].path \in TreePath
                        BY <1>3, <3>3, <6>1 DEF n
                    <6> QED
                        BY <4>2, <6>1, <6>2, BelowBelow
                <5>3. CASE i + n < m
                    <6>1. out[m] = rs[m - n] /\ m - n \in (j + 1)..(p - n)
                        BY <1>1, <1>2, <3>1, <3>3, <3>5, <5>3
                    <6> QED
                        BY <3>2, <6>1 DEF Under
                <5> QED
                    BY <1>2, <3>3, <5>1, <5>2, <5>3
            <4> QED
                BY <3>1, <3>2, <4>1, <4>3 DEF Under
        <3> QED
            BY <3>3, <3>4, <3>5
    <2> QED
        BY <1>2, <2>1, <2>2, <2>3
<1> QED
    BY <1>4 DEF Nested, out

-----------------------------------------------------------------------------
(* Where the block of rows below a row ends.                               *)
LEMMA BlockEndIs ==
    ASSUME NEW rs \in Seq(TreeRow), NEW i \in 1..Len(rs)
    PROVE  LET e == Tree!BlockEnd(rs, i)
           IN  /\ e \in i..Len(rs)
               /\ \A j \in (i + 1)..e : Tree!IsStrictPrefix(rs[i].path, rs[j].path)
               /\ e < Len(rs) => ~Tree!IsStrictPrefix(rs[i].path, rs[e + 1].path)
<1> DEFINE Below(j) == Tree!IsStrictPrefix(rs[i].path, rs[j].path)
           M == {i} \cup {m \in (i + 1)..Len(rs) : \A j \in (i + 1)..m : Below(j)}
           T == {k \in i..Len(rs) : k < Len(rs) => ~Below(k + 1)}
<1>1. Len(rs) \in Nat /\ i \in Nat /\ i <= Len(rs)
    BY LenProperties
<1>2. Tree!BlockEnd(rs, i) = CHOOSE x \in M : \A y \in M : x >= y
    BY DEF Tree!BlockEnd, Tree!Max
<1> HIDE DEF Below
<1>3. PICK e \in T : \A k \in T : e <= k
    <2>1. T \subseteq Nat /\ Len(rs) \in T
        BY <1>1
    <2> HIDE DEF T
    <2> QED
        BY <2>1, LeastOf
<1>4. e \in i..Len(rs) /\ (e < Len(rs) => ~Below(e + 1))
    OBVIOUS
<1>5. ASSUME NEW j \in (i + 1)..e PROVE Below(j)
    <2>1. j - 1 \in i..Len(rs) /\ j - 1 < e /\ (j - 1) + 1 = j /\ ~(e <= j - 1)
        BY <1>1, <1>4
    <2>2. j - 1 \notin T
        BY <1>3, <2>1
    <2> QED
        BY <2>1, <2>2
<1>6. e \in M
    BY <1>1, <1>4, <1>5
<1>7. ASSUME NEW y \in M PROVE e >= y
    <2>1. CASE y > e
        <3>1. y \in (i + 1)..Len(rs) /\ \A j \in (i + 1)..y : Below(j)
            BY <1>1, <1>4, <2>1
        <3>2. e + 1 \in (i + 1)..y /\ e < Len(rs)
            BY <1>1, <1>4, <2>1, <3>1
        <3> QED
            BY <1>4, <3>1, <3>2
    <2>2. y \in Int /\ e \in Int
        BY <1>1, <1>4
    <2> QED
        BY <2>1, <2>2
<1>8. M \subseteq Int
    BY <1>1
<1> HIDE DEF M, T
<1>9. ASSUME NEW x \in M, \A y \in M : x >= y PROVE x = e
    <2>1. x >= e /\ e >= x /\ x \in Int /\ e \in Int
        BY <1>6, <1>7, <1>8, <1>9
    <2> QED
        BY <2>1
<1>10. Tree!BlockEnd(rs, i) = e
    BY <1>2, <1>6, <1>7, <1>9
<1> QED
    BY <1>4, <1>5, <1>10 DEF Below

(* The rows without a block of them.                                       *)
LEMMA CutRows ==
    ASSUME NEW rs \in Seq(TreeRow), NEW i \in 1..Len(rs), NEW e \in i..Len(rs)
    PROVE  LET out == SubSeq(rs, 1, i) \o SubSeq(rs, e + 1, Len(rs))
           IN  /\ out \in Seq(TreeRow) /\ Len(out) = Len(rs) - (e - i)
               /\ \A m \in 1..i : out[m] = rs[m]
               /\ \A m \in (i + 1)..Len(out) : out[m] = rs[m + (e - i)]
<1> DEFINE a == SubSeq(rs, 1, i)
           b == SubSeq(rs, e + 1, Len(rs))
           out == a \o b
<1>1. /\ Len(rs) \in Nat /\ i \in Nat /\ e \in Nat
      /\ \A m \in 1..Len(rs) : rs[m] \in TreeRow
    BY LenProperties, ElementOfSeq
<1>2. a \in Seq(TreeRow) /\ Len(a) = i /\ \A m \in 1..i : a[m] = rs[m]
    <2>1. 1 \in Int /\ i \in Int /\ \A m \in 1..i : rs[m] \in TreeRow
        BY <1>1
    <2>2. /\ a \in Seq(TreeRow) /\ Len(a) = IF 1 <= i THEN i - 1 + 1 ELSE 0
          /\ \A m \in 1..(i - 1 + 1) : a[m] = rs[1 + m - 1]
        BY <2>1, SubSeqProperties
    <2> HIDE DEF a
    <2> QED
        BY <1>1, <2>2
<1>3. /\ b \in Seq(TreeRow) /\ Len(b) = Len(rs) - e
      /\ \A m \in 1..(Len(rs) - e) : b[m] = rs[e + m]
    <2>1. e + 1 \in Int /\ Len(rs) \in Int /\ \A m \in (e + 1)..Len(rs) : rs[m] \in TreeRow
        BY <1>1
    <2>2. /\ b \in Seq(TreeRow)
          /\ Len(b) = IF e + 1 <= Len(rs) THEN Len(rs) - (e + 1) + 1 ELSE 0
          /\ \A m \in 1..(Len(rs) - (e + 1) + 1) : b[m] = rs[e + 1 + m - 1]
        BY <2>1, SubSeqProperties
    <2> HIDE DEF b
    <2> QED
        BY <1>1, <2>2
<1> HIDE DEF a, b
<1>4. /\ out \in Seq(TreeRow) /\ Len(out) = Len(a) + Len(b)
      /\ \A m \in 1..(Len(a) + Len(b)) : out[m] = IF m <= Len(a) THEN a[m] ELSE b[m - Len(a)]
    BY <1>2, <1>3, ConcatProperties
<1> HIDE DEF out
<1>5. Len(out) = Len(rs) - (e - i)
    BY <1>1, <1>2, <1>3, <1>4
<1>6. ASSUME NEW m \in 1..i PROVE out[m] = rs[m]
    <2>1. m \in 1..(Len(a) + Len(b)) /\ m <= Len(a)
        BY <1>1, <1>2, <1>3
    <2> QED
        BY <1>2, <1>4, <2>1
<1>7. ASSUME NEW m \in (i + 1)..Len(out) PROVE out[m] = rs[m + (e - i)]
    <2>1. /\ m \in 1..(Len(a) + Len(b)) /\ ~(m <= Len(a)) /\ m - Len(a) \in 1..(Len(rs) - e)
          /\ e + (m - Len(a)) = m + (e - i)
        BY <1>1, <1>2, <1>3, <1>5
    <2> QED
        BY <1>3, <1>4, <2>1
<1> QED
    BY <1>4, <1>5, <1>6, <1>7 DEF out, a, b

(* Closing a folder leaves the rows nested: no row behind the block has    *)
(* its folder's row in it.                                                 *)
LEMMA CollapsedNested ==
    ASSUME NEW rs \in Seq(TreeRow), Nested(rs), NEW i \in 1..Len(rs)
    PROVE  LET e == Tree!BlockEnd(rs, i)
               out == SubSeq(rs, 1, i) \o SubSeq(rs, e + 1, Len(rs))
           IN  out \in Seq(TreeRow) /\ Nested(out)
<1> DEFINE e == Tree!BlockEnd(rs, i)
           out == SubSeq(rs, 1, i) \o SubSeq(rs, e + 1, Len(rs))
<1>1. /\ e \in i..Len(rs)
      /\ \A j \in (i + 1)..e : Tree!IsStrictPrefix(rs[i].path, rs[j].path)
      /\ e < Len(rs) => ~Tree!IsStrictPrefix(rs[i].path, rs[e + 1].path)
    BY BlockEndIs
<1> HIDE DEF e
<1>2. /\ out \in Seq(TreeRow) /\ Len(out) = Len(rs) - (e - i)
      /\ \A m \in 1..i : out[m] = rs[m]
      /\ \A m \in (i + 1)..Len(out) : out[m] = rs[m + (e - i)]
    BY <1>1, CutRows
<1> HIDE DEF out
<1> DEFINE g == e - i
<1>3. Len(rs) \in Nat /\ g \in Nat /\ i \in Nat /\ e = i + g
    BY <1>1, LenProperties
<1>4. \A m \in 1..Len(rs) : rs[m].path \in TreePath
    BY RowIs
<1> HIDE DEF g
<1>5. /\ Len(out) = Len(rs) - g /\ \A m \in 1..i : out[m] = rs[m]
      /\ \A m \in (i + 1)..Len(out) : out[m] = rs[m + g]
    BY <1>2 DEF g
<1>6. ASSUME NEW p \in 1..Len(out), out[p].depth > 0
      PROVE  \E j \in 1..(p - 1) : Under(out, j, p)
    <2>1. CASE p <= i
        <3>1. p \in 1..i /\ p \in 1..Len(rs) /\ out[p] = rs[p]
            BY <1>1, <1>3, <1>5, <2>1
        <3>2. PICK j \in 1..(p - 1) : Under(rs, j, p)
            BY <1>6, <3>1 DEF Nested
        <3>3. ASSUME NEW m \in j..p PROVE out[m] = rs[m]
            <4>1. m \in 1..i
                BY <1>3, <3>1
            <4> QED
                BY <1>5, <4>1
        <3>4. out[j] = rs[j] /\ \A m \in (j + 1)..p : out[m] = rs[m]
            BY <1>3, <3>1, <3>3
        <3> QED
            BY <3>1, <3>2, <3>4 DEF Under
    <2>2. CASE i < p
        <3>1. p + g \in 1..Len(rs) /\ p + g > e /\ out[p] = rs[p + g] /\ p \in Nat
            <4>1. p \in (i + 1)..Len(out) /\ p + g \in 1..Len(rs) /\ p + g > e /\ p \in Nat
                BY <1>3, <1>5, <2>2
            <4> QED
                BY <1>5, <4>1
        <3>2. PICK j \in 1..((p + g) - 1) : Under(rs, j, p + g)
            BY <1>6, <3>1 DEF Nested
        <3>3. j \in 1..Len(rs) /\ j \in Int /\ j < p + g
            BY <1>3, <3>1
        <3>4. CASE j > e
            <4>1. j - g \in 1..(p - 1) /\ (j - g) + g = j /\ j - g \in (i + 1)..Len(out)
                BY <1>3, <1>5, <3>1, <3>3, <3>4
            <4>2. out[j - g] = rs[j]
                BY <1>5, <4>1
            <4>3. ASSUME NEW m \in (j - g + 1)..p
                  PROVE  m + g \in (j + 1)..(p + g) /\ out[m] = rs[m + g]
                <5>1. m \in (i + 1)..Len(out) /\ m + g \in (j + 1)..(p + g)
                    BY <1>3, <1>5, <3>1, <3>3, <4>1
                <5> QED
                    BY <1>5, <5>1
            <4>4. \A m \in (j - g + 1)..p : Tree!IsStrictPrefix(out[j - g].path, out[m].path)
                BY <3>2, <4>2, <4>3 DEF Under
            <4> QED
                BY <3>1, <3>2, <4>1, <4>2, <4>4 DEF Under
        <3>5. CASE j <= i
            <4>1. j \in 1..i /\ j \in 1..(p - 1)
                BY <2>2, <3>1, <3>3, <3>5
            <4>2. out[j] = rs[j]
                BY <1>5, <4>1
            <4>3. ASSUME NEW m \in (j + 1)..p
                  PROVE  Tree!IsStrictPrefix(rs[j].path, out[m].path)
                <5>1. CASE m <= i
                    <6>1. m \in 1..i /\ m \in (j + 1)..(p + g)
                        BY <1>3, <3>1, <3>3, <5>1
                    <6> QED
                        BY <1>5, <3>2, <6>1 DEF Under
                <5>2. CASE i < m
                    <6>1. m \in (i + 1)..Len(out) /\ m + g \in (j + 1)..(p + g)
                        BY <1>3, <1>5, <3>1, <3>3, <5>2
                    <6>2. out[m] = rs[m + g]
                        BY <1>5, <6>1
                    <6>3. Tree!IsStrictPrefix(rs[j].path, rs[m + g].path)
                        BY <3>2, <6>1 DEF Under
                    <6> QED
                        BY <6>2, <6>3
                <5> QED
                    BY <1>3, <5>1, <5>2
            <4>4. /\ rs[j].path = Tree!Front(rs[p + g].path)
                  /\ rs[j].depth = rs[p + g].depth - 1
                BY <3>2 DEF Under
            <4> QED
                BY <3>1, <4>1, <4>2, <4>3, <4>4 DEF Under
        <3>6. CASE i < j /\ j <= e
            <4>1. j \in (i + 1)..e /\ e < Len(rs) /\ e + 1 \in (j + 1)..(p + g)
                  /\ e + 1 \in 1..Len(rs)
                BY <1>3, <3>1, <3>3, <3>6
            <4>2. /\ Tree!IsStrictPrefix(rs[i].path, rs[j].path)
                  /\ Tree!IsStrictPrefix(rs[j].path, rs[e + 1].path)
                BY <1>1, <3>2, <4>1 DEF Under
            <4>3. Tree!IsStrictPrefix(rs[i].path, rs[e + 1].path)
                BY <1>4, <3>3, <4>1, <4>2, BelowBelow
            <4> QED
                BY <1>1, <4>1, <4>3
        <3> QED
            BY <1>1, <3>3, <3>4, <3>5, <3>6
    <2> QED
        BY <1>3, <2>1, <2>2
<1>7. Nested(out)
    BY <1>6 DEF Nested
<1> QED
    BY <1>2, <1>7 DEF out, e

-----------------------------------------------------------------------------
(* The state of the tree: typed, and its rows nested.                      *)
TreeInv == Tree!TreeTypeOK /\ Nested(v4)

(* On a list of rows, TreeNested is Nested.                                *)
LEMMA NestedIs == ASSUME v4 \in Seq(TreeRow) PROVE Tree!TreeNested <=> Nested(v4)
<1>1. DOMAIN v4 = 1..Len(v4)
    BY LenProperties
<1> QED
    BY <1>1 DEF Tree!TreeNested, Nested, Under

(* The paths of rows, such as those whose entries are awaited.             *)
LEMMA AwaitedPaths ==
    ASSUME NEW rs \in Seq(TreeRow) PROVE Tree!Awaited(rs) \subseteq Tree!Paths
<1>1. ASSUME NEW k \in DOMAIN rs PROVE rs[k].path \in Tree!Paths
    BY RowIs, LenProperties
<1> QED
    BY <1>1 DEF Tree!Awaited

(* Rows of the highest level are nested, and so is no row.                 *)
LEMMA TopNested ==
    /\ <<>> \in Seq(TreeRow) /\ Nested(<<>>)
    /\ \A dir, f \in Folders :
          Tree!RowsOf(dir, f, 0) \in Seq(TreeRow) /\ Nested(Tree!RowsOf(dir, f, 0))
<1>1. ASSUME NEW dir, NEW f \in Folders
      PROVE  Tree!RowsOf(dir, f, 0) \in Seq(TreeRow) /\ Nested(Tree!RowsOf(dir, f, 0))
    <2>1. LET new == Tree!RowsOf(dir, f, 0)
          IN  new \in Seq(TreeRow) /\ \A k \in 1..Len(new) : new[k].depth = 0
        BY EntriesAre
    <2> QED
        BY <2>1 DEF Nested
<1>2. <<>> \in Seq(TreeRow) /\ Len(<<>>) = 0
    BY EmptySeq
<1> QED
    BY <1>1, <1>2 DEF Nested

(* A drawing of the highest level.                                         *)
LEMMA TopLevelStep ==
    ASSUME v4 \in Seq(TreeRow), v5 \subseteq Tree!Paths,
           NEW dir \in Folders, NEW under \in Folders, Tree!TopLevel(dir, under)
    PROVE  v4' \in Seq(TreeRow) /\ Nested(v4') /\ v5' \subseteq Tree!Paths
<1>1. v4' = Tree!RowsOf(dir, under, 0) \/ v4' = <<>>
    BY DEF Tree!TopLevel, Tree!DrawnAnew
<1>2. v5' = v5 \cup Tree!Awaited(v4)
    BY DEF Tree!TopLevel, Tree!DrawnAnew
<1> QED
    BY <1>1, <1>2, TopNested, AwaitedPaths

(* What the tree awaits, apart from its rows' entries.                     *)
Navs == [to : Folders, here : BOOLEAN]
Starts == [step : {"roots", "tree"}, of : Folders, here : BOOLEAN]

(* The types of the tree, part by part.                                    *)
LEMMA TreeTyped ==
    Tree!TreeTypeOK <=>
        /\ v1 \in BOOLEAN /\ v2 \in Folders /\ v3 \subseteq Tree!Paths /\ v5 \subseteq Tree!Paths
        /\ v4 \in Seq(TreeRow) /\ v6 \subseteq Navs /\ v7 \subseteq Starts
BY DEF Tree!TreeTypeOK, TreeRow, Navs, Starts

(* Opening or closing a folder.                                            *)
LEMMA ToggleStep ==
    ASSUME v3 \subseteq Tree!Paths, v4 \in Seq(TreeRow), Nested(v4), v5 \subseteq Tree!Paths,
           NEW i \in 1..Len(v4), Tree!ToggleDir(i)
    PROVE  /\ v3' \subseteq Tree!Paths /\ v5' \subseteq Tree!Paths
           /\ v4' \in Seq(TreeRow) /\ Nested(v4')
<1>1. v4[i] \in TreeRow /\ v4[i].path \in Tree!Paths
    BY RowIs
<1>2. CASE Tree!Collapse(i)
    <2> DEFINE e == Tree!BlockEnd(v4, i)
    <2>1. /\ v4' = SubSeq(v4, 1, i) \o SubSeq(v4, e + 1, Len(v4))
          /\ v5' = v5 \cup Tree!Awaited(SubSeq(v4, i + 1, e)) /\ v3' \subseteq v3
        BY <1>2 DEF Tree!Collapse
    <2>2. v4' \in Seq(TreeRow) /\ Nested(v4')
        BY <2>1, CollapsedNested
    <2>3. e \in i..Len(v4) /\ Len(v4) \in Nat
        BY BlockEndIs, LenProperties
    <2> HIDE DEF e
    <2>4. i + 1 \in Int /\ e \in Int /\ \A m \in (i + 1)..e : v4[m] \in TreeRow
        BY <2>3, ElementOfSeq
    <2>5. SubSeq(v4, i + 1, e) \in Seq(TreeRow)
        BY <2>4, SubSeqProperties
    <2> QED
        BY <2>1, <2>2, <2>5, AwaitedPaths
<1>3. CASE v4' = [v4 EXCEPT ![i].asks = @ + 1] /\ v3' = v3 \cup {v4[i].path} /\ v5' = v5
    <2> DEFINE k == v4[i].asks + 1
               r == [v4[i] EXCEPT !.asks = k]
    <2>1. v4' = [v4 EXCEPT ![i] = r]
        BY <1>3
    <2>2. k \in Nat
        BY <1>1 DEF TreeRow
    <2>3. r \in TreeRow /\ r.path = v4[i].path /\ r.depth = v4[i].depth
        BY <1>1, <2>2, RowAsking
    <2> HIDE DEF r
    <2>4. /\ v4' \in Seq(TreeRow) /\ Len(v4') = Len(v4)
          /\ \A j \in 1..Len(v4) : v4'[j] = IF j = i THEN r ELSE v4[j]
        BY <2>1, <2>3, ExceptSeq
    <2>5. Nested(v4')
        BY <2>3, <2>4, SameNesting
    <2> QED
        BY <1>1, <1>3, <2>4, <2>5
<1> QED
    BY <1>2, <1>3 DEF Tree!ToggleDir

(* One answer fewer is awaited of a row, and nothing else is different.    *)
LEMMA AskedLess ==
    ASSUME NEW rs \in Seq(TreeRow), Nested(rs), NEW i \in 1..Len(rs), rs[i].asks > 0
    PROVE  LET ss == [rs EXCEPT ![i].asks = @ - 1]
           IN  /\ ss \in Seq(TreeRow) /\ Len(ss) = Len(rs) /\ Nested(ss)
               /\ ss[i].path = rs[i].path /\ ss[i].depth = rs[i].depth
<1> DEFINE k == rs[i].asks - 1
           r == [rs[i] EXCEPT !.asks = k]
           ss == [rs EXCEPT ![i].asks = @ - 1]
<1>1. rs[i] \in TreeRow
    BY RowIs
<1>2. ss = [rs EXCEPT ![i] = r]
    OBVIOUS
<1>3. r \in TreeRow /\ r.path = rs[i].path /\ r.depth = rs[i].depth
    <2>1. k \in Nat
        BY <1>1 DEF TreeRow
    <2> QED
        BY <1>1, <2>1, RowAsking
<1> HIDE DEF r, ss
<1>4. /\ ss \in Seq(TreeRow) /\ Len(ss) = Len(rs)
      /\ \A j \in 1..Len(rs) : ss[j] = IF j = i THEN r ELSE rs[j]
    BY <1>2, <1>3, ExceptSeq
<1>5. Nested(ss)
    BY <1>3, <1>4, SameNesting
<1> QED
    BY <1>3, <1>4, <1>5 DEF ss

(* The entries of a folder come.                                           *)
LEMMA AnsweredStep ==
    ASSUME v4 \in Seq(TreeRow), Nested(v4), NEW i \in 1..Len(v4), Tree!DirAnswered(i)
    PROVE  v4' \in Seq(TreeRow) /\ Nested(v4')
<1> DEFINE ss == [v4 EXCEPT ![i].asks = @ - 1]
           new == Tree!RowsOf(v4[i].path, v4[i].path, v4[i].depth + 1)
<1>1. v4[i].asks > 0 /\ v4[i].path \in Folders /\ v4' = Tree!InsertAfter(ss, i, new)
    BY DEF Tree!DirAnswered
<1>2. v4[i].depth \in Nat /\ v4[i].depth + 1 \in Nat
    BY RowIs
<1>3. /\ ss \in Seq(TreeRow) /\ Len(ss) = Len(v4) /\ Nested(ss)
      /\ ss[i].path = v4[i].path /\ ss[i].depth = v4[i].depth
    BY <1>1, AskedLess
<1>4. /\ new \in Seq(TreeRow)
      /\ \A k \in 1..Len(new) :
            /\ new[k].depth = v4[i].depth + 1 /\ Tree!Front(new[k].path) = v4[i].path
            /\ Tree!IsStrictPrefix(v4[i].path, new[k].path)
    BY <1>1, <1>2, EntriesAre
<1> HIDE DEF ss, new
<1>5. v4' \in Seq(TreeRow)
    BY <1>1, <1>3, <1>4, InsertedRows
<1>6. Nested(v4')
    BY <1>1, <1>3, <1>4, InsertedNested
<1> QED
    BY <1>5, <1>6

(* No step of the tree leaves a row outside its folder.                    *)
LEMMA TreeStep ==
    ASSUME TreeInv, [Tree!TreeNext]_<<v1, v2, v3, v4, v5, v6, v7>>
    PROVE  TreeInv'
<1>1. /\ v1 \in BOOLEAN /\ v2 \in Folders /\ v3 \subseteq Tree!Paths /\ v5 \subseteq Tree!Paths
      /\ v4 \in Seq(TreeRow) /\ v6 \subseteq Navs /\ v7 \subseteq Starts /\ Nested(v4)
    BY TreeTyped DEF TreeInv
<1> DEFINE Next1 ==
        /\ v1' \in BOOLEAN /\ v2' \in Folders /\ v3' \subseteq Tree!Paths
        /\ v5' \subseteq Tree!Paths
        /\ v4' \in Seq(TreeRow) /\ v6' \subseteq Navs /\ v7' \subseteq Starts /\ Nested(v4')
<1> SUFFICES Next1
    BY DEF TreeInv, Tree!TreeTypeOK, TreeRow, Navs, Starts, Nested, Under
<1>2. CASE UNCHANGED <<v1, v2, v3, v4, v5, v6, v7>>
    BY <1>1, <1>2
<1>3. CASE Tree!ShowViewer
    <2>1. v4' = <<>> /\ v5' = v5 \cup Tree!Awaited(v4) /\ v2' = v2
        BY <1>3 DEF Tree!ShowViewer
    <2>2. v6' \subseteq Navs
        BY <1>1, <1>3 DEF Tree!ShowViewer, Tree!Elsewhere, Navs
    <2>3. v1' \in BOOLEAN /\ v3' \subseteq Tree!Paths
        BY <1>1, <1>3 DEF Tree!ShowViewer
    <2>4. v7' \subseteq Starts
        <3>1. Tree!Elsewhere(v7) \subseteq Starts
            BY <1>1 DEF Tree!Elsewhere, Starts
        <3>2. [step |-> "roots", of |-> Start, here |-> TRUE] \in Starts
            BY FilePaths DEF Starts
        <3> QED
            BY <1>3, <3>1, <3>2 DEF Tree!ShowViewer
    <2> QED
        BY <1>1, <2>1, <2>2, <2>3, <2>4, TopNested, AwaitedPaths
<1>4. ASSUME NEW s \in v7, Tree!RootsAnswered(s) PROVE Next1
    <2>1. v7' \subseteq Starts
        BY <1>1, <1>4 DEF Tree!RootsAnswered, Starts
    <2> QED
        BY <1>1, <1>4, <2>1, FilePaths DEF Tree!RootsAnswered
<1>15. ASSUME NEW s \in v7, Tree!StartFails(s) PROVE Next1
    <2>1. (v4' = <<>> /\ v5' = v5 \cup Tree!Awaited(v4)) \/ UNCHANGED <<v4, v5>>
        BY <1>15 DEF Tree!StartFails, Tree!DrawnAnew
    <2>2. v4' \in Seq(TreeRow) /\ Nested(v4') /\ v5' \subseteq Tree!Paths
        BY <1>1, <2>1, TopNested, AwaitedPaths
    <2>3. v7' \subseteq Starts /\ UNCHANGED <<v1, v2, v3, v6>>
        BY <1>1, <1>15 DEF Tree!StartFails
    <2> QED
        BY <1>1, <2>2, <2>3
<1>5. ASSUME NEW s \in v7, Tree!StartAnswered(s) PROVE Next1
    <2>1. s.of \in Folders
        BY <1>1 DEF Starts
    <2>2. v4' \in Seq(TreeRow) /\ Nested(v4') /\ v5' \subseteq Tree!Paths
        BY <1>1, <1>5, <2>1, TopLevelStep DEF Tree!StartAnswered
    <2>3. v7' \subseteq Starts /\ UNCHANGED <<v1, v2, v3, v6>>
        BY <1>1, <1>5 DEF Tree!StartAnswered
    <2> QED
        BY <1>1, <2>2, <2>3
<1>6. ASSUME NEW p \in Folders, Tree!Navigate(p) PROVE Next1
    <2>1. v6' = v6 \cup {[to |-> p, here |-> TRUE]} /\ UNCHANGED <<v1, v2, v3, v4, v5, v7>>
        BY <1>6 DEF Tree!Navigate
    <2>2. [to |-> p, here |-> TRUE] \in Navs
        BY DEF Navs
    <2> QED
        BY <1>1, <2>1, <2>2
<1>7. CASE Tree!GoUpRoot
    <2>1. Tree!Front(v2) \in Folders
        BY <1>1, <1>7, PageAssumption DEF Tree!GoUpRoot, Tree!Front
    <2> QED
        BY <1>6, <1>7, <2>1 DEF Tree!GoUpRoot
<1>8. ASSUME NEW n \in v6, Tree!NavigateAnswered(n) PROVE Next1
    <2>1. n.to \in Folders
        BY <1>1 DEF Navs
    <2>2. v4' \in Seq(TreeRow) /\ Nested(v4') /\ v5' \subseteq Tree!Paths
        BY <1>1, <1>8, <2>1, TopLevelStep DEF Tree!NavigateAnswered
    <2> QED
        BY <1>1, <1>8, <2>1, <2>2 DEF Tree!NavigateAnswered
<1>9. ASSUME NEW n \in v6, Tree!NavigateFails(n) PROVE Next1
    BY <1>1, <1>9 DEF Tree!NavigateFails
<1>10. DOMAIN v4 = 1..Len(v4)
    BY <1>1, LenProperties
<1>11. ASSUME NEW i \in 1..Len(v4), Tree!ToggleDir(i) PROVE Next1
    <2>1. /\ v3' \subseteq Tree!Paths /\ v5' \subseteq Tree!Paths
          /\ v4' \in Seq(TreeRow) /\ Nested(v4')
        BY <1>1, <1>11, ToggleStep
    <2> QED
        BY <1>1, <1>11, <2>1 DEF Tree!ToggleDir
<1>12. ASSUME NEW i \in 1..Len(v4), Tree!DirAnswered(i) PROVE Next1
    <2>1. v4' \in Seq(TreeRow) /\ Nested(v4')
        BY <1>1, <1>12, AnsweredStep
    <2> QED
        BY <1>1, <1>12, <2>1 DEF Tree!DirAnswered
<1>13. ASSUME NEW i \in 1..Len(v4), Tree!DirFails(i) PROVE Next1
    <2>1. v4[i].asks > 0 /\ v4' = [v4 EXCEPT ![i].asks = @ - 1]
        BY <1>13 DEF Tree!DirFails
    <2>2. v4' \in Seq(TreeRow) /\ Nested(v4')
        BY <1>1, <2>1, AskedLess
    <2> QED
        BY <1>1, <1>13, <2>2 DEF Tree!DirFails
<1>14. ASSUME NEW p \in v5, NEW ok \in BOOLEAN, Tree!LostAnswered(p, ok) PROVE Next1
    BY <1>1, <1>14 DEF Tree!LostAnswered
<1> QED
    BY <1>2, <1>3, <1>4, <1>5, <1>6, <1>7, <1>8, <1>9, <1>10, <1>11, <1>12, <1>13, <1>14,
       <1>15 DEF Tree!TreeNext

(* The rows are nested as long as the page is about them.                  *)
LEMMA TreeAlways == PageSpec => [](part = "tree" => TreeInv)
<1> DEFINE Inv == part = "tree" => TreeInv
<1>1. PageInit => Inv
    <2>1. SUFFICES ASSUME PageInit, part = "tree" PROVE TreeInv
        OBVIOUS
    <2>2. Tree!TreeInit
        BY <2>1 DEF PageInit
    <2>3. /\ v1 = FALSE /\ v2 = Start /\ v3 = {} /\ v4 = <<>> /\ v5 = {} /\ v6 = {} /\ v7 = {}
        BY <2>2 DEF Tree!TreeInit
    <2>4. Tree!TreeTypeOK
        BY <2>3, FilePaths, TopNested, TreeTyped
    <2> QED
        BY <2>3, <2>4, TopNested DEF TreeInv
<1>2. Inv /\ [PageNext]_pageVars => Inv'
    <2>1. SUFFICES ASSUME Inv, [PageNext]_pageVars, part' = "tree" PROVE TreeInv'
        OBVIOUS
    <2>2. TreeInv /\ [Tree!TreeNext]_<<v1, v2, v3, v4, v5, v6, v7>>
        BY <2>1, ViewPartSteps
    <2> QED
        BY <2>2, TreeStep
<1> QED
    BY <1>1, <1>2, PTL DEF PageSpec

(* tree.js: in whatever order folders are opened, closed and answered, a   *)
(* row is in the block of the row of its folder; for any files.            *)
THEOREM RowsNested == PageSpec => []TreeNested
<1>1. (part = "tree" => TreeInv) => TreeNested
    BY NestedIs, TreeTyped DEF TreeInv, TreeNested
<1> QED
    BY <1>1, TreeAlways, PTL

-----------------------------------------------------------------------------
(* Of some statuses one is the most urgent.                                *)
LEMMA UrgentIs ==
    ASSUME NEW S \in SUBSET Statuses
    PROVE  /\ Agents!MostUrgent(S) \in S \cup {"idle"}
           /\ Agents!MostUrgent(S) \in Statuses
<1> DEFINE u == Agents!Urgency
<1>1. /\ u["waiting"] = 0 /\ u["done"] = 1 /\ u["working"] = 2 /\ u["error"] = 3
      /\ u["idle"] = 4
    BY DEF Agents!Urgency
<1>2. S \subseteq {"idle", "working", "done", "waiting", "error"} /\ "idle" \in Statuses
    BY PageAssumption
<1> HIDE DEF u
<1>3. ASSUME S # {} PROVE \E s \in S : \A r \in S : u[s] <= u[r]
    <2>1. CASE "waiting" \in S
        BY <1>1, <1>2, <2>1
    <2>2. CASE "waiting" \notin S /\ "done" \in S
        BY <1>1, <1>2, <2>2
    <2>3. CASE S \cap {"waiting", "done"} = {} /\ "working" \in S
        BY <1>1, <1>2, <2>3
    <2>4. CASE S \cap {"waiting", "done", "working"} = {} /\ "error" \in S
        BY <1>1, <1>2, <2>4
    <2>5. CASE S \subseteq {"idle"}
        <3>1. "idle" \in S /\ \A r \in S : r = "idle"
            BY <1>3, <2>5
        <3>2. \A r \in S : u["idle"] <= u[r]
            BY <1>1, <3>1
        <3> QED
            BY <3>1, <3>2
    <2> QED
        BY <1>2, <2>1, <2>2, <2>3, <2>4, <2>5
<1>4. CASE S = {}
    BY <1>2, <1>4 DEF Agents!MostUrgent
<1>5. CASE S # {}
    <2>1. Agents!MostUrgent(S) = CHOOSE s \in S : \A r \in S : u[s] <= u[r]
        BY <1>5 DEF Agents!MostUrgent, u
    <2> QED
        BY <1>3, <1>5, <2>1
<1> QED
    BY <1>4, <1>5

(* The statuses, dots and panes are what they can be.                      *)
Homes == AgentTabs \cup {NoTab, Shut}
(* What is due to be painted is a status.                                  *)
LEMMA DueTyped ==
    ASSUME v1 \in [AgentNames -> Statuses]
    PROVE  /\ \A t : Agents!GetStatus(t) \in Statuses
           /\ \A x : Agents!Due(x) \in Statuses
<1>1. "idle" \in Statuses
    BY PageAssumption
<1>2. \A t : Agents!GetStatus(t) \in Statuses
    BY <1>1 DEF Agents!GetStatus
<1> QED
    BY <1>1, <1>2 DEF Agents!Due

(* Drawing the panes leaves the types true.                                *)
LEMMA RenderedTyped ==
    ASSUME Agents!AgentTypeOK, NEW ps \in [AgentPanes -> Homes], NEW f, NEW c \in BOOLEAN,
           f \in Agents!LeavesOf(ps), Agents!Rendered(ps, f, c)
    PROVE  /\ v3' \in [AgentPanes -> Homes] /\ v4' \in Agents!LeavesOf(v3')
           /\ v5' \in BOOLEAN /\ v6' \in [AgentTabs \cup AgentPanes -> Statuses]
<1>1. "idle" \in Statuses
    BY PageAssumption
<1>2. v6 \in [AgentTabs \cup AgentPanes -> Statuses]
    BY DEF Agents!AgentTypeOK
<1>3. v6' \in [AgentTabs \cup AgentPanes -> Statuses]
    BY <1>1, <1>2 DEF Agents!Rendered
<1> QED
    BY <1>3 DEF Agents!Rendered

(* A tab put into a pane is in it, and what was a leaf is one still.       *)
LEMMA PutInTyped ==
    ASSUME Agents!AgentTypeOK, NEW p \in AgentPanes, NEW t \in AgentTabs \cup {NoTab}
    PROVE  /\ Agents!PutIn(p, t) \in [AgentPanes -> Homes]
           /\ Agents!PutIn(p, t)[p] = t /\ t # Shut
           /\ \A q \in Agents!LeavesOf(v3) \cup {p} : q \in Agents!LeavesOf(Agents!PutIn(p, t))
<1>1. v3 \in [AgentPanes -> Homes]
    BY DEF Agents!AgentTypeOK, Homes
<1>2. Shut \notin AgentTabs \cup {NoTab}
    BY PageAssumption
<1>3. \A q \in AgentPanes : Agents!PutIn(p, t)[q] =
          IF q = p THEN t ELSE IF v3[q] = t /\ t \in AgentTabs THEN NoTab ELSE v3[q]
    BY DEF Agents!PutIn
<1>4. Agents!PutIn(p, t) = [q \in AgentPanes |-> Agents!PutIn(p, t)[q]]
    BY DEF Agents!PutIn
<1>5. \A q \in AgentPanes : Agents!PutIn(p, t)[q] \in Homes
    BY <1>1, <1>3 DEF Homes
<1>6. Agents!PutIn(p, t) \in [AgentPanes -> Homes]
    BY <1>4, <1>5
<1> QED
    BY <1>1, <1>2, <1>3, <1>6 DEF Agents!LeavesOf

(* Every step of the statuses and of what is painted keeps their types.    *)
LEMMA AgentsTyped ==
    Agents!AgentTypeOK /\ [Agents!AgentNext]_<<v1, v2, v3, v4, v5, v6, v7, v8, v9, v10>>
        => Agents!AgentTypeOK'
<1> SUFFICES ASSUME Agents!AgentTypeOK,
                    [Agents!AgentNext]_<<v1, v2, v3, v4, v5, v6, v7, v8, v9, v10>>
             PROVE  Agents!AgentTypeOK'
    OBVIOUS
<1> DEFINE Dots == [AgentTabs \cup AgentPanes -> Statuses]
           Marks == [AgentTabs -> SUBSET {"working", "done"}]
           Names == [AgentNames -> Statuses]
           Tabs == [AgentTabs -> AgentNames \cup {NoName, Shut}]
           Homed == [AgentPanes -> Homes]
           Icons == Statuses \ {"error"}
           Places == [AgentNames -> Dirs \cup {NoName}]
           Next1 == /\ v1' \in Names /\ v2' \in Tabs /\ v3' \in Homed
                    /\ v4' \in Agents!LeavesOf(v3') /\ v5' \in BOOLEAN
                    /\ v6' \in Dots /\ v7' \in Marks /\ v8' \in BOOLEAN
                    /\ v9' \in Icons /\ v10' \in Places
<1>1. /\ v1 \in Names /\ v2 \in Tabs /\ v3 \in Homed
      /\ v4 \in Agents!LeavesOf(v3) /\ v5 \in BOOLEAN
      /\ v6 \in Dots /\ v7 \in Marks /\ v8 \in BOOLEAN
      /\ v9 \in Icons /\ v10 \in Places
    BY DEF Agents!AgentTypeOK, Homes
<1>2. SUFFICES Next1
    BY DEF Agents!AgentTypeOK, Homes
<1>3. {"idle", "working", "done"} \subseteq Statuses /\ {"idle", "working", "done"} \subseteq Icons
    BY PageAssumption
<1>4. Agents!OpenTabs \subseteq AgentTabs /\ Agents!LeavesOf(v3) \subseteq AgentPanes
    BY DEF Agents!OpenTabs, Agents!LeavesOf
<1>5. ASSUME NEW t, v7' = [v7 EXCEPT ![t] = @ \ {"done"}] \/ v7' = [v7 EXCEPT ![t] = {}] \/ v7' = v7
      PROVE  v7' \in Marks
    BY <1>1, <1>5
<1>6. ASSUME NEW t, v1' \in {v1, Agents!Acked(t)} PROVE v1' \in Names
    BY <1>1, <1>3, <1>6 DEF Agents!Acked
<1>7. ASSUME NEW all \in [AgentNames -> SUBSET Statuses], Agents!ApplySnapshot(all)
      PROVE  v1' \in Names /\ v8' \in BOOLEAN
    BY <1>1, <1>7, UrgentIs DEF Agents!ApplySnapshot, Agents!Notified
<1>8. CASE Agents!PaintAll
    <2>1. v6' \in Dots
        BY <1>1, <1>8, DueTyped DEF Agents!PaintAll
    <2>2. v7' \in Marks
        BY <1>8 DEF Agents!PaintAll
    <2>3. v9' \in Icons
        <3> DEFINE S == {Agents!GetStatus(t) : t \in Agents!OpenTabs} \ {"error"}
        <3>1. S \in SUBSET Statuses /\ "error" \notin S
            BY <1>1, DueTyped
        <3>2. v9' = Agents!MostUrgent(S)
            BY <1>8 DEF Agents!PaintAll
        <3> HIDE DEF S
        <3> QED
            BY <3>1, <3>2, UrgentIs
    <2> QED
        BY <1>1, <1>8, <2>1, <2>2, <2>3 DEF Agents!PaintAll, Agents!pageVars
<1>9. CASE Agents!PageSeen
    BY <1>1, <1>3, <1>9 DEF Agents!PageSeen, Agents!pageVars
<1>10. ASSUME NEW all \in [AgentNames -> SUBSET Statuses], Agents!StatusSync(all) PROVE Next1
    BY <1>1, <1>7, <1>10 DEF Agents!StatusSync, Agents!pageVars, Agents!paintVars
<1>11. ASSUME NEW all \in [AgentNames -> SUBSET Statuses], NEW active, Agents!Snapshot(all, active)
       PROVE  Next1
    <2>1. v7' \in Marks
        BY <1>1, <1>11 DEF Agents!Snapshot
    <2>2. v9' \in Icons
        BY <1>1, <1>3, <1>11 DEF Agents!Snapshot
    <2> QED
        BY <1>1, <1>7, <1>11, <2>1, <2>2 DEF Agents!Snapshot, Agents!pageVars
<1>12. ASSUME NEW n \in AgentNames \cup {NoName}, NEW s \in Statuses,
              NEW what \in {"working", "done", "other"}, NEW d, Agents!AgentEvent(n, s, what, d)
       PROVE  Next1
    <2>1. v7' \in Marks
        BY <1>1, <1>12 DEF Agents!AgentEvent
    <2>2. v9' \in Icons
        BY <1>1, <1>3, <1>12 DEF Agents!AgentEvent
    <2>3. v1' \in Names /\ v8' \in BOOLEAN
        BY <1>1, <1>12 DEF Agents!AgentEvent, Agents!Notified
    <2> QED
        BY <1>1, <1>12, <2>1, <2>2, <2>3 DEF Agents!AgentEvent, Agents!pageVars
<1>13. ASSUME NEW f \in Places, Agents!PlacesArrive(f) PROVE Next1
    BY <1>1, <1>13 DEF Agents!PlacesArrive, Agents!pageVars, Agents!paintVars
<1>14. ASSUME NEW ps \in Homed, NEW f, f \in Agents!LeavesOf(ps), Agents!Rendered(ps, f, v5)
       PROVE  /\ v3' \in Homed /\ v4' \in Agents!LeavesOf(v3') /\ v5' \in BOOLEAN
              /\ v6' \in Dots
    BY <1>1, <1>14, RenderedTyped
<1>15. ASSUME NEW p \in Agents!LeavesOf(v3) \cup {v4}, NEW t \in AgentTabs \cup {NoTab},
              Agents!Rendered(Agents!PutIn(p, t), v4, v5)
       PROVE  /\ v3' \in Homed /\ v4' \in Agents!LeavesOf(v3') /\ v5' \in BOOLEAN
              /\ v6' \in Dots
    BY <1>1, <1>4, <1>14, <1>15, PutInTyped
<1>16. ASSUME NEW t, Agents!ShowTab(t), v1' \in {v1, Agents!Acked(t)} PROVE Next1
    BY <1>1, <1>4, <1>5, <1>6, <1>15, <1>16 DEF Agents!ShowTab
<1>17. ASSUME NEW t, Agents!OtherShown(t) \/ Agents!ClickTab(t) PROVE Next1
    BY <1>16, <1>17 DEF Agents!OtherShown, Agents!ClickTab
<1>18. ASSUME NEW t \in AgentTabs, NEW n \in AgentNames \cup {NoName}, Agents!NewTab(t, n)
       PROVE  Next1
    <2>1. v2' \in Tabs
        BY <1>1, <1>18 DEF Agents!NewTab
    <2> QED
        BY <1>1, <1>15, <1>18, <2>1 DEF Agents!NewTab
<1>19. ASSUME NEW t \in AgentTabs, Agents!RemoveTab(t) PROVE Next1
    <2>1. v2' \in Tabs
        BY <1>1, <1>19 DEF Agents!RemoveTab
    <2>2. v3' \in Homed /\ v4' \in Agents!LeavesOf(v3')
        <3>1. NoTab # Shut
            BY PageAssumption
        <3> QED
            BY <1>1, <1>19, <3>1 DEF Agents!RemoveTab, Homes, Agents!LeavesOf
    <2>3. v6' \in Dots
        BY <1>1, <1>3, <1>19 DEF Agents!RemoveTab
    <2>4. v7' \in Marks
        BY <1>5, <1>19 DEF Agents!RemoveTab
    <2>5. v1' \in Names
        BY <1>6, <1>19 DEF Agents!RemoveTab
    <2> QED
        BY <1>1, <1>19, <2>1, <2>2, <2>3, <2>4, <2>5 DEF Agents!RemoveTab
<1>20. ASSUME NEW ps \in Homed, NEW f, f \in Agents!LeavesOf(ps), Agents!Relaid(ps, f),
              v1' = v1, v7' = v7
       PROVE  Next1
    BY <1>1, <1>14, <1>20 DEF Agents!Relaid, Agents!Scheduled
<1>21. ASSUME NEW p \in AgentPanes, NEW q \in AgentPanes, NEW t \in AgentTabs \cup {NoTab},
              Agents!Split(p, q, t)
       PROVE  Next1
    <2> DEFINE ps == [Agents!PutIn(q, t) EXCEPT ![q] = t]
    <2>1. ps \in Homed /\ q \in Agents!LeavesOf(ps)
        BY PutInTyped DEF Agents!LeavesOf, Homes
    <2> HIDE DEF ps
    <2> QED
        BY <1>20, <1>21, <2>1 DEF Agents!Split, ps
<1>22. ASSUME NEW p \in AgentPanes, NEW f \in AgentPanes, Agents!Unsplit(p, f) PROVE Next1
    <2> DEFINE ps == [v3 EXCEPT ![p] = Shut]
    <2>1. ps \in Homed
        BY <1>1 DEF Homes
    <2>2. f \in Agents!LeavesOf(ps)
        BY <1>1, <1>22 DEF Agents!Unsplit, Agents!LeavesOf
    <2> HIDE DEF ps
    <2> QED
        BY <1>20, <1>22, <2>1, <2>2 DEF Agents!Unsplit, ps
<1>23. ASSUME NEW p \in AgentPanes, NEW t \in AgentTabs, Agents!Drop(p, t) PROVE Next1
    BY <1>1, <1>20, <1>23, PutInTyped DEF Agents!Drop
<1>24. ASSUME NEW p \in AgentPanes, Agents!Step(p) PROVE Next1
    BY <1>1, <1>20, <1>24 DEF Agents!Step
<1>25. CASE Agents!Turn
    BY <1>1, <1>25, RenderedTyped DEF Agents!Turn
<1>26. CASE UNCHANGED <<v1, v2, v3, v4, v5, v6, v7, v8, v9, v10>>
    BY <1>1, <1>26
<1> HIDE DEF Next1
<1>27. ASSUME NEW n \in AgentNames \cup {NoName}, NEW d \in Dirs \cup {NoName},
              \/ \E s \in Statuses \cap {"working", "waiting"} : Agents!AgentEvent(n, s, "working", d)
              \/ Agents!AgentEvent(n, "done", "done", d)
              \/ \E s \in Statuses : Agents!AgentEvent(n, s, "other", NoName)
       PROVE  Next1
    BY <1>3, <1>12, <1>27
<1> QED
    BY <1>8, <1>9, <1>10, <1>11, <1>13, <1>17, <1>18, <1>19, <1>21, <1>22, <1>23, <1>24, <1>25,
       <1>26, <1>27 DEF Agents!AgentNext

(* The pane: commits and where pages of them start are no more than the    *)
(* repository has.                                                         *)
PaneKinds ==
    /\ v1 \in Pane!Views \cup {"empty", "loading", "message"} /\ v2 \in SUBSET Pane!Views
    /\ v3 \in {"clean", "changed", "staged"} /\ v5 \in {"clean", "changed", "staged"}
    /\ v6 \in SUBSET {"stage", "commit"} /\ v7 \in SUBSET {"stage", "commit"}
PageAsks == [skip : 0..MaxCommits, here : BOOLEAN]
LogBounds ==
    /\ v4 \in 1..MaxCommits
    /\ \A k \in DOMAIN v8.commits : v8.commits[k] \in 1..MaxCommits
    /\ v8.more \in {-1} \cup 0..MaxCommits
    /\ v9 \in SUBSET PageAsks

(* The types of the pane, the log apart.                                   *)
LEMMA PaneParts == Pane!PaneTypeOK <=> PaneKinds /\ LogBounds
BY DEF Pane!PaneTypeOK, PaneKinds, LogBounds, PageAsks, Pane!NoMore

(* Every step keeps the types of the pane but for the log.                 *)
LEMMA KindsStep ==
    PaneKinds /\ [Pane!PaneNext]_<<v1, v2, v3, v4, v5, v6, v7, v8, v9>> => PaneKinds'
<1> SUFFICES ASSUME PaneKinds, [Pane!PaneNext]_<<v1, v2, v3, v4, v5, v6, v7, v8, v9>>
             PROVE  PaneKinds'
    OBVIOUS
<1>1. ASSUME NEW v \in Pane!Views, Pane!Show(v) \/ Pane!Shown(v) \/ Pane!ShownAsMessage(v)
      PROVE  PaneKinds'
    BY <1>1 DEF Pane!Show, Pane!Shown, Pane!ShownAsMessage, Pane!Emptied, PaneKinds
<1>2. CASE Pane!More \/ Pane!AgentEdits \/ Pane!AgentCommits \/ Pane!ReopenViewer
    BY <1>2 DEF Pane!More, Pane!AgentEdits, Pane!AgentCommits, Pane!ReopenViewer, Pane!Emptied,
                PaneKinds
<1>3. ASSUME NEW a \in v9, Pane!LogAnswered(a) \/ Pane!LogFails(a) PROVE PaneKinds'
    BY <1>3 DEF Pane!LogAnswered, Pane!LogFails, PaneKinds
<1>4. ASSUME NEW b \in {"stage", "commit"}, Pane!Press(b) \/ Pane!NotDone(b) PROVE PaneKinds'
    BY <1>4 DEF Pane!Press, Pane!NotDone, PaneKinds
<1>5. ASSUME NEW b \in {"stage", "commit"}, Pane!Done(b) PROVE PaneKinds'
    BY <1>5 DEF Pane!Done, Pane!Emptied, PaneKinds, Pane!Views
<1>6. CASE UNCHANGED <<v1, v2, v3, v4, v5, v6, v7, v8, v9>>
    BY <1>6 DEF PaneKinds
<1> QED
    BY <1>1, <1>2, <1>3, <1>4, <1>5, <1>6 DEF Pane!PaneNext

(* A log that is emptied, with or without its first page asked for, is     *)
(* within bounds.                                                          *)
LEMMA EmptiedBounds ==
    ASSUME LogBounds, v8' = Pane!NoLog, v4' \in 1..MaxCommits,
           v9' \in {Pane!Away, Pane!Away \cup {[skip |-> 0, here |-> TRUE]}}
    PROVE  LogBounds'
<1>1. /\ v8'.commits = <<>> /\ v8'.more = -1 /\ DOMAIN v8'.commits = {}
    BY DEF Pane!NoLog, Pane!NoMore
<1>2. MaxCommits \in Nat
    BY PageAssumption
<1>3. [skip |-> 0, here |-> TRUE] \in PageAsks
    BY <1>2 DEF PageAsks
<1>4. \A b \in v9 : [b EXCEPT !.here = FALSE] \in PageAsks
    BY DEF LogBounds, PageAsks
<1>5. \A a \in v9' : a = [skip |-> 0, here |-> TRUE] \/ \E b \in v9 : a = [b EXCEPT !.here = FALSE]
    BY DEF Pane!Away
<1> QED
    BY <1>1, <1>3, <1>4, <1>5 DEF LogBounds

(* A page that comes keeps the log within the commits there are.           *)
LEMMA AnswerBounds ==
    ASSUME LogInv, LogBounds, NEW a \in v9, Pane!LogAnswered(a)
    PROVE  LogBounds'
<1> DEFINE page == Pane!PageOf(a.skip)
           all == v8.commits \o page
           next == IF a.skip + Page < v4 THEN a.skip + Len(page) ELSE -1
<1>1. /\ v9' = v9 \ {a} /\ v4' = v4
      /\ v8' = IF ~a.here \/ page = <<>> THEN v8 ELSE [commits |-> all, more |-> next]
    BY DEF Pane!LogAnswered, Pane!ForShown, Pane!NextSkip, Pane!NoMore
<1>2. /\ v4 \in Nat /\ v4 \in 1..MaxCommits /\ a.skip \in Nat /\ v8.commits \in Seq(Int)
      /\ MaxCommits \in Nat /\ Page \in Nat
    BY PageAssumption DEF LogInv, LogTyped, LogBounds
<1>3. CASE v8' = v8
    BY <1>1, <1>3 DEF LogBounds
<1>4. CASE v8' # v8
    <2>1. v8'.commits = all /\ v8'.more = next
        BY <1>1, <1>4
    <2>2. a.skip < v4
        BY <1>1, <1>4 DEF Pane!PageOf
    <2>3. /\ page \in Seq(Int) /\ Len(page) \in Nat \ {0}
          /\ \A k \in 1..Len(page) : page[k] = v4 - a.skip - k + 1
          /\ a.skip + Page < v4 => Len(page) = Page
        BY <1>2, <2>2, PageHasNoGap
    <2>4. Len(page) <= v4 - a.skip
        <3>1. Len(page) = IF v4 - a.skip < Page THEN v4 - a.skip ELSE Page
            BY <1>2, <2>2 DEF Pane!PageOf, Pane!Commits
        <3> QED
            BY <1>2, <2>2, <3>1
    <2> HIDE DEF page
    <2>5. /\ all \in Seq(Int) /\ Len(all) = Len(v8.commits) + Len(page)
          /\ \A k \in 1..(Len(v8.commits) + Len(page)) :
                all[k] = IF k <= Len(v8.commits) THEN v8.commits[k]
                         ELSE page[k - Len(v8.commits)]
        BY <1>2, <2>3, ConcatProperties
    <2>6. next \in {-1} \cup 0..MaxCommits
        BY <1>2, <2>3
    <2>7. ASSUME NEW k \in 1..Len(page) PROVE page[k] \in 1..MaxCommits
        <3>1. page[k] = v4 - a.skip - k + 1 /\ k \in Nat /\ k >= 1 /\ k <= Len(page)
            BY <2>3
        <3> QED
            BY <1>2, <2>2, <2>3, <2>4, <3>1
    <2>8. ASSUME NEW k \in DOMAIN all PROVE all[k] \in 1..MaxCommits
        <3>1. k \in 1..(Len(v8.commits) + Len(page)) /\ Len(v8.commits) \in Nat
            BY <1>2, <2>5
        <3>2. CASE k <= Len(v8.commits)
            <4>1. k \in DOMAIN v8.commits /\ all[k] = v8.commits[k]
                BY <1>2, <2>5, <3>1, <3>2
            <4> QED
                BY <4>1 DEF LogBounds
        <3>3. CASE k > Len(v8.commits)
            <4> DEFINE j == k - Len(v8.commits)
            <4>1. j \in 1..Len(page)
                BY <2>3, <3>1, <3>3
            <4>2. all[k] = page[j]
                BY <2>5, <3>1, <3>3
            <4> HIDE DEF j
            <4> QED
                BY <2>7, <4>1, <4>2
        <3> QED
            BY <3>1, <3>2, <3>3
    <2> HIDE DEF next, all
    <2> QED
        BY <1>1, <2>1, <2>6, <2>8 DEF LogBounds
<1> QED
    BY <1>3, <1>4

(* Every step of the pane keeps the log within bounds.                     *)
LEMMA BoundsStep ==
    LogInv /\ LogBounds /\ [Pane!PaneNext]_<<v1, v2, v3, v4, v5, v6, v7, v8, v9>> => LogBounds'
<1> SUFFICES ASSUME LogInv, LogBounds,
                    [Pane!PaneNext]_<<v1, v2, v3, v4, v5, v6, v7, v8, v9>>
             PROVE  LogBounds'
    OBVIOUS
<1>1. v4 \in 1..MaxCommits /\ MaxCommits \in Nat
    BY PageAssumption DEF LogBounds
<1>2. ASSUME v8' = v8, v9' \subseteq v9, v4' \in 1..MaxCommits PROVE LogBounds'
    BY <1>2 DEF LogBounds
<1>3. ASSUME NEW v, Pane!Show(v) \/ Pane!Shown(v) \/ Pane!ShownAsMessage(v) PROVE LogBounds'
    BY <1>1, <1>3, EmptiedBounds
       DEF Pane!Show, Pane!Shown, Pane!ShownAsMessage, Pane!Emptied
<1>4. CASE Pane!More
    <2>1. /\ v8.more # -1 /\ v4' = v4
          /\ v9' = v9 \cup {[skip |-> v8.more, here |-> TRUE]}
          /\ v8' = [v8 EXCEPT !.more = -1]
        BY <1>4 DEF Pane!More, Pane!NoMore
    <2>2. v8'.commits = v8.commits /\ v8'.more = -1
        BY <2>1 DEF LogInv, LogTyped
    <2>3. [skip |-> v8.more, here |-> TRUE] \in PageAsks
        BY <2>1 DEF LogBounds, PageAsks
    <2> QED
        BY <2>1, <2>2, <2>3 DEF LogBounds
<1>5. ASSUME NEW a \in v9, Pane!LogAnswered(a) PROVE LogBounds'
    BY <1>5, AnswerBounds
<1>6. ASSUME NEW a \in v9, Pane!LogFails(a) PROVE LogBounds'
    BY <1>1, <1>2, <1>6 DEF Pane!LogFails
<1>7. ASSUME NEW b, Pane!Press(b) \/ Pane!NotDone(b) PROVE LogBounds'
    BY <1>1, <1>2, <1>7 DEF Pane!Press, Pane!NotDone
<1>8. ASSUME NEW b, Pane!Done(b) PROVE LogBounds'
    <2>1. v4' = v4 \/ (v4 < MaxCommits /\ v4' = v4 + 1)
        BY <1>8 DEF Pane!Done
    <2>2. v4' \in 1..MaxCommits
        BY <1>1, <2>1
    <2> QED
        BY <1>8, <2>2, EmptiedBounds DEF Pane!Done, Pane!Emptied
<1>9. CASE Pane!AgentEdits
    BY <1>1, <1>2, <1>9 DEF Pane!AgentEdits
<1>10. CASE Pane!AgentCommits
    <2>1. v4' \in 1..MaxCommits
        BY <1>1, <1>10 DEF Pane!AgentCommits
    <2> QED
        BY <1>2, <1>10, <2>1 DEF Pane!AgentCommits
<1>11. CASE Pane!ReopenViewer
    BY <1>1, <1>11, EmptiedBounds DEF Pane!ReopenViewer, Pane!Emptied
<1>12. CASE UNCHANGED <<v1, v2, v3, v4, v5, v6, v7, v8, v9>>
    BY <1>1, <1>2, <1>12
<1> QED
    BY <1>3, <1>4, <1>5, <1>6, <1>7, <1>8, <1>9, <1>10, <1>11, <1>12 DEF Pane!PaneNext

(* The panes.  What LayoutInv leaves open; every pane of the tree is one   *)
(* there may be.                                                           *)
LayoutRest ==
    /\ Layout!PanesOf(v1) \subseteq Panes
    /\ v4 \in Users \cup {NoSession} /\ v5 \in SUBSET Users /\ v6 \in SUBSET Users
    /\ v7 \in Panes \cup {0} /\ v8 \in Caps /\ v9 \in BOOLEAN

(* A good tree is one of the type's: the nodes with something below them   *)
(* are the splits, and both children of a split are there.                 *)
LEMMA PanesTyped == LayoutInv /\ LayoutRest => Layout!LayoutTypeOK
<1> SUFFICES ASSUME LayoutInv, LayoutRest PROVE Layout!LayoutTypeOK
    OBVIOUS
<1>1. /\ DOMAIN v1 \subseteq Path /\ v1 \in [DOMAIN v1 -> Node]
      /\ \A q \in DOMAIN v1, u \in Path :
            Layout!IsPrefix(u, q) /\ u # q => u \in DOMAIN v1 /\ v1[u].kind = "split"
      /\ \A q \in DOMAIN v1, x \in {"a", "b"} :
            v1[q].kind = "split" => Append(q, x) \in DOMAIN v1
    BY DEF LayoutInv, GoodTree, TreeShape
<1>2. ASSUME NEW p \in DOMAIN v1
      PROVE  v1[p].kind = "split" <=> Append(p, "a") \in DOMAIN v1
    <2>1. Append(p, "a") # p /\ Layout!IsPrefix(p, Append(p, "a"))
        BY <1>1, ChildAt
    <2> QED
        BY <1>1, <2>1
<1>3. ASSUME NEW p \in DOMAIN v1, p # <<>> PROVE Layout!Sibling(p) \in DOMAIN v1
    <2>1. /\ Layout!Front(p) \in Path /\ Layout!IsPrefix(Layout!Front(p), p)
          /\ Len(p) \in Nat \ {0} /\ Len(Layout!Front(p)) = Len(p) - 1
          /\ p[Len(p)] \in {"a", "b"}
        BY <1>1, <1>3, SiblingAt
    <2>2. Layout!Front(p) # p
        BY <2>1
    <2>3. Layout!Front(p) \in DOMAIN v1 /\ v1[Layout!Front(p)].kind = "split"
        BY <1>1, <2>1, <2>2
    <2>4. Layout!Other(p[Len(p)]) \in {"a", "b"}
        BY DEF Layout!Other
    <2>5. Layout!Sibling(p) = Append(Layout!Front(p), Layout!Other(p[Len(p)]))
        BY DEF Layout!Sibling, Layout!Last
    <2> QED
        BY <1>1, <2>3, <2>4, <2>5
<1>4. v1 \in UNION {[D -> Node] : D \in {DOMAIN v1}}
    BY <1>1
<1>5. v2 \in Panes /\ v3 \in [Users -> {"unused", "open", "gone"}]
    BY DEF LayoutInv, LayoutRest
<1> QED
    BY <1>2, <1>3, <1>4, <1>5 DEF LayoutRest, Layout!LayoutTypeOK, Node

(* Whatever is drawn is of its type, if the tree's panes are.              *)
LEMMA DrawnTyped ==
    ASSUME NEW t, NEW pane, NEW l, Layout!PanesOf(t) \subseteq Panes, Layout!Draw(t, pane, l)
    PROVE  Layout!PanesOf(v1)' \subseteq Panes /\ v6' \in SUBSET Users
<1>1. v1' = t /\ v6' = Layout!Drawn(t, pane, l)
    BY DEF Layout!Draw
<1> QED
    BY <1>1 DEF Layout!Drawn, Layout!PanesOf, Layout!Leaves

(* Every step of the layout keeps what its invariant does not say of its   *)
(* types.                                                                  *)
LEMMA LayoutTyped ==
    LayoutInv /\ LayoutRest /\ [Layout!LayoutNext]_<<v1, v2, v3, v4, v5, v6, v7, v8, v9>>
        => LayoutRest'
<1> SUFFICES ASSUME LayoutInv, LayoutRest,
                    [Layout!LayoutNext]_<<v1, v2, v3, v4, v5, v6, v7, v8, v9>>
             PROVE  LayoutRest'
    OBVIOUS
<1>1. /\ GoodTree(v1) /\ v2 \in Layout!PanesOf(v1) /\ Layout!PanesOf(v1) \subseteq Panes
      /\ v4 \in Users \cup {NoSession} /\ v5 \in SUBSET Users /\ v6 \in SUBSET Users
      /\ v7 \in Panes \cup {0} /\ v8 \in Caps /\ v9 \in BOOLEAN
    BY DEF LayoutInv, LayoutRest
<1>2. ASSUME NEW t, NEW pane, NEW l, Layout!PanesOf(t) \subseteq Panes, Layout!Draw(t, pane, l),
             v4' \in Users \cup {NoSession}, v5' \in SUBSET Users, v7' \in Panes \cup {0},
             v8' = v8, v9' \in BOOLEAN
      PROVE  LayoutRest'
    BY <1>1, <1>2, DrawnTyped DEF LayoutRest
<1>3. ASSUME UNCHANGED v1, v4' = v4, v5' \in SUBSET Users, v6' \in SUBSET Users,
             v7' \in Panes \cup {0}, v8' \in Caps, v9' \in BOOLEAN
      PROVE  LayoutRest'
    BY <1>1, <1>3 DEF LayoutRest, Layout!PanesOf, Layout!Leaves
<1>4. \A pane : \A s \in Users \cup {NoSession} :
          Layout!PanesOf(Layout!SetSession(v1, pane, s)) \subseteq Panes
    BY <1>1, SetSessionGood
<1>5. ASSUME NEW s \in Users, NEW pane, NEW l, Layout!Show(s, pane, l),
             v5' \in SUBSET Users, v7' \in Panes \cup {0}, v8' = v8, v9' = v9
      PROVE  LayoutRest'
    <2>1. Layout!Draw(Layout!SetSession(v1, pane, s), pane, l) /\ v4' = s
        BY <1>5 DEF Layout!Show
    <2>2. Layout!PanesOf(Layout!SetSession(v1, pane, s)) \subseteq Panes
        BY <1>4
    <2>3. v9' \in BOOLEAN
        BY <1>1, <1>5
    <2> QED
        BY <1>2, <1>5, <2>1, <2>2, <2>3
<1>6. ASSUME NEW s \in Users, Layout!SwitchTo(s) \/ Layout!AddSession(s) \/ Layout!PickSession(s)
      PROVE  LayoutRest'
    BY <1>1, <1>5, <1>6 DEF Layout!SwitchTo, Layout!AddSession, Layout!PickSession
<1>7. ASSUME NEW s \in Users, Layout!RemoveSession(s) PROVE LayoutRest'
    <2>1. v5' \in SUBSET Users /\ v6' \in SUBSET Users
        BY <1>1, <1>7 DEF Layout!RemoveSession
    <2>2. UNCHANGED <<v1, v4, v7, v8, v9>>
        BY <1>7 DEF Layout!RemoveSession
    <2>3. v7' \in Panes \cup {0} /\ v8' \in Caps /\ v9' \in BOOLEAN
        BY <1>1, <2>2
    <2> QED
        BY <1>3, <2>1, <2>2, <2>3
<1>8. ASSUME NEW s \in Users, Layout!RemoveAnswered(s) PROVE LayoutRest'
    BY <1>1, <1>2, <1>4, <1>5, <1>8 DEF Layout!RemoveAnswered
<1>9. ASSUME NEW pane \in Panes, NEW new \in BOOLEAN, pane \in Layout!PanesOf(v1),
             Layout!HasFreshPane
      PROVE  LET t == Layout!SplitPane(v1, pane, Layout!Leaf(Layout!FreshPane, NoSession), new)
             IN  GoodTree(t) /\ Layout!PanesOf(t) \subseteq Panes
    <2>1. Layout!FreshPane \in Panes \ Layout!PanesOf(v1)
        BY <1>9, FreshPaneFresh
    <2> QED
        BY <1>1, <1>9, <2>1, SplitPaneGood
<1>10. ASSUME NEW pane \in Panes, Layout!SplitButton(pane) PROVE LayoutRest'
    <2>1. pane \in Layout!PanesOf(v1) /\ FALSE \in BOOLEAN
        BY <1>1, <1>10, DrawnInTree DEF Layout!SplitButton
    <2>2. Layout!PanesOf(Layout!SplitPane(v1, pane, Layout!Leaf(Layout!FreshPane, NoSession),
                                          FALSE)) \subseteq Panes
        BY <1>9, <1>10, <2>1 DEF Layout!SplitButton
    <2> QED
        BY <1>1, <1>2, <1>10, <2>2 DEF Layout!SplitButton
<1>11. ASSUME NEW pane \in Panes, Layout!CloseButton(pane) PROVE LayoutRest'
    <2>1. Layout!PanesOf(Layout!ClosePane(v1, pane)) \subseteq Panes
        BY <1>1, ClosePaneGood
    <2>2. /\ \E to : Layout!Draw(Layout!ClosePane(v1, pane), to, v3)
          /\ UNCHANGED <<v4, v5, v7, v8, v9>>
        BY <1>11 DEF Layout!CloseButton
    <2>3. /\ v4' \in Users \cup {NoSession} /\ v5' \in SUBSET Users
          /\ v7' \in Panes \cup {0} /\ v9' \in BOOLEAN
        BY <1>1, <2>2
    <2> QED
        BY <1>2, <2>1, <2>2, <2>3
<1>12. ASSUME NEW pane \in Panes, NEW s \in Users, Layout!DropCenter(pane, s) PROVE LayoutRest'
    BY <1>1, <1>2, <1>4, <1>12 DEF Layout!DropCenter
<1>13. ASSUME NEW pane \in Panes, NEW s \in Users, NEW new \in BOOLEAN,
              Layout!DropEdge(pane, s, new)
       PROVE  LayoutRest'
    <2> DEFINE t == Layout!SplitPane(v1, pane, Layout!Leaf(Layout!FreshPane, NoSession), new)
    <2>1. GoodTree(t) /\ Layout!PanesOf(t) \subseteq Panes
        BY <1>9, <1>13 DEF Layout!DropEdge
    <2>2. /\ Layout!Draw(Layout!SetSession(t, Layout!FreshPane, s), Layout!FreshPane, v3)
          /\ UNCHANGED <<v4, v5, v7, v8, v9>>
        BY <1>13 DEF Layout!DropEdge, Layout!Dropped
    <2> HIDE DEF t
    <2>3. Layout!PanesOf(Layout!SetSession(t, Layout!FreshPane, s)) \subseteq Panes
        BY <2>1, SetSessionGood
    <2> QED
        BY <1>1, <1>2, <2>2, <2>3
<1>14. ASSUME NEW delta, Layout!StepView(delta) PROVE LayoutRest'
    <2>1. CASE Layout!StepActivePane(delta)
        <3>1. /\ UNCHANGED <<v4, v5, v7, v8, v9>>
              /\ \E pane : Layout!Draw(v1, pane, v3)
            BY <2>1 DEF Layout!StepActivePane
        <3> QED
            BY <1>1, <1>2, <3>1
    <2>2. CASE Layout!StepSession
        BY <1>6, <2>2 DEF Layout!StepSession
    <2> QED
        BY <1>14, <2>1, <2>2 DEF Layout!StepView
<1>15. ASSUME NEW pane \in Panes, Layout!OpenPicker(pane) PROVE LayoutRest'
    BY <1>1, <1>3, <1>15 DEF Layout!OpenPicker
<1>16. CASE Layout!PickNew \/ Layout!Redraw
    BY <1>1, <1>2, <1>16 DEF Layout!PickNew, Layout!Redraw
<1>17. CASE Layout!ClosePicker \/ \E c \in Caps : Layout!ResizeWindow(c)
    BY <1>1, <1>3, <1>17 DEF Layout!ClosePicker, Layout!ResizeWindow
<1>18. CASE UNCHANGED <<v1, v2, v3, v4, v5, v6, v7, v8, v9>>
    BY <1>1, <1>3, <1>18
<1>19. TRUE \in BOOLEAN /\ FALSE \in BOOLEAN
    OBVIOUS
<1> QED
    BY <1>6, <1>7, <1>8, <1>10, <1>11, <1>12, <1>13, <1>14, <1>15, <1>16, <1>17, <1>18, <1>19
       DEF Layout!LayoutNext

(* And it is true at the start.                                            *)
LEMMA LayoutTypedAtStart == Layout!LayoutInit => LayoutRest
<1> SUFFICES ASSUME Layout!LayoutInit PROVE LayoutRest
    OBVIOUS
<1>1. Layout!MinOf(Panes) \in Panes
    <2>1. \E x \in Panes : \A y \in Panes : x <= y
        BY PageAssumption, LeastOf
    <2> QED
        BY <2>1 DEF Layout!MinOf
<1>2. v1 = [p \in {<<>>} |-> Layout!Leaf(Layout!MinOf(Panes), NoSession)]
    BY DEF Layout!LayoutInit
<1>3. Layout!PanesOf(v1) \subseteq Panes
    BY <1>1, <1>2 DEF Layout!PanesOf, Layout!Leaves, Layout!Leaf
<1> QED
    BY <1>3 DEF LayoutRest, Layout!LayoutInit
=============================================================================
