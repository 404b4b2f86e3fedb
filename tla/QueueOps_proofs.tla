--------------------------- MODULE QueueOps_proofs ---------------------------
(***************************************************************************)
(* What the list operations of QueueOps return, for lists of any length    *)
(* over any set of elements.  The proofs about the file and about the      *)
(* drains rest on these facts and never look inside the operators again.   *)
(***************************************************************************)
EXTENDS QueueOps, SequenceTheorems, WellFoundedInduction, TLAPS

(* A nonempty set of naturals has a least element, and Min returns it. *)
LEMMA MinNat ==
    ASSUME NEW I \in SUBSET Nat, I # {}
    PROVE  Min(I) \in I /\ \A y \in I : Min(I) <= y
<1>1. PICK x \in I : \A y \in I : ~(<<y, x>> \in OpToRel(<, Nat))
    BY NatLessThanWellFounded, WFMin
<1>2. ASSUME NEW y \in I
      PROVE  x <= y
    <2>1. <<y, x>> \notin OpToRel(<, Nat)
        BY <1>1
    <2>2. x \in Nat /\ y \in Nat
        OBVIOUS
    <2>3. ~(y < x)
        BY <2>1, <2>2 DEF OpToRel
    <2> QED
        BY <2>2, <2>3
<1>3. \A y \in I : x <= y
    BY <1>2
<1> QED
    BY <1>3 DEF Min

(* The same for the largest element of a set of indices. *)
LEMMA MaxIndex ==
    ASSUME NEW n \in Nat, NEW I \in SUBSET (1 .. n), I # {}
    PROVE  Max(I) \in I /\ \A y \in I : y <= Max(I)
<1> DEFINE J == {n - i : i \in I}
<1>1. J \in SUBSET Nat /\ J # {}
    <2>1. \A i \in I : n - i \in Nat
        OBVIOUS
    <2>2. PICK i \in I : TRUE
        OBVIOUS
    <2> QED
        BY <2>1, <2>2
<1>2. PICK x \in I : Min(J) = n - x
    BY <1>1, MinNat
<1>3. \A y \in I : n - x <= n - y
    BY <1>1, <1>2, MinNat
<1>4. \A y \in I : y <= x
    BY <1>3
<1> QED
    BY <1>4 DEF Max

(* RemoveAt takes one element out and closes the gap. *)
LEMMA RemoveAtProperties ==
    ASSUME NEW T, NEW q \in Seq(T), NEW k \in 1 .. Len(q)
    PROVE  /\ RemoveAt(q, k) \in Seq(T)
           /\ Len(RemoveAt(q, k)) = Len(q) - 1
           /\ \A i \in 1 .. Len(q) - 1 :
                 RemoveAt(q, k)[i] = IF i < k THEN q[i] ELSE q[i + 1]
<1> DEFINE s == SubSeq(q, 1, k - 1)
           t == SubSeq(q, k + 1, Len(q))
<1>1. /\ s \in Seq(T) /\ Len(s) = k - 1
      /\ \A i \in 1 .. k - 1 : s[i] = q[i]
    BY SubSeqProperties, ElementOfSeq, LenProperties
<1>2. /\ t \in Seq(T) /\ Len(t) = Len(q) - k
      /\ \A i \in 1 .. Len(q) - k : t[i] = q[k + i]
    <2>1. \A i \in k + 1 .. Len(q) : q[i] \in T
        BY ElementOfSeq
    <2>2. Len(q) \in Nat
        BY LenProperties
    <2> QED
        BY <2>1, <2>2, SubSeqProperties
<1> HIDE DEF s, t
<1>3. /\ s \o t \in Seq(T)
      /\ Len(s \o t) = Len(q) - 1
      /\ \A i \in 1 .. Len(q) - 1 : (s \o t)[i] = IF i <= k - 1 THEN s[i] ELSE t[i - (k - 1)]
    <2>1. Len(s) + Len(t) = Len(q) - 1
        BY <1>1, <1>2, LenProperties
    <2>2. s \in Seq(T) /\ t \in Seq(T)
        BY <1>1, <1>2
    <2>3. /\ s \o t \in Seq(T)
          /\ Len(s \o t) = Len(s) + Len(t)
          /\ \A i \in 1 .. Len(s) + Len(t) : (s \o t)[i] = IF i <= Len(s) THEN s[i] ELSE t[i - Len(s)]
        BY <2>2, ConcatProperties
    <2> QED
        BY <1>1, <2>1, <2>3
<1>4. RemoveAt(q, k) = s \o t
    BY DEF RemoveAt, s, t
<1>5. ASSUME NEW i \in 1 .. Len(q) - 1
      PROVE  (s \o t)[i] = IF i < k THEN q[i] ELSE q[i + 1]
    BY <1>1, <1>2, <1>3, LenProperties
<1> QED
    BY <1>3, <1>4, <1>5

(* InsertAt opens a gap at position k, which may be behind the last one. *)
LEMMA InsertAtProperties ==
    ASSUME NEW T, NEW q \in Seq(T), NEW e \in T, NEW k \in 1 .. Len(q) + 1
    PROVE  /\ InsertAt(q, k, e) \in Seq(T)
           /\ Len(InsertAt(q, k, e)) = Len(q) + 1
           /\ \A i \in 1 .. Len(q) + 1 :
                 InsertAt(q, k, e)[i] = IF i < k THEN q[i] ELSE IF i = k THEN e ELSE q[i - 1]
<1> DEFINE s == SubSeq(q, 1, k - 1)
           t == SubSeq(q, k, Len(q))
           u == s \o <<e>>
<1>0. Len(q) \in Nat /\ \A i \in 1 .. Len(q) : q[i] \in T
    BY LenProperties, ElementOfSeq
<1>1. /\ s \in Seq(T) /\ Len(s) = k - 1
      /\ \A i \in 1 .. k - 1 : s[i] = q[i]
    BY <1>0, SubSeqProperties
<1>2. /\ t \in Seq(T) /\ Len(t) = Len(q) - k + 1
      /\ \A i \in 1 .. Len(q) - k + 1 : t[i] = q[k + i - 1]
    <2>1. \A i \in k .. Len(q) : q[i] \in T
        BY <1>0
    <2> QED
        BY <1>0, <2>1, SubSeqProperties
<1> HIDE DEF s, t
<1>3. <<e>> \in Seq(T) /\ Len(<<e>>) = 1 /\ <<e>>[1] = e
    OBVIOUS
<1>4. /\ u \in Seq(T) /\ Len(u) = k
      /\ \A i \in 1 .. k : u[i] = IF i < k THEN q[i] ELSE e
    <2>1. /\ s \o <<e>> \in Seq(T)
          /\ Len(s \o <<e>>) = Len(s) + Len(<<e>>)
          /\ \A i \in 1 .. Len(s) + Len(<<e>>) :
                 (s \o <<e>>)[i] = IF i <= Len(s) THEN s[i] ELSE <<e>>[i - Len(s)]
        BY <1>1, <1>3, ConcatProperties
    <2>2. Len(s) + Len(<<e>>) = k
        BY <1>1, <1>3
    <2> QED
        BY <1>1, <1>3, <2>1, <2>2
<1> HIDE DEF u
<1>5. /\ u \o t \in Seq(T)
      /\ Len(u \o t) = Len(u) + Len(t)
      /\ \A i \in 1 .. Len(u) + Len(t) : (u \o t)[i] = IF i <= Len(u) THEN u[i] ELSE t[i - Len(u)]
    BY <1>2, <1>4, ConcatProperties
<1>6. Len(u) + Len(t) = Len(q) + 1
    BY <1>0, <1>2, <1>4
<1>7. InsertAt(q, k, e) = u \o t
    BY DEF InsertAt, s, t, u
<1>8. ASSUME NEW i \in 1 .. Len(q) + 1
      PROVE  (u \o t)[i] = IF i < k THEN q[i] ELSE IF i = k THEN e ELSE q[i - 1]
    BY <1>0, <1>2, <1>4, <1>5, <1>6
<1> QED
    BY <1>5, <1>6, <1>7, <1>8

(* A search from the front returns the first index that passes, or 0. *)
LEMMA NextIndexProperties ==
    ASSUME NEW T, NEW q \in Seq(T), NEW session, NEW scoped
    PROVE  LET k == NextIndex(q, session, scoped)
           IN  /\ k \in 0 .. Len(q)
               /\ k # 0 => /\ Eligible(q[k], session, scoped)
                          /\ \A i \in 1 .. k - 1 : ~Eligible(q[i], session, scoped)
               /\ k = 0 => \A i \in 1 .. Len(q) : ~Eligible(q[i], session, scoped)
<1> DEFINE I == {i \in 1 .. Len(q) : Eligible(q[i], session, scoped)}
<1>1. Len(q) \in Nat
    BY LenProperties
<1>2. NextIndex(q, session, scoped) = IF I # {} THEN Min(I) ELSE 0
    BY DEF NextIndex, SelectInSeq
<1>3. CASE I = {}
    BY <1>1, <1>2, <1>3
<1>4. CASE I # {}
    <2>0. I \in SUBSET Nat
        BY <1>1
    <2> HIDE DEF I
    <2>1. Min(I) \in I /\ \A y \in I : Min(I) <= y
        BY <2>0, <1>4, MinNat
    <2>2. Min(I) \in 1 .. Len(q) /\ Eligible(q[Min(I)], session, scoped)
        BY <2>1 DEF I
    <2>3. ASSUME NEW i \in 1 .. Min(I) - 1
          PROVE  ~Eligible(q[i], session, scoped)
        BY <1>1, <2>1, <2>2 DEF I
    <2> QED
        BY <1>1, <1>2, <1>4, <2>2, <2>3
<1> QED
    BY <1>3, <1>4

(* Looking an id up returns an index that carries it, or 0. *)
LEMMA IndexOfProperties ==
    ASSUME NEW T, NEW q \in Seq(T), NEW i
    PROVE  /\ IndexOf(q, i) \in 0 .. Len(q)
           /\ IndexOf(q, i) # 0 => q[IndexOf(q, i)].id = i
<1> DEFINE I == {k \in 1 .. Len(q) : q[k].id = i}
<1>1. Len(q) \in Nat
    BY LenProperties
<1>2. IndexOf(q, i) = IF I # {} THEN Min(I) ELSE 0
    BY DEF IndexOf, SelectInSeq
<1>3. I \in SUBSET Nat
    BY <1>1
<1> HIDE DEF I
<1>4. I # {} => Min(I) \in I
    BY <1>3, MinNat
<1> QED
    BY <1>1, <1>2, <1>4 DEF I

(* Reinsert puts the item, blocked, at some position and keeps the others  *)
(* in their order; it stands behind every blocked item.                    *)
LEMMA ReinsertProperties ==
    ASSUME NEW T, NEW q \in Seq(T), NEW x
    PROVE  \E k \in 1 .. Len(q) + 1 :
              /\ Reinsert(q, x) = InsertAt(q, k, [x EXCEPT !.status = "blocked"])
              /\ \A i \in k .. Len(q) : q[i].status # "blocked"
<1> DEFINE I == {k \in 1 .. Len(q) : q[k].status = "blocked"}
           m == IF I # {} THEN Max(I) ELSE 0
<1>1. Len(q) \in Nat
    BY LenProperties
<1>2. Reinsert(q, x) = InsertAt(q, m + 1, [x EXCEPT !.status = "blocked"])
    BY DEF Reinsert, SelectLastInSeq
<1>3. I # {} => Max(I) \in I /\ \A y \in I : y <= Max(I)
    BY <1>1, MaxIndex
<1>4. m \in 0 .. Len(q) /\ \A y \in I : y <= m
    BY <1>1, <1>3
<1>5. ASSUME NEW i \in m + 1 .. Len(q)
      PROVE  q[i].status # "blocked"
    <2>1. i \in 1 .. Len(q) /\ i > m
        BY <1>1, <1>4
    <2>2. i \notin I
        BY <1>1, <1>4, <2>1
    <2> QED
        BY <2>1, <2>2
<1>6. m + 1 \in 1 .. Len(q) + 1
    BY <1>1, <1>4
<1> QED
    BY <1>2, <1>5, <1>6

-----------------------------------------------------------------------------
(* What the operations do to the identities of a list. *)

(* The identities of a list are those at its indices.                      *)
LEMMA IdsAt ==
    ASSUME NEW T, NEW q \in Seq(T)
    PROVE  /\ Len(q) \in Nat /\ DOMAIN q = 1 .. Len(q)
           /\ \A k \in 1 .. Len(q) : q[k] \in T /\ q[k].id \in IdsOf(q)
           /\ \A i \in IdsOf(q) : \E k \in 1 .. Len(q) : q[k].id = i
<1>1. Len(q) \in Nat /\ DOMAIN q = 1 .. Len(q)
    BY LenProperties
<1> QED
    BY <1>1, ElementOfSeq DEF IdsOf

(* Taking an item out takes its identity out, and no other.                *)
LEMMA RemoveAtIds ==
    ASSUME NEW T, NEW q \in Seq(T), Distinct(q), NEW k \in 1 .. Len(q)
    PROVE  /\ IdsOf(RemoveAt(q, k)) = IdsOf(q) \ {q[k].id}
           /\ Distinct(RemoveAt(q, k))
<1> DEFINE r == RemoveAt(q, k)
<1>1. /\ r \in Seq(T) /\ Len(r) = Len(q) - 1
      /\ \A i \in 1 .. Len(q) - 1 : r[i] = IF i < k THEN q[i] ELSE q[i + 1]
    BY RemoveAtProperties
<1> HIDE DEF r
<1>2. Len(q) \in Nat /\ DOMAIN q = 1 .. Len(q) /\ DOMAIN r = 1 .. Len(q) - 1
    BY <1>1, IdsAt
<1>3. Distinct(r)
    <2>1. ASSUME NEW i \in 1 .. Len(r), NEW j \in 1 .. Len(r), r[i].id = r[j].id
          PROVE  i = j
        <3>1. PICK a \in 1 .. Len(q) : r[i] = q[a] /\ a = IF i < k THEN i ELSE i + 1
            BY <1>1, <1>2
        <3>2. PICK b \in 1 .. Len(q) : r[j] = q[b] /\ b = IF j < k THEN j ELSE j + 1
            BY <1>1, <1>2
        <3>3. a = b
            BY <1>2, <2>1, <3>1, <3>2 DEF Distinct
        <3> QED
            BY <1>2, <3>1, <3>2, <3>3
    <2> QED
        BY <1>1, <1>2, <2>1 DEF Distinct
<1>4. ASSUME NEW i \in 1 .. Len(r)
      PROVE  r[i].id \in IdsOf(q) \ {q[k].id}
    <2>1. PICK j \in 1 .. Len(q) : j # k /\ r[i] = q[j]
        BY <1>1, <1>2
    <2> QED
        BY <1>2, <2>1, IdsAt DEF Distinct
<1>5. ASSUME NEW j \in 1 .. Len(q), j # k
      PROVE  q[j].id \in IdsOf(r)
    <2>1. PICK i \in 1 .. Len(r) : r[i] = q[j]
        <3>1. CASE j < k
            BY <1>1, <1>2, <3>1
        <3>2. CASE j > k
            <4>1. j - 1 \in 1 .. Len(r) /\ r[j - 1] = q[j]
                BY <1>1, <1>2, <3>2
            <4> QED
                BY <4>1
        <3> QED
            BY <1>2, <1>5, <3>1, <3>2
    <2> QED
        BY <1>1, <2>1, IdsAt
<1>6. IdsOf(r) \subseteq IdsOf(q) \ {q[k].id}
    BY <1>1, <1>4, IdsAt
<1>7. IdsOf(q) \ {q[k].id} \subseteq IdsOf(r)
    BY <1>5, IdsAt
<1> QED
    BY <1>3, <1>6, <1>7 DEF r

(* Putting an item in adds its identity; if it was not there, all          *)
(* identities stay different.                                              *)
LEMMA InsertAtIds ==
    ASSUME NEW T, NEW q \in Seq(T), NEW x \in T, NEW k \in 1 .. Len(q) + 1
    PROVE  /\ IdsOf(InsertAt(q, k, x)) = IdsOf(q) \cup {x.id}
           /\ Distinct(q) /\ x.id \notin IdsOf(q) => Distinct(InsertAt(q, k, x))
<1> DEFINE r == InsertAt(q, k, x)
<1>1. /\ r \in Seq(T) /\ Len(r) = Len(q) + 1
      /\ \A i \in 1 .. Len(q) + 1 : r[i] = IF i < k THEN q[i] ELSE IF i = k THEN x ELSE q[i - 1]
    BY InsertAtProperties
<1> HIDE DEF r
<1>2. Len(q) \in Nat /\ DOMAIN q = 1 .. Len(q) /\ DOMAIN r = 1 .. Len(q) + 1
    BY <1>1, IdsAt
<1>3. ASSUME NEW i \in 1 .. Len(r)
      PROVE  i = k \/ \E j \in 1 .. Len(q) : r[i] = q[j] /\ j = IF i < k THEN i ELSE i - 1
    <2>1. CASE i < k
        BY <1>1, <1>2, <2>1
    <2>2. CASE i > k
        <3>1. i - 1 \in 1 .. Len(q) /\ r[i] = q[i - 1]
            BY <1>1, <1>2, <2>2
        <3> QED
            BY <2>2, <3>1
    <2> QED
        BY <1>2, <2>1, <2>2
<1>4. ASSUME NEW j \in 1 .. Len(q)
      PROVE  q[j].id \in IdsOf(r)
    <2>1. PICK i \in 1 .. Len(r) : r[i] = q[j]
        <3>1. CASE j < k
            BY <1>1, <1>2, <3>1
        <3>2. CASE j >= k
            <4>1. j + 1 \in 1 .. Len(r) /\ r[j + 1] = q[j]
                BY <1>1, <1>2, <3>2
            <4> QED
                BY <4>1
        <3> QED
            BY <1>2, <3>1, <3>2
    <2> QED
        BY <1>1, <2>1, IdsAt
<1>5. x.id \in IdsOf(r)
    BY <1>1, <1>2, IdsAt
<1>6. IdsOf(r) \subseteq IdsOf(q) \cup {x.id}
    <2>1. \A i \in 1 .. Len(r) : r[i].id \in IdsOf(q) \cup {x.id}
        BY <1>1, <1>3, IdsAt
    <2> QED
        BY <1>1, <2>1, IdsAt
<1>7. IdsOf(q) \cup {x.id} \subseteq IdsOf(r)
    BY <1>4, <1>5, IdsAt
<1>8. ASSUME Distinct(q), x.id \notin IdsOf(q)
      PROVE  Distinct(r)
    <2>1. \A j \in 1 .. Len(q) : q[j].id # x.id
        BY <1>8, IdsAt
    <2>2. ASSUME NEW i \in 1 .. Len(r), NEW j \in 1 .. Len(r), r[i].id = r[j].id
          PROVE  i = j
        <3>1. r[k] = x
            BY <1>1, <1>2
        <3>2. CASE i = k \/ j = k
            BY <1>3, <2>1, <2>2, <3>1, <3>2
        <3>3. CASE i # k /\ j # k
            <4>1. PICK a \in 1 .. Len(q) : r[i] = q[a] /\ a = IF i < k THEN i ELSE i - 1
                BY <1>3, <3>3
            <4>2. PICK b \in 1 .. Len(q) : r[j] = q[b] /\ b = IF j < k THEN j ELSE j - 1
                BY <1>3, <3>3
            <4>3. a = b
                BY <1>2, <1>8, <2>2, <4>1, <4>2 DEF Distinct
            <4> QED
                BY <1>2, <3>3, <4>1, <4>2, <4>3
        <3> QED
            BY <3>2, <3>3
    <2> QED
        BY <1>1, <1>2, <2>2 DEF Distinct
<1> QED
    BY <1>6, <1>7, <1>8 DEF r

(* The same of Append, which puts the item behind the last one.            *)
LEMMA AppendIds ==
    ASSUME NEW T, NEW q \in Seq(T), NEW x \in T
    PROVE  /\ IdsOf(Append(q, x)) = IdsOf(q) \cup {x.id}
           /\ Distinct(q) /\ x.id \notin IdsOf(q) => Distinct(Append(q, x))
<1> DEFINE r == Append(q, x)
<1>1. /\ r \in Seq(T) /\ Len(r) = Len(q) + 1
      /\ \A i \in 1 .. Len(q) : r[i] = q[i]
      /\ r[Len(q) + 1] = x
    BY AppendProperties
<1> HIDE DEF r
<1>2. Len(q) \in Nat /\ DOMAIN q = 1 .. Len(q) /\ DOMAIN r = 1 .. Len(q) + 1
    BY <1>1, IdsAt
<1>3. \A i \in 1 .. Len(r) : r[i].id \in IdsOf(q) \cup {x.id}
    BY <1>1, <1>2, IdsAt
<1>4. \A j \in 1 .. Len(q) : q[j].id \in IdsOf(r)
    BY <1>1, <1>2, IdsAt
<1>5. x.id \in IdsOf(r)
    BY <1>1, <1>2, IdsAt
<1>6. Distinct(q) /\ x.id \notin IdsOf(q) => Distinct(r)
    BY <1>1, <1>2, IdsAt DEF Distinct
<1>7. IdsOf(r) \subseteq IdsOf(q) \cup {x.id}
    BY <1>1, <1>3, IdsAt
<1>8. IdsOf(q) \cup {x.id} \subseteq IdsOf(r)
    BY <1>4, <1>5, IdsAt
<1> QED
    BY <1>6, <1>7, <1>8 DEF r

(* Unblocking changes no identity.                                         *)
LEMMA UnblockedIds ==
    ASSUME NEW T, NEW q \in Seq(T), NEW k \in 1 .. Len(q),
           [q[k] EXCEPT !.status = "pending"].id = q[k].id
    PROVE  /\ IdsOf(Unblocked(q, k)) = IdsOf(q)
           /\ Distinct(q) => Distinct(Unblocked(q, k))
<1> DEFINE r == Unblocked(q, k)
<1>1. r = [q EXCEPT ![k] = [q[k] EXCEPT !.status = "pending"]]
    BY DEF Unblocked, ReplaceAt
<1>2. DOMAIN q = 1 .. Len(q)
    BY IdsAt
<1>3. DOMAIN r = DOMAIN q /\ \A i \in DOMAIN q : r[i].id = q[i].id
    BY <1>1, <1>2
<1> HIDE DEF r
<1> QED
    BY <1>3 DEF IdsOf, Distinct, r

-----------------------------------------------------------------------------
(* What the operations do to the order of a list. *)

(* After a removal the others are there.                                   *)
LEMMA RemoveAtItems ==
    ASSUME NEW T, NEW q \in Seq(T), NEW k \in 1 .. Len(q)
    PROVE  /\ \A i \in 1 .. Len(RemoveAt(q, k)) :
                 \E a \in 1 .. Len(q) : a # k /\ RemoveAt(q, k)[i] = q[a]
           /\ \A a \in 1 .. Len(q) : a # k =>
                 \E i \in 1 .. Len(RemoveAt(q, k)) : RemoveAt(q, k)[i] = q[a]
<1> DEFINE r == RemoveAt(q, k)
<1>1. /\ r \in Seq(T) /\ Len(r) = Len(q) - 1 /\ Len(q) \in Nat
      /\ \A i \in 1 .. Len(q) - 1 : r[i] = IF i < k THEN q[i] ELSE q[i + 1]
    BY RemoveAtProperties, LenProperties
<1> HIDE DEF r
<1>2. \A i \in 1 .. Len(r) : \E a \in 1 .. Len(q) :
          a # k /\ r[i] = q[a] /\ a = IF i < k THEN i ELSE i + 1
    BY <1>1
<1>3. ASSUME NEW a \in 1 .. Len(q), a # k
      PROVE  \E i \in 1 .. Len(r) : r[i] = q[a]
    <2>1. CASE a < k
        BY <1>1, <2>1
    <2>2. CASE a > k
        <3>1. a - 1 \in 1 .. Len(r) /\ r[a - 1] = q[a]
            BY <1>1, <2>2
        <3> QED
            BY <3>1
    <2> QED
        BY <1>1, <1>3, <2>1, <2>2
<1>4. \A i \in 1 .. Len(r) : \E a \in 1 .. Len(q) : a # k /\ r[i] = q[a]
    BY <1>2
<1>5. \A a \in 1 .. Len(q) : a # k => \E i \in 1 .. Len(r) : r[i] = q[a]
    BY <1>3
<1> QED
    BY <1>4, <1>5 DEF r

(* And in the order they had.                                              *)
LEMMA RemoveAtOrder ==
    ASSUME NEW T, NEW q \in Seq(T), NEW k \in 1 .. Len(q),
           NEW i \in 1 .. Len(RemoveAt(q, k)), NEW j \in 1 .. Len(RemoveAt(q, k)), i < j
    PROVE  \E a, b \in 1 .. Len(q) :
              /\ a # k /\ b # k /\ a < b
              /\ RemoveAt(q, k)[i] = q[a] /\ RemoveAt(q, k)[j] = q[b]
<1> DEFINE r == RemoveAt(q, k)
           before(n) == IF n < k THEN n ELSE n + 1
<1>1. /\ Len(r) = Len(q) - 1 /\ Len(q) \in Nat
      /\ \A n \in 1 .. Len(q) - 1 : r[n] = IF n < k THEN q[n] ELSE q[n + 1]
    BY RemoveAtProperties, LenProperties
<1>2. i \in 1 .. Len(r) /\ j \in 1 .. Len(r)
    OBVIOUS
<1> HIDE DEF r
<1>3. /\ before(i) \in 1 .. Len(q) /\ before(i) # k /\ r[i] = q[before(i)]
      /\ before(j) \in 1 .. Len(q) /\ before(j) # k /\ r[j] = q[before(j)]
      /\ before(i) < before(j)
    BY <1>1, <1>2
<1> HIDE DEF before
<1>4. \E a, b \in 1 .. Len(q) : /\ a # k /\ b # k /\ a < b
                               /\ r[i] = q[a] /\ r[j] = q[b]
    BY <1>3
<1> QED
    BY <1>4 DEF r

(* After an insertion the new item is at its place and the others are      *)
(* there.                                                                  *)
LEMMA InsertAtItems ==
    ASSUME NEW T, NEW q \in Seq(T), NEW x \in T, NEW k \in 1 .. Len(q) + 1
    PROVE  /\ k \in 1 .. Len(InsertAt(q, k, x)) /\ InsertAt(q, k, x)[k] = x
           /\ \A i \in 1 .. Len(InsertAt(q, k, x)) : i # k =>
                 \E a \in 1 .. Len(q) : InsertAt(q, k, x)[i] = q[a]
           /\ \A a \in 1 .. Len(q) :
                 \E i \in 1 .. Len(InsertAt(q, k, x)) : i # k /\ InsertAt(q, k, x)[i] = q[a]
<1>a. Len(InsertAt(q, k, x)) = Len(q) + 1 /\ Len(q) \in Nat
    BY InsertAtProperties, LenProperties
<1>b. ASSUME NEW i \in 1 .. Len(q) + 1
      PROVE  InsertAt(q, k, x)[i] =
                IF i < k THEN q[i] ELSE IF i = k THEN x ELSE q[i - 1]
    BY InsertAtProperties
<1> DEFINE r == InsertAt(q, k, x)
<1>1. /\ Len(r) = Len(q) + 1 /\ Len(q) \in Nat
      /\ \A i \in 1 .. Len(q) + 1 : r[i] = IF i < k THEN q[i] ELSE IF i = k THEN x ELSE q[i - 1]
    BY <1>a, <1>b
<1> HIDE DEF r
<1>2. ASSUME NEW i \in 1 .. Len(r), i # k
      PROVE  \E a \in 1 .. Len(q) : r[i] = q[a] /\ a = IF i < k THEN i ELSE i - 1
    <2>1. CASE i < k
        BY <1>1, <2>1
    <2>2. CASE i > k
        <3>1. i - 1 \in 1 .. Len(q) /\ r[i] = q[i - 1]
            BY <1>1, <2>2
        <3> QED
            BY <2>2, <3>1
    <2> QED
        BY <1>1, <1>2, <2>1, <2>2
<1>3. ASSUME NEW a \in 1 .. Len(q)
      PROVE  \E i \in 1 .. Len(r) : i # k /\ r[i] = q[a]
    <2>1. CASE a < k
        BY <1>1, <2>1
    <2>2. CASE a >= k
        <3>1. a + 1 \in 1 .. Len(r) /\ a + 1 # k /\ r[a + 1] = q[a]
            BY <1>1, <2>2
        <3> QED
            BY <3>1
    <2> QED
        BY <1>1, <2>1, <2>2
<1>4. k \in 1 .. Len(r) /\ r[k] = x
    BY <1>1
<1> QED
    BY <1>2, <1>3, <1>4 DEF r

(* The others have the order they had.                                     *)
LEMMA InsertAtOrder ==
    ASSUME NEW T, NEW q \in Seq(T), NEW x \in T, NEW k \in 1 .. Len(q) + 1,
           NEW i \in 1 .. Len(InsertAt(q, k, x)), NEW j \in 1 .. Len(InsertAt(q, k, x)),
           i < j, i # k, j # k
    PROVE  \E a, b \in 1 .. Len(q) :
              a < b /\ InsertAt(q, k, x)[i] = q[a] /\ InsertAt(q, k, x)[j] = q[b]
<1>a. Len(InsertAt(q, k, x)) = Len(q) + 1 /\ Len(q) \in Nat
    BY InsertAtProperties, LenProperties
<1>b. ASSUME NEW n \in 1 .. Len(q) + 1
      PROVE  InsertAt(q, k, x)[n] =
                IF n < k THEN q[n] ELSE IF n = k THEN x ELSE q[n - 1]
    BY InsertAtProperties
<1> DEFINE r == InsertAt(q, k, x)
<1>1. /\ Len(r) = Len(q) + 1 /\ Len(q) \in Nat
      /\ \A n \in 1 .. Len(q) + 1 : r[n] = IF n < k THEN q[n] ELSE IF n = k THEN x ELSE q[n - 1]
    BY <1>a, <1>b
<1> HIDE DEF r
<1>2. i \in 1 .. Len(r) /\ j \in 1 .. Len(r)
    BY DEF r
<1>3. ASSUME NEW n \in 1 .. Len(r), n # k
      PROVE  \E a \in 1 .. Len(q) : r[n] = q[a] /\ a = IF n < k THEN n ELSE n - 1
    <2>1. CASE n < k
        BY <1>1, <2>1
    <2>2. CASE n > k
        <3>1. n - 1 \in 1 .. Len(q) /\ r[n] = q[n - 1]
            BY <1>1, <2>2
        <3> QED
            BY <2>2, <3>1
    <2> QED
        BY <1>1, <1>3, <2>1, <2>2
<1>4. PICK a \in 1 .. Len(q) : r[i] = q[a] /\ a = IF i < k THEN i ELSE i - 1
    BY <1>2, <1>3
<1>5. PICK b \in 1 .. Len(q) : r[j] = q[b] /\ b = IF j < k THEN j ELSE j - 1
    BY <1>2, <1>3
<1>6. a < b
    BY <1>1, <1>2, <1>4, <1>5
<1> QED
    BY <1>4, <1>5, <1>6 DEF r
=============================================================================
