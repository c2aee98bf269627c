------------------------- MODULE CoordinatorProofs -------------------------
(***************************************************************************)
(* Proofs about Coordinator, for any number of workers, slots, runners and *)
(* repositories: worker slots are neither lost nor made up, Git threads    *)
(* exclude each other in a repository although its lock objects come and   *)
(* go, the statistics are exact, and no cancellation is forgotten.         *)
(***************************************************************************)
EXTENDS Coordinator, FiniteSetTheorems, SequenceTheorems, TLAPS

\* Whom a queue holds, nobody twice.
Queued(q)   == {q[i] : i \in 1..Len(q)}
Distinct(q) == \A i, j \in 1..Len(q) : q[i] = q[j] => i = j

-----------------------------------------------------------------------------
(* The operations of a queue.                                              *)

\* Coming last into a queue.
LEMMA AppendQueue ==
  ASSUME NEW S, NEW q \in Seq(S), Distinct(q), NEW c \in S, c \notin Queued(q)
  PROVE  /\ Append(q, c) \in Seq(S) /\ Distinct(Append(q, c))
         /\ Queued(Append(q, c)) = Queued(q) \cup {c}
         /\ q # <<>> => Append(q, c)[1] = q[1]
<1> DEFINE r == Append(q, c)
<1>1. /\ r \in Seq(S) /\ Len(r) = Len(q) + 1 /\ Len(q) \in Nat
      /\ \A i \in 1..Len(q) : r[i] = q[i]
      /\ r[Len(q) + 1] = c
  BY AppendProperties
<1> HIDE DEF r
<1>2. \A i \in 1..Len(r) : i \in 1..Len(q) \/ i = Len(q) + 1
  BY <1>1
<1>3. Distinct(r)
  BY <1>1, <1>2 DEF Distinct, Queued
<1>4. Queued(r) = Queued(q) \cup {c}
  <2>1. \A i \in 1..Len(q) : i \in 1..Len(r)
    BY <1>1
  <2>2. Len(q) + 1 \in 1..Len(r)
    BY <1>1
  <2> QED BY <1>1, <1>2, <2>1, <2>2 DEF Queued
<1>5. q # <<>> => r[1] = q[1]
  BY <1>1, EmptySeq
<1> QED BY <1>1, <1>3, <1>4, <1>5 DEF r

\* Leaving a queue, from any place: deque.remove.
LEMMA RemoveFromQueue ==
  ASSUME NEW S, NEW q \in Seq(S), Distinct(q), NEW c
  PROVE  /\ RemoveFirst(q, c) \in Seq(S) /\ Distinct(RemoveFirst(q, c))
         /\ Queued(RemoveFirst(q, c)) = Queued(q) \ {c}
         /\ q # <<>> /\ q[1] # c => /\ RemoveFirst(q, c) # <<>>
                                    /\ RemoveFirst(q, c)[1] = q[1]
<1>1. CASE ~\E i \in 1..Len(q) : q[i] = c
  BY <1>1 DEF RemoveFirst, Queued
<1>2. ASSUME NEW k \in 1..Len(q), q[k] = c
      PROVE  RemoveFirst(q, c) = SubSeq(q, 1, k-1) \o SubSeq(q, k+1, Len(q))
  <2> DEFINE I == {i \in 1..Len(q) : q[i] = c}
  <2>1. I = {k}
    BY <1>2 DEF Distinct
  <2>2. Min(I) = k
    BY <2>1 DEF Min
  <2> QED BY <1>2, <2>1, <2>2 DEF RemoveFirst, RemoveAt, SelectInSeq
<1>3. ASSUME NEW k \in 1..Len(q), q[k] = c
      PROVE  /\ RemoveFirst(q, c) \in Seq(S) /\ Len(RemoveFirst(q, c)) = Len(q) - 1
             /\ \A i \in 1..Len(q)-1 :
                  RemoveFirst(q, c)[i] = IF i < k THEN q[i] ELSE q[i+1]
  <2> DEFINE front == SubSeq(q, 1, k-1)
             back  == SubSeq(q, k+1, Len(q))
  <2>0. Len(q) \in Nat /\ \A i \in 1..Len(q) : q[i] \in S
    BY ElementOfSeq, LenProperties
  <2>1. /\ front \in Seq(S) /\ Len(front) = k-1
        /\ \A i \in 1..k-1 : front[i] = q[i]
    <3>1. \A i \in 1..k-1 : q[i] \in S
      BY <2>0
    <3>2. \A i \in 1..((k-1)-1+1) : front[i] = q[1+i-1]
      BY <3>1, <2>0, SubSeqProperties
    <3> QED BY <3>1, <3>2, <2>0, SubSeqProperties
  <2>2. /\ back \in Seq(S) /\ Len(back) = Len(q)-k
        /\ \A i \in 1..Len(q)-k : back[i] = q[k+i]
    <3>1. \A i \in (k+1)..Len(q) : q[i] \in S
      BY <2>0
    <3>2. /\ back \in Seq(S)
          /\ Len(back) = IF k+1 <= Len(q) THEN Len(q)-(k+1)+1 ELSE 0
          /\ \A i \in 1..(Len(q)-(k+1)+1) : back[i] = q[(k+1)+i-1]
      BY <3>1, <2>0, SubSeqProperties
    <3> QED BY <3>2, <2>0
  <2> HIDE DEF front, back
  <2>3. /\ front \o back \in Seq(S) /\ Len(front \o back) = Len(q)-1
        /\ \A i \in 1..Len(q)-1 : (front \o back)[i] = IF i <= k-1 THEN front[i] ELSE back[i-(k-1)]
    BY <2>0, <2>1, <2>2, ConcatProperties
  <2>4. RemoveFirst(q, c) = front \o back
    BY <1>2, <1>3 DEF front, back
  <2>5. ASSUME NEW i \in 1..Len(q)-1
        PROVE  (front \o back)[i] = IF i < k THEN q[i] ELSE q[i+1]
    <3>1. CASE i < k
      BY <2>0, <2>1, <2>3, <3>1
    <3>2. CASE ~(i < k)
      <4>1. i - (k-1) \in 1..Len(q)-k /\ k + (i - (k-1)) = i + 1
        BY <2>0, <3>2
      <4> QED BY <2>0, <2>2, <2>3, <3>2, <4>1
    <3> QED BY <3>1, <3>2
  <2> QED BY <2>3, <2>4, <2>5
<1>4. ASSUME NEW k \in 1..Len(q), q[k] = c
      PROVE  /\ RemoveFirst(q, c) \in Seq(S) /\ Distinct(RemoveFirst(q, c))
             /\ Queued(RemoveFirst(q, c)) = Queued(q) \ {c}
             /\ q # <<>> /\ q[1] # c => /\ RemoveFirst(q, c) # <<>>
                                         /\ RemoveFirst(q, c)[1] = q[1]
  <2> DEFINE r == RemoveFirst(q, c)
             old(i) == IF i < k THEN i ELSE i+1
  <2>0. Len(q) \in Nat
    BY LenProperties
  <2>1. /\ r \in Seq(S) /\ Len(r) = Len(q) - 1
        /\ \A i \in 1..Len(r) : r[i] = q[old(i)] /\ old(i) \in 1..Len(q) /\ old(i) # k
    BY <1>3, <1>4, <2>0
  <2> HIDE DEF r
  <2>2. Distinct(r)
    BY <2>0, <2>1 DEF Distinct
  <2>3. \A i \in 1..Len(q) : i # k => \E j \in 1..Len(r) : old(j) = i
    <3> SUFFICES ASSUME NEW i \in 1..Len(q), i # k PROVE \E j \in 1..Len(r) : old(j) = i
      OBVIOUS
    <3>1. CASE i < k
      <4> i \in 1..Len(r) /\ old(i) = i
        BY <2>0, <2>1, <3>1
      <4> QED OBVIOUS
    <3>2. CASE i > k
      <4> i-1 \in 1..Len(r) /\ old(i-1) = i
        BY <2>0, <2>1, <3>2
      <4> QED OBVIOUS
    <3> QED BY <3>1, <3>2
  <2> HIDE DEF old
  <2>4. Queued(r) = Queued(q) \ {c}
    <3>1. \A d \in Queued(r) : d \in Queued(q) /\ d # c
      BY <1>4, <2>1 DEF Queued, Distinct
    <3>2. ASSUME NEW d \in Queued(q), d # c PROVE d \in Queued(r)
      <4>1. PICK i \in 1..Len(q) : q[i] = d
        BY DEF Queued
      <4>2. i # k
        BY <1>4, <3>2, <4>1
      <4>3. PICK j \in 1..Len(r) : old(j) = i
        BY <2>3, <4>2
      <4>4. r[j] = d
        BY <2>1, <4>1, <4>3
      <4> QED BY <4>4 DEF Queued
    <3> QED BY <3>1, <3>2
  <2>5. q[1] # c => r # <<>> /\ r[1] = q[1]
    <3> SUFFICES ASSUME q[1] # c PROVE r # <<>> /\ r[1] = q[1]
      OBVIOUS
    <3>1. k > 1 /\ 1 \in 1..Len(r) /\ old(1) = 1
      BY <1>4, <2>0, <2>1 DEF old
    <3> QED BY <2>1, <3>1, EmptySeq
  <2> QED BY <2>1, <2>2, <2>4, <2>5 DEF r
<1> QED BY <1>1, <1>4

-----------------------------------------------------------------------------
(* The coroutines in a state, counted.                                     *)

\* How many members of S the function f puts into state s.
Count(S, f, s) == Cardinality({d \in S : f[d] = s})

\* Two disjoint sets, counted together.
LEMMA DisjointUnion ==
  ASSUME NEW S, IsFiniteSet(S), NEW T, IsFiniteSet(T), S \cap T = {}
  PROVE  IsFiniteSet(S \cup T) /\ Cardinality(S \cup T) = Cardinality(S) + Cardinality(T)
<1>1. IsFiniteSet(S \cup T)
      /\ Cardinality(S \cup T) = Cardinality(S) + Cardinality(T) - Cardinality(S \cap T)
  BY FS_Union
<1>2. Cardinality(S \cap T) = 0
  BY FS_EmptySet
<1>3. Cardinality(S) \in Nat /\ Cardinality(T) \in Nat
  BY FS_CardinalityType
<1> QED BY <1>1, <1>2, <1>3

\* The waiting and the woken are no more than there are coroutines.
LEMMA CountBounds ==
  ASSUME NEW f
  PROVE  /\ \A s : Count(Clients, f, s) \in Nat
         /\ Count(Clients, f, "waiting") + Count(Clients, f, "woken") <= Cardinality(Clients)
         /\ Cardinality(Clients) \in Nat
<1> USE DEF Count
<1> DEFINE A(s) == {c \in Clients : f[c] = s}
<1>1. ASSUME NEW s
      PROVE  /\ IsFiniteSet(A(s)) /\ Cardinality(A(s)) \in Nat
             /\ Cardinality(A(s)) <= Cardinality(Clients)
  <2>1. A(s) \in SUBSET Clients
    OBVIOUS
  <2> QED BY <2>1, ClientsAssumption, FS_Subset, FS_CardinalityType
<1>2. Cardinality(Clients) \in Nat
  BY ClientsAssumption, FS_CardinalityType
<1>3. Cardinality(A("waiting")) + Cardinality(A("woken")) <= Cardinality(Clients)
  <2>1. A("waiting") \cap A("woken") = {}
    OBVIOUS
  <2>2. A("waiting") \cup A("woken") \in SUBSET Clients
    OBVIOUS
  <2>3. Cardinality(A("waiting") \cup A("woken")) <= Cardinality(Clients)
    BY <2>2, ClientsAssumption, FS_Subset
  <2>4. Cardinality(A("waiting") \cup A("woken"))
          = Cardinality(A("waiting")) + Cardinality(A("woken"))
    BY <1>1, <2>1, DisjointUnion
  <2> HIDE DEF A
  <2> QED BY <1>1, <2>3, <2>4
<1> QED BY <1>1, <1>2, <1>3

\* How a count changes when c goes on to another state and the waiters in W are woken.
LEMMA Recount ==
  ASSUME NEW S, IsFiniteSet(S), NEW f, NEW g, NEW c \in S, NEW W \in SUBSET S,
         c \notin W, \A d \in W : f[d] = "waiting",
         \A d \in S \ {c} : g[d] = IF d \in W THEN "woken" ELSE f[d],
         NEW s
  PROVE  Count(S, g, s)
           = Count(S, f, s)
               - (IF f[c] = s THEN 1 ELSE 0) + (IF g[c] = s THEN 1 ELSE 0)
               + (IF s = "woken" THEN Cardinality(W) ELSE 0)
               - (IF s = "waiting" THEN Cardinality(W) ELSE 0)
<1> DEFINE A == {d \in S : f[d] = s}
           B == {d \in S : g[d] = s}
           R == A \ {c}
           X == IF s = "woken" THEN R \cup W ELSE IF s = "waiting" THEN R \ W ELSE R
<1>1. IsFiniteSet(A) /\ IsFiniteSet(W) /\ Cardinality(W) \in Nat /\ Cardinality(A) \in Nat
  <2>1. A \in SUBSET S
    OBVIOUS
  <2> QED BY <2>1, FS_Subset, FS_CardinalityType
<1>2. IsFiniteSet(R) /\ Cardinality(R) = Cardinality(A) - (IF f[c] = s THEN 1 ELSE 0)
  <2>1. c \in A <=> f[c] = s
    OBVIOUS
  <2>2. /\ IsFiniteSet(A \ {c})
        /\ Cardinality(A \ {c}) = IF c \in A THEN Cardinality(A) - 1 ELSE Cardinality(A)
    <3> HIDE DEF A
    <3> QED BY <1>1, FS_RemoveElement
  <2> HIDE DEF A
  <2> QED BY <1>1, <2>1, <2>2
<1>3. /\ IsFiniteSet(X)
      /\ Cardinality(X) = Cardinality(R) + (IF s = "woken" THEN Cardinality(W) ELSE 0)
                                         - (IF s = "waiting" THEN Cardinality(W) ELSE 0)
  <2>0. Cardinality(R) \in Nat
    BY <1>2, FS_CardinalityType
  <2>1. CASE s = "woken"
    <3>1. R \cap W = {}
      BY <2>1
    <3> HIDE DEF R
    <3>2. IsFiniteSet(R \cup W) /\ Cardinality(R \cup W) = Cardinality(R) + Cardinality(W)
      BY <1>1, <1>2, <3>1, DisjointUnion
    <3> QED BY <1>1, <2>0, <2>1, <3>2
  <2>2. CASE s = "waiting"
    <3>1. R \cap W = W
      BY <2>2
    <3>2. IsFiniteSet(R \ W) /\ Cardinality(R \ W) = Cardinality(R) - Cardinality(W)
      BY <1>1, <1>2, <3>1, FS_Difference
    <3> HIDE DEF R
    <3> QED BY <1>1, <2>0, <2>2, <3>2
  <2>3. CASE s # "woken" /\ s # "waiting"
    <3> HIDE DEF R
    <3> QED BY <1>2, <2>0, <2>3
  <2> QED BY <2>1, <2>2, <2>3
<1>4. c \notin X
  OBVIOUS
<1>5. B = IF g[c] = s THEN X \cup {c} ELSE X
  <2>1. CASE s = "woken"   BY <2>1
  <2>2. CASE s = "waiting" BY <2>2
  <2>3. CASE s # "woken" /\ s # "waiting" BY <2>3
  <2> QED BY <2>1, <2>2, <2>3
<1>6. Cardinality(X) \in Nat /\ Cardinality(X \cup {c}) = Cardinality(X) + 1
  <2> HIDE DEF X
  <2>1. Cardinality(X \cup {c}) = IF c \in X THEN Cardinality(X) ELSE Cardinality(X) + 1
    BY <1>3, FS_AddElement
  <2> QED BY <1>3, <1>4, <2>1, FS_CardinalityType
<1>7. Cardinality(B) = Cardinality(X) + (IF g[c] = s THEN 1 ELSE 0)
  <2> HIDE DEF B, X
  <2> QED BY <1>5, <1>6
<1> HIDE DEF A, B, R, X
<1>8. Cardinality(B) = Cardinality(A) - (IF f[c] = s THEN 1 ELSE 0)
        + (IF g[c] = s THEN 1 ELSE 0) + (IF s = "woken" THEN Cardinality(W) ELSE 0)
        - (IF s = "waiting" THEN Cardinality(W) ELSE 0)
  BY <1>1, <1>2, <1>3, <1>6, <1>7
<1> QED BY <1>8 DEF A, B, Count

-----------------------------------------------------------------------------
(* Worker slots.                                                           *)

\* Besides the accounting: the queue holds coroutines that wait, each one once.
SlotInv ==
  /\ TypeOK /\ UnitsAreConserved /\ AccountingIsExact
  /\ Distinct(queue) /\ \A c \in Queued(queue) : pc[c] \in {"waiting", "woken"}

\* What a release or an abandoned wait hands out.
LEMMA SettleWakes ==
  ASSUME TypeOK, NEW v \in Nat, NEW n \in 0..v, NEW c \in Clients, NEW next,
         ~PendingWait(c), Settle(v, n, c, next)
  PROVE  \E W \in SUBSET Clients :
           /\ c \notin W /\ \A d \in W : pc[d] = "waiting"
           /\ Cardinality(W) \in 0..v /\ value' = v - Cardinality(W)
           /\ pc' = [d \in Clients |->
                       IF d = c THEN next ELSE IF d \in W THEN "woken" ELSE pc[d]]
<1> DEFINE woken(k) == {d \in Clients : PendingWait(d) /\ \E i \in 1..k : queue[i] = d}
<1>1. PICK k \in {0} \cup {i \in DOMAIN queue : PendingWait(queue[i])} :
        /\ IF \E i \in DOMAIN queue : i > k /\ PendingWait(queue[i])
             THEN Cardinality(woken(k)) = n ELSE Cardinality(woken(k)) <= n
        /\ value' = v - Cardinality(woken(k))
        /\ pc' = [d \in Clients |->
                    IF d = c THEN next ELSE IF d \in woken(k) THEN "woken" ELSE pc[d]]
  BY DEF Settle
<1>2. woken(k) \in SUBSET Clients
  OBVIOUS
<1>3. c \notin woken(k) /\ \A d \in woken(k) : pc[d] = "waiting"
  BY DEF PendingWait
<1>4. Cardinality(woken(k)) \in Nat
  BY <1>2, ClientsAssumption, FS_Subset, FS_CardinalityType
<1>5. Cardinality(woken(k)) \in 0..v
  <2> HIDE DEF woken
  <2> QED BY <1>1, <1>4
<1> HIDE DEF woken
<1> QED BY <1>1, <1>2, <1>3, <1>5

\* c goes on to next, and the waiters in W are woken.
Move(c, W, next) ==
  /\ next \in {"idle", "waiting", "woken", "working"}
  /\ c \notin W /\ \A d \in W : pc[d] = "waiting"
  /\ pc' = [d \in Clients |-> IF d = c THEN next ELSE IF d \in W THEN "woken" ELSE pc[d]]
  /\ value' \in Nat
  /\ value' = value - Cardinality(W) + (IF pc[c] \in {"woken", "working"} THEN 1 ELSE 0)
                                      - (IF next \in {"woken", "working"} THEN 1 ELSE 0)
  /\ active' = active - (IF pc[c] = "working" THEN 1 ELSE 0)
                       + (IF next = "working" THEN 1 ELSE 0)
  /\ waiting' = waiting - (IF pc[c] \in {"waiting", "woken"} THEN 1 ELSE 0)
                         + (IF next \in {"waiting", "woken"} THEN 1 ELSE 0)
  /\ hit' \in [Clients -> BOOLEAN]
  /\ queue' \in Seq(Clients) /\ Distinct(queue')
  /\ \A d \in Queued(queue') : d \in Queued(queue) \/ d = c
  /\ c \in Queued(queue') => next \in {"waiting", "woken"}

\* Going on and waking others keeps the units and the accounts.
LEMMA SlotMove ==
  ASSUME SlotInv, NEW c \in Clients, NEW W \in SUBSET Clients, NEW next, Move(c, W, next)
  PROVE  SlotInv'
<1> USE DEF SlotInv, TypeOK, Move
<1> DEFINE n(s) == Count(Clients, pc, s)
           m(s) == Count(Clients, pc', s)
<1>1. pc' \in [Clients -> {"idle", "waiting", "woken", "working"}]
  OBVIOUS
<1>2. \A d \in Clients : pc'[d] = IF d = c THEN next ELSE IF d \in W THEN "woken" ELSE pc[d]
  OBVIOUS
<1>0. ASSUME NEW s
      PROVE  m(s) = n(s) - (IF pc[c] = s THEN 1 ELSE 0) + (IF next = s THEN 1 ELSE 0)
                         + (IF s = "woken" THEN Cardinality(W) ELSE 0)
                         - (IF s = "waiting" THEN Cardinality(W) ELSE 0)
  BY <1>2, ClientsAssumption, Recount
<1>3. m("waiting") = n("waiting") - (IF pc[c] = "waiting" THEN 1 ELSE 0)
                     + (IF next = "waiting" THEN 1 ELSE 0) + 0 - Cardinality(W)
  BY <1>0
<1>4. m("woken") = n("woken") - (IF pc[c] = "woken" THEN 1 ELSE 0)
                     + (IF next = "woken" THEN 1 ELSE 0) + Cardinality(W) - 0
  BY <1>0
<1>5. m("working") = n("working") - (IF pc[c] = "working" THEN 1 ELSE 0)
                     + (IF next = "working" THEN 1 ELSE 0) + 0 - 0
  BY <1>0
<1>6. /\ n("waiting") \in Nat /\ n("woken") \in Nat /\ n("working") \in Nat
      /\ m("waiting") \in Nat /\ m("woken") \in Nat /\ m("working") \in Nat
      /\ m("waiting") + m("woken") <= Cardinality(Clients) /\ Cardinality(Clients) \in Nat
  BY CountBounds
<1>7. /\ value + n("woken") + n("working") = MaxWorkers
      /\ active = n("working") /\ waiting = n("waiting") + n("woken")
  BY DEF UnitsAreConserved, AccountingIsExact, In, Count
<1>8. Cardinality(W) \in Nat
  BY ClientsAssumption, FS_Subset, FS_CardinalityType
<1>9. pc[c] \in {"idle", "waiting", "woken", "working"}
  OBVIOUS
<1>10. value \in Nat /\ MaxWorkers \in Nat
  BY WorkersAssumption
<1> HIDE DEF n, m
<1>11. value' + m("woken") + m("working") = MaxWorkers
  <2>1. value' = value - Cardinality(W) + (IF pc[c] \in {"woken", "working"} THEN 1 ELSE 0)
                                        - (IF next \in {"woken", "working"} THEN 1 ELSE 0)
    OBVIOUS
  <2>2. \A s : (IF s \in {"woken", "working"} THEN 1 ELSE 0)
                = (IF s = "woken" THEN 1 ELSE 0) + (IF s = "working" THEN 1 ELSE 0)
    OBVIOUS
  <2>3. m("woken") + m("working") = n("woken") + n("working") + Cardinality(W)
          - (IF pc[c] \in {"woken", "working"} THEN 1 ELSE 0)
          + (IF next \in {"woken", "working"} THEN 1 ELSE 0)
    BY ONLY <1>4, <1>5, <1>6, <1>8, <2>2
  <2> QED BY ONLY <1>6, <1>7, <1>8, <1>10, <2>1, <2>3
<1>12. active' = m("working") /\ waiting' = m("waiting") + m("woken")
  <2>1. /\ active' = active - (IF pc[c] = "working" THEN 1 ELSE 0)
                            + (IF next = "working" THEN 1 ELSE 0)
        /\ waiting' = waiting - (IF pc[c] \in {"waiting", "woken"} THEN 1 ELSE 0)
                              + (IF next \in {"waiting", "woken"} THEN 1 ELSE 0)
    OBVIOUS
  <2> QED BY ONLY <1>3, <1>4, <1>5, <1>6, <1>7, <1>8, <2>1
<1>13. value' \in 0..MaxWorkers /\ active' \in 0..MaxWorkers /\ waiting' \in 0..Cardinality(Clients)
  <2>1. value' \in Nat
    OBVIOUS
  <2> QED BY ONLY <1>6, <1>10, <1>11, <1>12, <2>1
<1>14. \A d \in Queued(queue') : pc'[d] \in {"waiting", "woken"}
  <2> SUFFICES ASSUME NEW d \in Queued(queue') PROVE pc'[d] \in {"waiting", "woken"}
    OBVIOUS
  <2>1. d \in Clients
    BY ElementOfSeq DEF Queued
  <2> QED BY <1>2, <2>1
<1> QED BY <1>1, <1>11, <1>12, <1>13, <1>14
        DEF UnitsAreConserved, AccountingIsExact, In, Queued, Distinct, m, Count

\* worker_slot keeps the accounts, whoever comes, goes on, leaves or is cancelled.
LEMMA SlotStep ==
  ASSUME SlotInv, NEW c \in Clients,
         Enter(c) \/ Granted(c) \/ Abandoned(c) \/ Leave(c) \/ Cancel(c)
  PROVE  SlotInv'
<1>0. /\ pc \in [Clients -> {"idle", "waiting", "woken", "working"}]
      /\ hit \in [Clients -> BOOLEAN] /\ queue \in Seq(Clients)
      /\ value \in Nat /\ waiting \in Nat /\ active \in Nat
      /\ Distinct(queue) /\ \A d \in Queued(queue) : pc[d] \in {"waiting", "woken"}
  BY WorkersAssumption, ClientsAssumption, FS_CardinalityType DEF SlotInv, TypeOK
<1>1. CASE Enter(c)
  <2>0. pc[c] = "idle" /\ hit' = hit /\ c \notin Queued(queue)
    BY <1>0, <1>1 DEF Enter
  <2>1. {} \in SUBSET Clients /\ Cardinality({}) = 0
    BY FS_EmptySet
  <2>2. CASE Busy
    <3>1. /\ queue' = Append(queue, c) /\ waiting' = waiting + 1
          /\ value' = value /\ active' = active
      BY <1>1, <2>2 DEF Enter
    <3>2. pc' = [d \in Clients |-> IF d = c THEN "waiting" ELSE IF d \in {} THEN "woken" ELSE pc[d]]
      BY <1>0, <1>1, <2>2 DEF Enter
    <3>3. /\ queue' \in Seq(Clients) /\ Distinct(queue')
          /\ Queued(queue') = Queued(queue) \cup {c}
      BY <1>0, <2>0, <3>1, AppendQueue
    <3>4. Move(c, {}, "waiting")
      BY <1>0, <2>0, <2>1, <3>1, <3>2, <3>3 DEF Move
    <3> QED BY <2>1, <3>4, SlotMove
  <2>3. CASE ~Busy
    <3>1. /\ queue' = queue /\ waiting' = waiting
          /\ value' = value - 1 /\ active' = active + 1 /\ value > 0
      BY <1>0, <1>1, <2>3 DEF Enter, Busy
    <3>2. pc' = [d \in Clients |-> IF d = c THEN "working" ELSE IF d \in {} THEN "woken" ELSE pc[d]]
      BY <1>0, <1>1, <2>3 DEF Enter
    <3>4. Move(c, {}, "working")
      BY <1>0, <2>0, <2>1, <3>1, <3>2 DEF Move
    <3> QED BY <2>1, <3>4, SlotMove
  <2> QED BY <2>2, <2>3
<1>2. CASE Granted(c)
  <2>0. /\ pc[c] = "woken" /\ ~PendingWait(c) /\ hit' = hit
        /\ waiting' = waiting - 1 /\ active' = active + 1
        /\ Settle(value, value, c, "working")
    BY <1>2 DEF Granted, PendingWait
  <2>1. PICK W \in SUBSET Clients :
           /\ c \notin W /\ \A d \in W : pc[d] = "waiting"
           /\ Cardinality(W) \in 0..value /\ value' = value - Cardinality(W)
           /\ pc' = [d \in Clients |->
                       IF d = c THEN "working" ELSE IF d \in W THEN "woken" ELSE pc[d]]
    <3>1. value \in 0..value
      BY <1>0
    <3> QED BY <1>0, <2>0, <3>1, SettleWakes DEF SlotInv
  <2>2. queue' \in Seq(Clients) /\ Distinct(queue') /\ Queued(queue') = Queued(queue) \ {c}
    BY <1>0, <1>2, RemoveFromQueue DEF Granted
  <2>4. Move(c, W, "working")
    BY <1>0, <2>0, <2>1, <2>2 DEF Move
  <2> QED BY <2>4, SlotMove
<1>3. CASE Abandoned(c)
  <2> DEFINE v == value + Returned(c)
  <2>0. /\ pc[c] \in {"waiting", "woken"} /\ ~PendingWait(c) /\ hit' \in [Clients -> BOOLEAN]
        /\ waiting' = waiting - 1 /\ active' = active
        /\ Settle(v, v, c, "idle")
    BY <1>0, <1>3 DEF Abandoned, PendingWait, WaitEnds
  <2>1. v \in Nat /\ v \in 0..v /\ v = value + (IF pc[c] \in {"woken", "working"} THEN 1 ELSE 0)
    BY <1>0, <2>0 DEF Returned
  <2> HIDE DEF v
  <2>2. PICK W \in SUBSET Clients :
           /\ c \notin W /\ \A d \in W : pc[d] = "waiting"
           /\ Cardinality(W) \in 0..v /\ value' = v - Cardinality(W)
           /\ pc' = [d \in Clients |->
                       IF d = c THEN "idle" ELSE IF d \in W THEN "woken" ELSE pc[d]]
    BY <1>0, <2>0, <2>1, SettleWakes DEF SlotInv
  <2>3. queue' \in Seq(Clients) /\ Distinct(queue') /\ Queued(queue') = Queued(queue) \ {c}
    BY <1>0, <1>3, RemoveFromQueue DEF Abandoned
  <2>4. Move(c, W, "idle")
    BY <1>0, <2>0, <2>1, <2>2, <2>3 DEF Move
  <2> QED BY <2>4, SlotMove
<1>4. CASE Leave(c)
  <2>0. /\ pc[c] = "working" /\ ~PendingWait(c) /\ hit' = hit /\ queue' = queue
        /\ waiting' = waiting /\ active' = active - 1
        /\ Settle(value + 1, 1, c, "idle")
    BY <1>4 DEF Leave, PendingWait
  <2> DEFINE v == value + 1
  <2>1. v \in Nat /\ 1 \in 0..v
    BY <1>0
  <2>2. PICK W \in SUBSET Clients :
           /\ c \notin W /\ \A d \in W : pc[d] = "waiting"
           /\ Cardinality(W) \in 0..v /\ value' = v - Cardinality(W)
           /\ pc' = [d \in Clients |->
                       IF d = c THEN "idle" ELSE IF d \in W THEN "woken" ELSE pc[d]]
    BY <1>0, <2>0, <2>1, SettleWakes DEF SlotInv
  <2>3. c \notin Queued(queue')
    BY <1>0, <2>0
  <2>4. Move(c, W, "idle")
    BY <1>0, <2>0, <2>2, <2>3 DEF Move
  <2> QED BY <2>4, SlotMove
<1>5. CASE Cancel(c)
  <2>1. UNCHANGED <<pc, value, queue, active, waiting>> /\ hit' \in [Clients -> BOOLEAN]
    BY <1>0, <1>5 DEF Cancel
  <2> QED BY <2>1 DEF SlotInv, TypeOK, UnitsAreConserved, AccountingIsExact, In, Distinct, Queued
<1> QED BY <1>1, <1>2, <1>3, <1>4, <1>5

-----------------------------------------------------------------------------
(* Repository locks.                                                       *)

\* A coroutine that is not idle has a lock object; the lock is taken as long as one is
\* inside, and by one only.
OwnerInv ==
  /\ \A c \in Everybody : mine[c] = Lock!NoLock <=> at[c] = "idle"
  /\ \A c \in Everybody : at[c] = "inside" => locked[mine[c]]
  /\ \A l \in Lock!Locks : locked[l] => \E c \in Everybody : at[c] = "inside" /\ mine[c] = l
  /\ \A c, d \in Everybody :
       at[c] = "inside" /\ at[d] = "inside" /\ mine[c] = mine[d] => c = d

\* A coroutine that was woken is the first of its queue, and nobody is inside.
QueueInv ==
  /\ \A c \in Everybody : at[c] = "woken" =>
       ~locked[mine[c]] /\ lockQueue[mine[c]] # <<>> /\ lockQueue[mine[c]][1] = c
  /\ \A l \in Lock!Locks :
       /\ Distinct(lockQueue[l])
       /\ \A c \in Queued(lockQueue[l]) : mine[c] = l /\ at[c] \in {"waiting", "woken"}

\* A key that is decremented is there.
CountedInv == \A r \in Lock!Repos : waiters[r] # 0 => counted[r]

LockInv == /\ Lock!TypeOK /\ Lock!OneLockPerRepository /\ Lock!WaitersAreCounted
           /\ OwnerInv /\ QueueInv /\ CountedInv

\* The library as RepoLocks sees it.
LEMMA LockLibrary ==
  /\ \A S : Lock!Cardinality(S) = Cardinality(S)
  /\ \A q, c : Lock!RemoveFirst(q, c) = RemoveFirst(q, c)
<1>1. ASSUME NEW S PROVE Lock!Cardinality(S) = Cardinality(S)
  BY Zenon DEF Lock!Cardinality, Cardinality
<1>2. ASSUME NEW q, NEW c PROVE Lock!RemoveFirst(q, c) = RemoveFirst(q, c)
  BY Zenon DEF Lock!RemoveFirst, RemoveFirst, Lock!RemoveAt, RemoveAt,
               Lock!SelectInSeq, SelectInSeq, Lock!Min, Min
<1> QED BY <1>1, <1>2

\* There are only so many coroutines.
LEMMA EverybodyIsFinite == IsFiniteSet(Everybody) /\ Cardinality(Everybody) \in Nat
BY ClientsAssumption, OthersAssumption, FS_Union, FS_CardinalityType DEF Everybody

\* Whom the count of a repository counts.
Waiting(f, r) == {c \in Everybody : Repo[c] = r /\ f[c] \in {"waiting", "woken"}}

\* The waiters of a repository are counted by a number.
LEMMA WaitingBounds ==
  ASSUME NEW f, NEW r
  PROVE  /\ IsFiniteSet(Waiting(f, r)) /\ Cardinality(Waiting(f, r)) \in 0..Cardinality(Everybody)
         /\ Cardinality(Waiting(f, r)) = 0 <=> Waiting(f, r) = {}
<1>1. Waiting(f, r) \in SUBSET Everybody
  BY DEF Waiting
<1>2. /\ IsFiniteSet(Waiting(f, r)) /\ Cardinality(Waiting(f, r)) <= Cardinality(Everybody)
      /\ Cardinality(Waiting(f, r)) \in Nat
  BY <1>1, EverybodyIsFinite, FS_Subset, FS_CardinalityType
<1> QED BY <1>2, EverybodyIsFinite, FS_EmptySet

\* Nobody but c comes to wait or is done with it.
OthersStay(f, g, c) ==
  \A d \in Everybody \ {c} : f[d] \in {"waiting", "woken"} <=> g[d] \in {"waiting", "woken"}

\* What that means for who waits at a repository.
WaitingMoved(f, g, c) ==
  /\ \A r : r # Repo[c] => Waiting(g, r) = Waiting(f, r)
  /\ g[c] \in {"waiting", "woken"} /\ f[c] \notin {"waiting", "woken"} =>
       Cardinality(Waiting(g, Repo[c])) = Cardinality(Waiting(f, Repo[c])) + 1
  /\ g[c] \notin {"waiting", "woken"} /\ f[c] \in {"waiting", "woken"} =>
       Cardinality(Waiting(g, Repo[c])) = Cardinality(Waiting(f, Repo[c])) - 1
  /\ (g[c] \in {"waiting", "woken"} <=> f[c] \in {"waiting", "woken"}) =>
       Waiting(g, Repo[c]) = Waiting(f, Repo[c])

LEMMA WaitingMove ==
  ASSUME NEW f, NEW g, NEW c \in Everybody, OthersStay(f, g, c)
  PROVE  WaitingMoved(f, g, c)
<1> DEFINE F == Waiting(f, Repo[c])
           G == Waiting(g, Repo[c])
<1>1. \A r : r # Repo[c] => Waiting(g, r) = Waiting(f, r)
  BY DEF Waiting, OthersStay
<1>2. IsFiniteSet(F)
  BY WaitingBounds
<1>3. /\ g[c] \in {"waiting", "woken"} /\ f[c] \notin {"waiting", "woken"} => G = F \cup {c} /\ c \notin F
      /\ g[c] \notin {"waiting", "woken"} /\ f[c] \in {"waiting", "woken"} => G = F \ {c} /\ c \in F
      /\ (g[c] \in {"waiting", "woken"} <=> f[c] \in {"waiting", "woken"}) => G = F
  BY DEF Waiting, OthersStay
<1> HIDE DEF F, G
<1>4. /\ Cardinality(F \cup {c}) = IF c \in F THEN Cardinality(F) ELSE Cardinality(F) + 1
      /\ Cardinality(F \ {c}) = IF c \in F THEN Cardinality(F) - 1 ELSE Cardinality(F)
  BY <1>2, FS_AddElement, FS_RemoveElement
<1>5. /\ g[c] \in {"waiting", "woken"} /\ f[c] \notin {"waiting", "woken"} => Cardinality(G) = Cardinality(F) + 1
      /\ g[c] \notin {"waiting", "woken"} /\ f[c] \in {"waiting", "woken"} => Cardinality(G) = Cardinality(F) - 1
  BY <1>3, <1>4
<1> QED BY <1>1, <1>3, <1>5 DEF F, G, WaitingMoved

\* A coroutine finds the lock of its repository, or a new one that nobody else has.
LEMMA LockForIsMine ==
  ASSUME LockInv, NEW c \in Everybody
  PROVE  /\ Lock!LockFor(Repo[c]) \in Lock!Locks
         /\ table[Repo[c]] # Lock!NoLock => Lock!LockFor(Repo[c]) = table[Repo[c]]
         /\ table[Repo[c]] = Lock!NoLock =>
              \A d \in Everybody : mine[d] # Lock!LockFor(Repo[c])
<1> DEFINE r == Repo[c]
<1>0. r \in Lock!Repos /\ \A d \in Everybody : Repo[d] \in Lock!Repos
  BY DEF Lock!Repos
<1>1. CASE table[r] # Lock!NoLock
  BY <1>0, <1>1 DEF Lock!LockFor, LockInv, Lock!TypeOK
<1>2. CASE table[r] = Lock!NoLock
  <2>1. Lock!Unused # {}
    <3> SUFFICES ASSUME Lock!Unused = {} PROVE FALSE
      OBVIOUS
    <3>1. \A l \in Lock!Locks : \E d \in Everybody : table[Repo[d]] = l
      <4> SUFFICES ASSUME NEW l \in Lock!Locks PROVE \E d \in Everybody : table[Repo[d]] = l
        OBVIOUS
      <4>1. l # Lock!NoLock
        BY EverybodyIsFinite, LockLibrary DEF Lock!Locks, Lock!NoLock
      <4>2. (\E d \in Everybody : mine[d] = l) \/ (\E q \in Lock!Repos : table[q] = l)
        BY DEF Lock!Unused
      <4>3. CASE \E d \in Everybody : mine[d] = l
        BY <4>1, <4>3 DEF LockInv, Lock!OneLockPerRepository
      <4>4. CASE \E q \in Lock!Repos : table[q] = l
        BY <4>4 DEF Lock!Repos
      <4> QED BY <4>2, <4>3, <4>4
    <3> DEFINE h == [l \in Lock!Locks |-> CHOOSE d \in Everybody : table[Repo[d]] = l]
    <3>2. \A l \in Lock!Locks : h[l] \in Everybody /\ table[Repo[h[l]]] = l
      BY <3>1
    <3>3. \A l \in Lock!Locks : h[l] # c
      BY <1>2, <3>2, EverybodyIsFinite, LockLibrary DEF Lock!Locks, Lock!NoLock
    <3>4. h \in [Lock!Locks -> Everybody \ {c}]
      BY <3>2, <3>3
    <3> HIDE DEF h
    <3>5. IsFiniteSet(Lock!Locks) /\ Cardinality(Lock!Locks) = Cardinality(Everybody)
      <4> DEFINE n == Cardinality(Everybody)
      <4>1. n \in Nat /\ Lock!Locks = 1..n
        <5>1. n \in Nat
          BY EverybodyIsFinite
        <5>2. Lock!Locks = 1..n
          BY LockLibrary DEF Lock!Locks
        <5> QED BY <5>1, <5>2
      <4> HIDE DEF n
      <4>2. IsFiniteSet(1..n) /\ Cardinality(1..n) = IF 1 > n THEN 0 ELSE n-1+1
        BY <4>1, FS_Interval
      <4>3. Cardinality(1..n) = n
        BY <4>1, <4>2
      <4> QED BY <4>1, <4>2, <4>3 DEF n
    <3>6. IsFiniteSet(Everybody \ {c})
          /\ Cardinality(Everybody \ {c}) = Cardinality(Everybody) - 1
      BY EverybodyIsFinite, FS_RemoveElement
    <3>7. Cardinality(Everybody \ {c}) < Cardinality(Lock!Locks)
      BY <3>5, <3>6, EverybodyIsFinite
    <3>8. \E k, l \in Lock!Locks : k # l /\ h[k] = h[l]
      BY <3>4, <3>5, <3>6, <3>7, FS_PigeonHole
    <3> QED BY <3>2, <3>8
  <2>2. Lock!LockFor(r) \in Lock!Unused
    BY <1>2, <2>1 DEF Lock!LockFor
  <2> QED BY <1>2, <2>2 DEF Lock!Unused
<1> QED BY <1>1, <1>2

\* What the invariant says of the values of the variables.
LEMMA LockTypes ==
  ASSUME LockInv
  PROVE  /\ at \in [Everybody -> {"idle", "waiting", "woken", "inside"}]
         /\ struck \in [Everybody -> BOOLEAN]
         /\ table \in [Lock!Repos -> Lock!Locks \cup {Lock!NoLock}]
         /\ counted \in [Lock!Repos -> BOOLEAN]
         /\ waiters \in [Lock!Repos -> Nat]
         /\ locked \in [Lock!Locks -> BOOLEAN] /\ lockQueue \in [Lock!Locks -> Seq(Everybody)]
         /\ mine \in [Everybody -> Lock!Locks \cup {Lock!NoLock}]
         /\ Lock!NoLock \notin Lock!Locks /\ \A c \in Everybody : Repo[c] \in Lock!Repos
         /\ \A c \in Everybody : at[c] # "idle" =>
              mine[c] \in Lock!Locks /\ mine[c] # Lock!NoLock /\ mine[c] = table[Repo[c]]
<1>1. Lock!TypeOK
  BY DEF LockInv
<1>2. waiters \in [Lock!Repos -> Nat]
  BY <1>1, LockLibrary, EverybodyIsFinite DEF Lock!TypeOK
<1>3. Lock!NoLock \notin Lock!Locks
  BY LockLibrary, EverybodyIsFinite DEF Lock!NoLock, Lock!Locks
<1>4. \A c \in Everybody : Repo[c] \in Lock!Repos
  BY DEF Lock!Repos
<1>5. mine \in [Everybody -> Lock!Locks \cup {Lock!NoLock}]
  BY <1>1 DEF Lock!TypeOK
<1>6. \A c \in Everybody : at[c] # "idle" =>
        mine[c] \in Lock!Locks /\ mine[c] # Lock!NoLock /\ mine[c] = table[Repo[c]]
  BY <1>5 DEF LockInv, OwnerInv, Lock!OneLockPerRepository
<1> QED BY <1>1, <1>2, <1>3, <1>4, <1>5, <1>6 DEF Lock!TypeOK

\* c comes to wait, is done with it, or neither, and its count follows.
Recounted(c) ==
  /\ \A d \in Everybody \ {c} : at[d] \in {"waiting", "woken"} <=> at'[d] \in {"waiting", "woken"}
  /\ waiters' = [waiters EXCEPT ![Repo[c]] = waiters'[Repo[c]]]
  /\ \/ /\ at'[c] \in {"waiting", "woken"} /\ at[c] \notin {"waiting", "woken"}
        /\ waiters'[Repo[c]] = waiters[Repo[c]] + 1
     \/ /\ at'[c] \notin {"waiting", "woken"} /\ at[c] \in {"waiting", "woken"}
        /\ waiters'[Repo[c]] = waiters[Repo[c]] - 1
     \/ /\ at'[c] \in {"waiting", "woken"} <=> at[c] \in {"waiting", "woken"}
        /\ waiters'[Repo[c]] = waiters[Repo[c]]

\* The count of a repository stays the number of its waiters.
LEMMA CountStep ==
  ASSUME LockInv, NEW c \in Everybody, Recounted(c)
  PROVE  /\ Lock!WaitersAreCounted'
         /\ waiters' \in [Lock!Repos -> 0..Lock!Cardinality(Everybody)]
         /\ \A r \in Lock!Repos : waiters'[r] = 0 => Waiting(at', r) = {}
<1>1. \A r \in Lock!Repos : waiters[r] = Cardinality(Waiting(at, r))
  BY LockLibrary DEF LockInv, Lock!WaitersAreCounted, Waiting
<1>2. Repo[c] \in Lock!Repos /\ waiters \in [Lock!Repos -> Nat]
  BY LockTypes
<1>3. OthersStay(at, at', c)
  BY DEF Recounted, OthersStay
<1>4. WaitingMoved(at, at', c)
  BY <1>3, WaitingMove
<1>5. \A r \in Lock!Repos : r # Repo[c] => waiters'[r] = Cardinality(Waiting(at', r))
  BY <1>1, <1>2, <1>4 DEF Recounted, WaitingMoved
<1>6. waiters'[Repo[c]] = Cardinality(Waiting(at', Repo[c]))
  BY <1>1, <1>2, <1>4 DEF Recounted, WaitingMoved
<1>7. \A r \in Lock!Repos : waiters'[r] = Cardinality(Waiting(at', r))
  BY <1>5, <1>6
<1>8. \A r : /\ Cardinality(Waiting(at', r)) \in 0..Cardinality(Everybody)
             /\ Cardinality(Waiting(at', r)) = 0 <=> Waiting(at', r) = {}
  BY WaitingBounds
<1>9. waiters' \in [Lock!Repos -> 0..Cardinality(Everybody)]
  <2>1. waiters' = [r \in Lock!Repos |-> waiters'[r]]
    BY <1>2 DEF Recounted
  <2> QED BY <1>7, <1>8, <2>1
<1>10. Lock!WaitersAreCounted'
  BY <1>7, LockLibrary DEF Lock!WaitersAreCounted, Waiting
<1> QED BY <1>7, <1>8, <1>9, <1>10, LockLibrary

\* A coroutine comes to the lock of its repository, and gets it or joins its queue.
LEMMA EnterLock ==
  ASSUME LockInv, NEW c \in Everybody, Lock!Enter(c)
  PROVE  LockInv'
<1> DEFINE l == Lock!LockFor(Repo[c])
           free == Lock!Free(l)
<1>0. /\ at[c] = "idle" /\ struck' = struck
      /\ table' = [table EXCEPT ![Repo[c]] = l] /\ mine' = [mine EXCEPT ![c] = l]
      /\ counted' = [counted EXCEPT ![Repo[c]] = TRUE]
      /\ waiters' = [waiters EXCEPT ![Repo[c]] = IF free THEN @ ELSE @ + 1]
      /\ locked' = [locked EXCEPT ![l] = @ \/ free]
      /\ lockQueue' = [lockQueue EXCEPT ![l] = IF free THEN @ ELSE Append(@, c)]
      /\ at' = [at EXCEPT ![c] = IF free THEN "inside" ELSE "waiting"]
  BY DEF Lock!Enter
<1>1. /\ l \in Lock!Locks
      /\ table[Repo[c]] # Lock!NoLock => l = table[Repo[c]]
      /\ table[Repo[c]] = Lock!NoLock => \A d \in Everybody : mine[d] # l
  BY LockForIsMine
<1>2. free => /\ ~locked[l]
              /\ \A i \in 1..Len(lockQueue[l]) : at[lockQueue[l][i]] = "waiting"
  BY <1>1, LockTypes, LenProperties DEF Lock!Free
<1> HIDE DEF l, free
<1>3. mine[c] = Lock!NoLock /\ c \notin Queued(lockQueue[l])
  BY <1>0, <1>1 DEF LockInv, OwnerInv, QueueInv
<1>4. Recounted(c)
  BY <1>0, LockTypes DEF Recounted
<1>5. Lock!WaitersAreCounted' /\ waiters' \in [Lock!Repos -> 0..Lock!Cardinality(Everybody)]
  BY <1>4, CountStep
<1>6. /\ lockQueue' \in [Lock!Locks -> Seq(Everybody)]
      /\ \A k \in Lock!Locks : k # l => lockQueue'[k] = lockQueue[k]
      /\ Distinct(lockQueue'[l])
      /\ Queued(lockQueue'[l]) = IF free THEN Queued(lockQueue[l]) ELSE Queued(lockQueue[l]) \cup {c}
      /\ lockQueue[l] # <<>> => lockQueue'[l] # <<>> /\ lockQueue'[l][1] = lockQueue[l][1]
  <2>1. lockQueue[l] \in Seq(Everybody) /\ Distinct(lockQueue[l])
    BY <1>1, LockTypes DEF LockInv, QueueInv
  <2>2. CASE free
    BY <1>0, <1>1, <2>1, <2>2, LockTypes
  <2>3. CASE ~free
    <3>1. lockQueue'[l] = Append(lockQueue[l], c)
      BY <1>0, <1>1, <2>3, LockTypes
    <3>2. /\ Append(lockQueue[l], c) \in Seq(Everybody) /\ Distinct(Append(lockQueue[l], c))
          /\ Append(lockQueue[l], c) # <<>>
          /\ Queued(Append(lockQueue[l], c)) = Queued(lockQueue[l]) \cup {c}
          /\ lockQueue[l] # <<>> => Append(lockQueue[l], c)[1] = lockQueue[l][1]
      BY <1>3, <2>1, AppendQueue, AppendProperties
    <3> QED BY <1>0, <1>1, <2>3, <3>1, <3>2, LockTypes
  <2> QED BY <2>2, <2>3
<1>7. Lock!TypeOK'
  <2>1. /\ at' \in [Everybody -> {"idle", "waiting", "woken", "inside"}]
        /\ struck' \in [Everybody -> BOOLEAN]
        /\ table' \in [Lock!Repos -> Lock!Locks \cup {Lock!NoLock}]
        /\ mine' \in [Everybody -> Lock!Locks \cup {Lock!NoLock}]
    BY <1>0, <1>1, LockTypes
  <2>2. counted' \in [Lock!Repos -> BOOLEAN]
    BY <1>0, LockTypes
  <2>3. locked' \in [Lock!Locks -> BOOLEAN]
    BY <1>0, <1>1, LockTypes
  <2> QED BY <1>5, <1>6, <2>1, <2>2, <2>3 DEF Lock!TypeOK
<1>8. Lock!OneLockPerRepository'
  BY <1>0, <1>1, LockTypes DEF LockInv, Lock!OneLockPerRepository
<1>9. /\ \A d \in Everybody \ {c} : at'[d] = at[d] /\ mine'[d] = mine[d]
      /\ at'[c] = (IF free THEN "inside" ELSE "waiting") /\ mine'[c] = l
      /\ \A k \in Lock!Locks : k # l => locked'[k] = locked[k]
      /\ locked'[l] = (locked[l] \/ free)
  BY <1>0, <1>1, LockTypes
<1>10. /\ \A d \in Everybody : mine[d] = Lock!NoLock <=> at[d] = "idle"
       /\ \A d \in Everybody : at[d] = "inside" => locked[mine[d]]
       /\ \A k \in Lock!Locks : locked[k] => \E d \in Everybody : at[d] = "inside" /\ mine[d] = k
       /\ \A d, e \in Everybody : at[d] = "inside" /\ at[e] = "inside" /\ mine[d] = mine[e] => d = e
       /\ \A d \in Everybody : at[d] # "idle" => mine[d] \in Lock!Locks
       /\ l # Lock!NoLock
  BY <1>1, LockTypes DEF LockInv, OwnerInv
<1>11. OwnerInv'
  <2>1. \A d \in Everybody : mine'[d] = Lock!NoLock <=> at'[d] = "idle"
    BY <1>9, <1>10
  <2>2. ASSUME NEW d \in Everybody, at'[d] = "inside" PROVE locked'[mine'[d]]
    <3>1. CASE d = c
      BY <1>9, <2>2, <3>1
    <3>2. CASE d # c
      <4>1. at[d] = "inside" /\ mine'[d] = mine[d] /\ mine[d] \in Lock!Locks /\ locked[mine[d]]
        BY <1>9, <1>10, <2>2, <3>2
      <4> QED BY <1>9, <4>1
    <3> QED BY <3>1, <3>2
  <2>3. \A k \in Lock!Locks : locked'[k] => \E d \in Everybody : at'[d] = "inside" /\ mine'[d] = k
    <3> SUFFICES ASSUME NEW k \in Lock!Locks, locked'[k]
                 PROVE  \E d \in Everybody : at'[d] = "inside" /\ mine'[d] = k
      OBVIOUS
    <3>1. CASE k = l /\ free
      BY <1>9, <3>1
    <3>2. CASE locked[k]
      <4>1. PICK d \in Everybody : at[d] = "inside" /\ mine[d] = k
        BY <1>10, <3>2
      <4> QED BY <1>0, <1>9, <4>1
    <3> QED BY <1>9, <3>1, <3>2
  <2>4. \A d, e \in Everybody :
          at'[d] = "inside" /\ at'[e] = "inside" /\ mine'[d] = mine'[e] => d = e
    BY <1>2, <1>9, <1>10
  <2> QED BY <2>1, <2>2, <2>3, <2>4 DEF OwnerInv
<1>12. QueueInv'
  <2>1. ASSUME NEW d \in Everybody, at'[d] = "woken"
        PROVE  ~locked'[mine'[d]] /\ lockQueue'[mine'[d]] # <<>> /\ lockQueue'[mine'[d]][1] = d
    <3>1. d # c /\ at[d] = "woken" /\ mine'[d] = mine[d] /\ mine[d] \in Lock!Locks
      BY <1>9, <1>10, <2>1
    <3>2. ~locked[mine[d]] /\ lockQueue[mine[d]] # <<>> /\ lockQueue[mine[d]][1] = d
      BY <3>1 DEF LockInv, QueueInv
    <3>3. mine[d] = l => ~free
      <4> SUFFICES ASSUME mine[d] = l, free PROVE FALSE
        OBVIOUS
      <4>1. 1 \in 1..Len(lockQueue[l])
        BY <1>1, <3>2, EmptySeq, LockTypes
      <4> QED BY <1>2, <3>1, <3>2, <4>1
    <3> QED BY <1>6, <1>9, <3>1, <3>2, <3>3
  <2>2. ASSUME NEW k \in Lock!Locks
        PROVE  /\ Distinct(lockQueue'[k])
               /\ \A d \in Queued(lockQueue'[k]) : mine'[d] = k /\ at'[d] \in {"waiting", "woken"}
    <3>1. \A d \in Queued(lockQueue[k]) : d \in Everybody /\ d # c /\ mine[d] = k /\ at[d] \in {"waiting", "woken"}
      BY <1>0, LockTypes, ElementOfSeq DEF LockInv, QueueInv, Queued
    <3>2. CASE k # l
      BY <1>6, <1>9, <3>1, <3>2 DEF LockInv, QueueInv
    <3>3. CASE k = l
      BY <1>6, <1>9, <3>1, <3>3
    <3> QED BY <3>2, <3>3
  <2> QED BY <2>1, <2>2 DEF QueueInv, Queued, Distinct
<1>13. CountedInv'
  BY <1>0, LockTypes DEF LockInv, CountedInv
<1> QED BY <1>5, <1>7, <1>8, <1>11, <1>12, <1>13 DEF LockInv

\* What leaves a queue, leaves it for everybody else as it is.
LEMMA LeaveQueue ==
  ASSUME LockInv, NEW l \in Lock!Locks, NEW c
  PROVE  /\ Lock!RemoveFirst(lockQueue[l], c) \in Seq(Everybody)
         /\ Distinct(Lock!RemoveFirst(lockQueue[l], c))
         /\ \A d \in Queued(Lock!RemoveFirst(lockQueue[l], c)) :
              d # c /\ d \in Everybody /\ mine[d] = l /\ at[d] \in {"waiting", "woken"}
         /\ lockQueue[l] # <<>> /\ lockQueue[l][1] # c =>
              /\ Lock!RemoveFirst(lockQueue[l], c) # <<>>
              /\ Lock!RemoveFirst(lockQueue[l], c)[1] = lockQueue[l][1]
<1> DEFINE q == lockQueue[l]
<1>1. q \in Seq(Everybody)
  BY LockTypes
<1>2. Distinct(q) /\ \A d \in Queued(q) : mine[d] = l /\ at[d] \in {"waiting", "woken"}
  BY DEF LockInv, QueueInv
<1> HIDE DEF q
<1>3. /\ RemoveFirst(q, c) \in Seq(Everybody) /\ Distinct(RemoveFirst(q, c))
      /\ Queued(RemoveFirst(q, c)) = Queued(q) \ {c}
      /\ q # <<>> /\ q[1] # c => /\ RemoveFirst(q, c) # <<>>
                                 /\ RemoveFirst(q, c)[1] = q[1]
  BY <1>1, <1>2, RemoveFromQueue
<1>4. \A d \in Queued(q) : d \in Everybody
  BY <1>1, ElementOfSeq DEF Queued
<1>5. Lock!RemoveFirst(q, c) = RemoveFirst(q, c)
  BY LockLibrary
<1> QED BY <1>2, <1>3, <1>4, <1>5 DEF q

\* The first of the queue, woken, takes the lock.
LEMMA GrantedLock ==
  ASSUME LockInv, NEW c \in Everybody, Lock!Granted(c)
  PROVE  LockInv'
<1> DEFINE l == mine[c]
           rest == Lock!RemoveFirst(lockQueue[l], c)
<1>0. /\ at[c] = "woken" /\ UNCHANGED <<struck, table, counted, mine>>
      /\ waiters' = [waiters EXCEPT ![Repo[c]] = @ - 1]
      /\ locked' = [locked EXCEPT ![l] = TRUE]
      /\ lockQueue' = [lockQueue EXCEPT ![l] = rest]
      /\ at' = [at EXCEPT ![c] = "inside"]
  BY DEF Lock!Granted, Lock!Uncounted
<1>1. l \in Lock!Locks /\ ~locked[l] /\ lockQueue[l] # <<>> /\ lockQueue[l][1] = c
  BY <1>0, LockTypes DEF LockInv, QueueInv
<1>2. /\ \A d \in Everybody \ {c} : at'[d] = at[d]
      /\ at'[c] = "inside" /\ mine' = mine
      /\ \A k \in Lock!Locks : k # l => locked'[k] = locked[k] /\ lockQueue'[k] = lockQueue[k]
      /\ locked'[l] = TRUE /\ lockQueue'[l] = rest
  BY <1>0, <1>1, LockTypes
<1>3. /\ \A d \in Everybody : mine[d] = Lock!NoLock <=> at[d] = "idle"
      /\ \A d \in Everybody : at[d] = "inside" => locked[mine[d]]
      /\ \A k \in Lock!Locks : locked[k] => \E d \in Everybody : at[d] = "inside" /\ mine[d] = k
      /\ \A d, e \in Everybody : at[d] = "inside" /\ at[e] = "inside" /\ mine[d] = mine[e] => d = e
      /\ \A d \in Everybody : at[d] # "idle" => mine[d] \in Lock!Locks
  BY LockTypes DEF LockInv, OwnerInv
<1>4. /\ rest \in Seq(Everybody) /\ Distinct(rest)
      /\ \A d \in Queued(rest) : d # c /\ d \in Everybody /\ mine[d] = l /\ at[d] \in {"waiting", "woken"}
  BY <1>1, LeaveQueue
<1> HIDE DEF l, rest
<1>5. Recounted(c)
  BY <1>0, LockTypes DEF Recounted
<1>6. Lock!WaitersAreCounted' /\ waiters' \in [Lock!Repos -> 0..Lock!Cardinality(Everybody)]
  BY <1>5, CountStep
<1>7. Lock!TypeOK'
  BY <1>0, <1>1, <1>4, <1>6, LockTypes DEF Lock!TypeOK
<1>8. Lock!OneLockPerRepository'
  BY <1>0 DEF LockInv, Lock!OneLockPerRepository
<1>9. OwnerInv'
  <2>1. \A d \in Everybody : mine'[d] = Lock!NoLock <=> at'[d] = "idle"
    BY <1>0, <1>2, <1>3
  <2>2. ASSUME NEW d \in Everybody, at'[d] = "inside" PROVE locked'[mine'[d]]
    BY <1>2, <1>3, <2>2 DEF l
  <2>3. ASSUME NEW k \in Lock!Locks, locked'[k]
        PROVE  \E d \in Everybody : at'[d] = "inside" /\ mine'[d] = k
    <3>1. CASE k = l
      BY <1>2, <3>1 DEF l
    <3>2. CASE k # l
      <4>1. PICK d \in Everybody : at[d] = "inside" /\ mine[d] = k
        BY <1>2, <1>3, <2>3, <3>2
      <4> QED BY <1>0, <1>2, <4>1
    <3> QED BY <3>1, <3>2
  <2>4. \A d, e \in Everybody :
          at'[d] = "inside" /\ at'[e] = "inside" /\ mine'[d] = mine'[e] => d = e
    BY <1>1, <1>2, <1>3 DEF l
  <2> QED BY <2>1, <2>2, <2>3, <2>4 DEF OwnerInv
<1>10. QueueInv'
  <2>1. ASSUME NEW d \in Everybody, at'[d] = "woken"
        PROVE  ~locked'[mine'[d]] /\ lockQueue'[mine'[d]] # <<>> /\ lockQueue'[mine'[d]][1] = d
    <3>1. d # c /\ at[d] = "woken" /\ mine[d] \in Lock!Locks
      BY <1>2, <1>3, <2>1
    <3>2. ~locked[mine[d]] /\ lockQueue[mine[d]] # <<>> /\ lockQueue[mine[d]][1] = d
      BY <3>1 DEF LockInv, QueueInv
    <3>3. mine[d] # l
      BY <1>1, <3>1, <3>2
    <3> QED BY <1>2, <3>1, <3>2, <3>3
  <2>2. ASSUME NEW k \in Lock!Locks
        PROVE  /\ Distinct(lockQueue'[k])
               /\ \A d \in Queued(lockQueue'[k]) : mine'[d] = k /\ at'[d] \in {"waiting", "woken"}
    <3>1. \A d \in Queued(lockQueue[k]) : d \in Everybody /\ mine[d] = k /\ at[d] \in {"waiting", "woken"}
      BY LockTypes, ElementOfSeq DEF LockInv, QueueInv, Queued
    <3>2. CASE k # l
      BY <1>2, <3>1, <3>2 DEF LockInv, QueueInv, l
    <3>3. CASE k = l
      BY <1>2, <1>4, <3>3
    <3> QED BY <3>2, <3>3
  <2> QED BY <2>1, <2>2 DEF QueueInv, Queued, Distinct
<1>11. CountedInv'
  <2>1. \A r \in Lock!Repos : waiters'[r] # 0 => waiters[r] # 0
    <3>1. \A r \in Lock!Repos : waiters'[r] = (IF r = Repo[c] THEN waiters[r] - 1 ELSE waiters[r])
      BY <1>0, LockTypes
    <3>2. \A r \in Lock!Repos : waiters'[r] >= 0
      BY <1>5, CountStep, LockLibrary, EverybodyIsFinite
    <3> QED BY <3>1, <3>2
  <2> QED BY <1>0, <2>1 DEF LockInv, CountedInv
<1> QED BY <1>6, <1>7, <1>8, <1>9, <1>10, <1>11 DEF LockInv

\* What only strikes a coroutine leaves the locks as they are.
LEMMA CancelledAtLock ==
  ASSUME LockInv, UNCHANGED <<at, table, counted, waiters, locked, lockQueue, mine>>,
         struck' \in [Everybody -> BOOLEAN]
  PROVE  LockInv'
BY DEF LockInv, Lock!TypeOK, Lock!OneLockPerRepository, Lock!WaitersAreCounted, OwnerInv,
       QueueInv, CountedInv, Queued, Distinct

\* c gives up its lock object, which it may have waited for or been inside.
Gone(c) ==
  /\ at[c] # "idle" /\ at'[c] = "idle"
  /\ at' \in [Everybody -> {"idle", "waiting", "woken", "inside"}]
  /\ struck' \in [Everybody -> BOOLEAN]
  /\ mine' = [mine EXCEPT ![c] = Lock!NoLock]
  /\ locked' \in [Lock!Locks -> BOOLEAN] /\ lockQueue' \in [Lock!Locks -> Seq(Everybody)]
  /\ \A k \in Lock!Locks \ {mine[c]} : locked'[k] = locked[k] /\ lockQueue'[k] = lockQueue[k]
  /\ locked'[mine[c]] <=> locked[mine[c]] /\ at[c] # "inside"
  /\ Distinct(lockQueue'[mine[c]])
  /\ \A d \in Queued(lockQueue'[mine[c]]) :
       d # c /\ d \in Everybody /\ mine[d] = mine[c] /\ at[d] \in {"waiting", "woken"}
  /\ lockQueue[mine[c]] # <<>> /\ lockQueue[mine[c]][1] # c =>
       lockQueue'[mine[c]] # <<>> /\ lockQueue'[mine[c]][1] = lockQueue[mine[c]][1]
  /\ \A d \in Everybody \ {c} : at'[d] # at[d] =>
       /\ at[d] = "waiting" /\ at'[d] = "woken" /\ ~locked'[mine[c]]
       /\ lockQueue'[mine[c]] # <<>> /\ lockQueue'[mine[c]][1] = d
  /\ Recounted(c)
  /\ counted' = [counted EXCEPT ![Repo[c]] = @ /\ waiters'[Repo[c]] # 0]
  /\ table' = [table EXCEPT ![Repo[c]] =
                 IF counted[Repo[c]] /\ waiters'[Repo[c]] = 0 /\ ~locked'[mine[c]]
                   THEN Lock!NoLock ELSE @]

\* Giving up a lock object, by leaving or by a cancelled wait, keeps the books of all.
LEMMA GoneFromLock ==
  ASSUME LockInv, NEW c \in Everybody, Gone(c)
  PROVE  LockInv'
<1> DEFINE l == mine[c]
<1>1. /\ l \in Lock!Locks /\ l # Lock!NoLock
      /\ mine'[c] = Lock!NoLock /\ \A d \in Everybody \ {c} : mine'[d] = mine[d]
  BY LockTypes DEF Gone
<1>2. /\ \A d \in Everybody : mine[d] = Lock!NoLock <=> at[d] = "idle"
      /\ \A d \in Everybody : at[d] = "inside" => locked[mine[d]]
      /\ \A k \in Lock!Locks : locked[k] => \E d \in Everybody : at[d] = "inside" /\ mine[d] = k
      /\ \A d, e \in Everybody : at[d] = "inside" /\ at[e] = "inside" /\ mine[d] = mine[e] => d = e
      /\ \A d \in Everybody : at[d] # "idle" => mine[d] \in Lock!Locks
  BY LockTypes DEF LockInv, OwnerInv
<1>3. \A d \in Everybody \ {c} : at'[d] = "woken" /\ at[d] # "woken" =>
        /\ mine[d] = l /\ ~locked'[l] /\ lockQueue'[l] # <<>> /\ lockQueue'[l][1] = d
  <2> SUFFICES ASSUME NEW d \in Everybody \ {c}, at'[d] = "woken", at[d] # "woken"
               PROVE  mine[d] = l /\ ~locked'[l] /\ lockQueue'[l] # <<>> /\ lockQueue'[l][1] = d
    OBVIOUS
  <2>1. ~locked'[l] /\ lockQueue'[l] # <<>> /\ lockQueue'[l][1] = d
    BY DEF Gone
  <2>2. d \in Queued(lockQueue'[l])
    <3>1. lockQueue'[l] \in Seq(Everybody)
      BY <1>1 DEF Gone
    <3> QED BY <2>1, <3>1, EmptySeq DEF Queued
  <2> QED BY <2>1, <2>2 DEF Gone
<1>4. \A d \in Everybody \ {c} : at'[d] # "woken" => at'[d] = at[d]
  BY DEF Gone
<1>5. /\ Lock!WaitersAreCounted' /\ waiters' \in [Lock!Repos -> 0..Lock!Cardinality(Everybody)]
      /\ \A r \in Lock!Repos : waiters'[r] = 0 => Waiting(at', r) = {}
  BY CountStep DEF Gone
<1>6. Lock!TypeOK'
  <2>1. mine' \in [Everybody -> Lock!Locks \cup {Lock!NoLock}]
    BY LockTypes DEF Gone
  <2>2. table' \in [Lock!Repos -> Lock!Locks \cup {Lock!NoLock}]
    BY LockTypes DEF Gone
  <2>3. counted' \in [Lock!Repos -> BOOLEAN]
    BY LockTypes DEF Gone
  <2> QED BY <1>5, <2>1, <2>2, <2>3 DEF Lock!TypeOK, Gone
<1>7. Lock!OneLockPerRepository'
  <2> SUFFICES ASSUME NEW d \in Everybody, d # c, mine[d] # Lock!NoLock
               PROVE  mine[d] = table'[Repo[d]]
    BY <1>1 DEF Lock!OneLockPerRepository
  <2>1. at[d] # "idle" /\ mine[d] = table[Repo[d]] /\ Repo[d] \in Lock!Repos
    BY <1>2, LockTypes
  <2>2. CASE Repo[d] # Repo[c]
    BY <2>1, <2>2, LockTypes DEF Gone
  <2>3. CASE Repo[d] = Repo[c] /\ at[d] = "inside"
    <3>1. mine[d] = l /\ locked[l]
      BY <1>2, <2>1, <2>3, LockTypes DEF Gone
    <3>2. at[c] # "inside"
      BY <1>2, <2>3, <3>1
    <3>3. locked'[l]
      BY <3>1, <3>2 DEF Gone
    <3> QED BY <2>1, <2>3, <3>3, LockTypes DEF Gone
  <2>4. CASE Repo[d] = Repo[c] /\ at[d] # "inside"
    <3>1. at'[d] \in {"waiting", "woken"}
      BY <2>1, <2>4, <1>4, LockTypes
    <3>2. waiters'[Repo[c]] # 0
      BY <1>5, <2>1, <2>4, <3>1 DEF Waiting
    <3> QED BY <2>1, <2>4, <3>2, LockTypes DEF Gone
  <2> QED BY <2>2, <2>3, <2>4
<1>8. OwnerInv'
  <2>1. \A d \in Everybody : mine'[d] = Lock!NoLock <=> at'[d] = "idle"
    BY <1>1, <1>2, <1>3, <1>4 DEF Gone
  <2>2. ASSUME NEW d \in Everybody, at'[d] = "inside" PROVE locked'[mine'[d]]
    <3>1. d # c /\ at[d] = "inside" /\ mine'[d] = mine[d] /\ locked[mine[d]] /\ mine[d] \in Lock!Locks
      BY <1>1, <1>2, <1>4, <2>2 DEF Gone
    <3>2. mine[d] = l => at[c] # "inside"
      BY <1>2, <3>1
    <3> QED BY <3>1, <3>2 DEF Gone
  <2>3. ASSUME NEW k \in Lock!Locks, locked'[k]
        PROVE  \E d \in Everybody : at'[d] = "inside" /\ mine'[d] = k
    <3>1. locked[k] /\ (k = l => at[c] # "inside")
      BY <2>3 DEF Gone
    <3>2. PICK d \in Everybody : at[d] = "inside" /\ mine[d] = k
      BY <1>2, <3>1
    <3>3. d # c
      BY <3>1, <3>2
    <3>4. at'[d] = "inside"
      BY <3>2, <3>3 DEF Gone
    <3> QED BY <1>1, <3>2, <3>3, <3>4
  <2>4. \A d, e \in Everybody :
          at'[d] = "inside" /\ at'[e] = "inside" /\ mine'[d] = mine'[e] => d = e
    BY <1>1, <1>2, <1>4 DEF Gone
  <2> QED BY <2>1, <2>2, <2>3, <2>4 DEF OwnerInv
<1>9. QueueInv'
  <2>1. ASSUME NEW d \in Everybody, at'[d] = "woken"
        PROVE  ~locked'[mine'[d]] /\ lockQueue'[mine'[d]] # <<>> /\ lockQueue'[mine'[d]][1] = d
    <3>0. d # c /\ mine'[d] = mine[d]
      BY <1>1, <2>1 DEF Gone
    <3>1. CASE at[d] # "woken"
      BY <1>3, <2>1, <3>0, <3>1
    <3>2. CASE at[d] = "woken"
      <4>1. /\ ~locked[mine[d]] /\ lockQueue[mine[d]] # <<>> /\ lockQueue[mine[d]][1] = d
            /\ mine[d] \in Lock!Locks
        BY <1>2, <3>2 DEF LockInv, QueueInv
      <4>2. CASE mine[d] # l
        BY <3>0, <4>1, <4>2 DEF Gone
      <4>3. CASE mine[d] = l
        BY <3>0, <4>1, <4>3 DEF Gone
      <4> QED BY <4>2, <4>3
    <3> QED BY <3>1, <3>2
  <2>2. ASSUME NEW k \in Lock!Locks
        PROVE  /\ Distinct(lockQueue'[k])
               /\ \A d \in Queued(lockQueue'[k]) : mine'[d] = k /\ at'[d] \in {"waiting", "woken"}
    <3>1. Distinct(lockQueue'[k])
      BY DEF LockInv, QueueInv, Gone
    <3>2. \A d \in Queued(lockQueue[k]) : d \in Everybody /\ mine[d] = k /\ at[d] \in {"waiting", "woken"}
      BY LockTypes, ElementOfSeq DEF LockInv, QueueInv, Queued
    <3>3. \A d \in Queued(lockQueue'[k]) :
            d # c /\ d \in Everybody /\ mine[d] = k /\ at[d] \in {"waiting", "woken"}
      BY <3>2 DEF Gone
    <3>4. \A d \in Everybody \ {c} : at[d] \in {"waiting", "woken"} => at'[d] \in {"waiting", "woken"}
      BY <1>4
    <3> QED BY <1>1, <3>1, <3>3, <3>4
  <2> QED BY <2>1, <2>2 DEF QueueInv, Queued, Distinct
<1>10. CountedInv'
  <2>1. \A r \in Lock!Repos : r # Repo[c] => waiters'[r] = waiters[r] /\ counted'[r] = counted[r]
    BY LockTypes DEF Gone, Recounted
  <2>2. waiters'[Repo[c]] # 0 => waiters[Repo[c]] # 0
    <3>1. waiters'[Repo[c]] >= 0 /\ waiters[Repo[c]] \in Nat
      BY <1>5, LockTypes, LockLibrary, EverybodyIsFinite
    <3>2. waiters'[Repo[c]] \in {waiters[Repo[c]], waiters[Repo[c]] - 1}
      BY DEF Gone, Recounted
    <3> QED BY <3>1, <3>2
  <2>3. Repo[c] \in Lock!Repos /\ counted'[Repo[c]] = (counted[Repo[c]] /\ waiters'[Repo[c]] # 0)
    BY LockTypes DEF Gone
  <2> QED BY <2>1, <2>2, <2>3 DEF LockInv, CountedInv
<1> QED BY <1>5, <1>6, <1>7, <1>8, <1>9, <1>10 DEF LockInv

\* A cancelled coroutine gives up its place, and the turn that it may have had.
LEMMA AbandonedLock ==
  ASSUME LockInv, NEW c \in Everybody, Lock!Abandoned(c)
  PROVE  Gone(c)
<1> DEFINE l == mine[c]
           rest == Lock!RemoveFirst(lockQueue[l], c)
           next == IF locked[l] THEN <<>> ELSE rest
           left == waiters[Repo[c]] - 1
<1>0. /\ at[c] \in {"waiting", "woken"} /\ locked' = locked
      /\ lockQueue' = [lockQueue EXCEPT ![l] = rest]
      /\ at' = [d \in Everybody |-> IF d = c THEN "idle"
                  ELSE IF next # <<>> /\ d = next[1] /\ at[d] = "waiting" /\ ~struck[d] THEN "woken"
                  ELSE at[d]]
      /\ counted' = [counted EXCEPT ![Repo[c]] = @ /\ left # 0]
      /\ waiters' = [waiters EXCEPT ![Repo[c]] = left]
      /\ table' = [table EXCEPT ![Repo[c]] =
                     IF counted[Repo[c]] /\ left = 0 /\ ~locked[l] THEN Lock!NoLock ELSE @]
      /\ struck' = [struck EXCEPT ![c] = FALSE] /\ mine' = [mine EXCEPT ![c] = Lock!NoLock]
  BY DEF Lock!Abandoned, Lock!HandOver, Lock!Tidy, Lock!Forgotten, Lock!Uncounted
<1>1. l \in Lock!Locks
  BY <1>0, LockTypes
<1>2. /\ rest \in Seq(Everybody) /\ Distinct(rest)
      /\ \A d \in Queued(rest) : d # c /\ d \in Everybody /\ mine[d] = l /\ at[d] \in {"waiting", "woken"}
      /\ lockQueue[l] # <<>> /\ lockQueue[l][1] # c => rest # <<>> /\ rest[1] = lockQueue[l][1]
  BY <1>1, LeaveQueue
<1>3. lockQueue'[l] = rest /\ \A k \in Lock!Locks \ {l} : lockQueue'[k] = lockQueue[k]
  BY <1>0, <1>1, LockTypes
<1>4. /\ at' \in [Everybody -> {"idle", "waiting", "woken", "inside"}]
      /\ at'[c] = "idle"
      /\ \A d \in Everybody \ {c} : at'[d] # at[d] =>
           at[d] = "waiting" /\ at'[d] = "woken" /\ next # <<>> /\ next[1] = d
  BY <1>0, LockTypes
<1>5. next # <<>> => ~locked[l] /\ next = rest
  OBVIOUS
<1> HIDE DEF l, rest, next
<1>6. /\ waiters'[Repo[c]] = left /\ waiters' = [waiters EXCEPT ![Repo[c]] = waiters'[Repo[c]]]
      /\ counted' = [counted EXCEPT ![Repo[c]] = @ /\ waiters'[Repo[c]] # 0]
  BY <1>0, LockTypes
<1>7. Recounted(c)
  BY <1>0, <1>4, <1>6 DEF Recounted
<1>8. /\ lockQueue' \in [Lock!Locks -> Seq(Everybody)] /\ locked' \in [Lock!Locks -> BOOLEAN]
      /\ struck' \in [Everybody -> BOOLEAN]
  BY <1>0, <1>2, LockTypes
<1>9. table' = [table EXCEPT ![Repo[c]] =
                  IF counted[Repo[c]] /\ waiters'[Repo[c]] = 0 /\ ~locked'[l]
                    THEN Lock!NoLock ELSE @]
  BY <1>0, <1>6
<1>10. /\ \A k \in Lock!Locks \ {l} : locked'[k] = locked[k] /\ lockQueue'[k] = lockQueue[k]
       /\ locked'[l] <=> locked[l] /\ at[c] # "inside"
  BY <1>0, <1>1, <1>3, LockTypes
<1>11. \A d \in Everybody \ {c} : at'[d] # at[d] =>
         /\ at[d] = "waiting" /\ at'[d] = "woken" /\ ~locked'[l]
         /\ lockQueue'[l] # <<>> /\ lockQueue'[l][1] = d
  BY <1>0, <1>3, <1>4, <1>5
<1>12. mine[c] = l
  BY DEF l
<1>13. at[c] # "idle" /\ mine' = [mine EXCEPT ![c] = Lock!NoLock]
  BY <1>0
<1> QED BY ONLY <1>2, <1>3, <1>4, <1>6, <1>7, <1>8, <1>9, <1>10, <1>11, <1>12, <1>13 DEF Gone

\* The coroutine that is inside leaves, and has the first of the queue woken.
LEMMA LeaveLock ==
  ASSUME LockInv, NEW c \in Everybody, Lock!Leave(c)
  PROVE  Gone(c)
<1> DEFINE l == mine[c]
           q == lockQueue[l]
<1>0. /\ at[c] = "inside" /\ struck' = struck /\ lockQueue' = lockQueue
      /\ locked' = [locked EXCEPT ![l] = FALSE]
      /\ at' = [d \in Everybody |-> IF d = c THEN "idle"
                  ELSE IF q # <<>> /\ d = q[1] /\ at[d] = "waiting" /\ ~struck[d] THEN "woken"
                  ELSE at[d]]
      /\ counted' = [counted EXCEPT ![Repo[c]] = @ /\ waiters[Repo[c]] # 0]
      /\ waiters' = [waiters EXCEPT ![Repo[c]] = waiters[Repo[c]]]
      /\ table' = [table EXCEPT ![Repo[c]] =
                     IF counted[Repo[c]] /\ waiters[Repo[c]] = 0 /\ ~FALSE THEN Lock!NoLock ELSE @]
      /\ mine' = [mine EXCEPT ![c] = Lock!NoLock]
  BY DEF Lock!Leave, Lock!HandOver, Lock!Tidy, Lock!Forgotten
<1>1. l \in Lock!Locks
  BY <1>0, LockTypes
<1>2. /\ q \in Seq(Everybody) /\ Distinct(q)
      /\ \A d \in Queued(q) : d # c /\ d \in Everybody /\ mine[d] = l /\ at[d] \in {"waiting", "woken"}
  BY <1>0, <1>1, LockTypes, ElementOfSeq DEF LockInv, QueueInv, Queued
<1>3. ~locked'[l] /\ \A k \in Lock!Locks \ {l} : locked'[k] = locked[k]
  BY <1>0, <1>1, LockTypes
<1>4. /\ at' \in [Everybody -> {"idle", "waiting", "woken", "inside"}]
      /\ at'[c] = "idle"
      /\ \A d \in Everybody \ {c} : at'[d] # at[d] =>
           at[d] = "waiting" /\ at'[d] = "woken" /\ q # <<>> /\ q[1] = d
  BY <1>0, LockTypes
<1>5. lockQueue'[l] = q
  BY <1>0
<1> HIDE DEF l, q
<1>6. /\ waiters'[Repo[c]] = waiters[Repo[c]]
      /\ waiters' = [waiters EXCEPT ![Repo[c]] = waiters'[Repo[c]]]
      /\ counted' = [counted EXCEPT ![Repo[c]] = @ /\ waiters'[Repo[c]] # 0]
  BY <1>0, LockTypes
<1>7. Recounted(c)
  BY <1>0, <1>4, <1>6 DEF Recounted
<1>8. /\ lockQueue' \in [Lock!Locks -> Seq(Everybody)] /\ locked' \in [Lock!Locks -> BOOLEAN]
      /\ struck' \in [Everybody -> BOOLEAN]
  BY <1>0, <1>1, LockTypes
<1>9. table' = [table EXCEPT ![Repo[c]] =
                  IF counted[Repo[c]] /\ waiters'[Repo[c]] = 0 /\ ~locked'[l]
                    THEN Lock!NoLock ELSE @]
  BY <1>0, <1>3, <1>6
<1>10. lockQueue[l] = q
  BY DEF q
<1>11. /\ \A k \in Lock!Locks \ {l} : locked'[k] = locked[k] /\ lockQueue'[k] = lockQueue[k]
       /\ locked'[l] <=> locked[l] /\ at[c] # "inside"
  BY <1>0, <1>3
<1>12. \A d \in Everybody \ {c} : at'[d] # at[d] =>
         /\ at[d] = "waiting" /\ at'[d] = "woken" /\ ~locked'[l]
         /\ lockQueue'[l] # <<>> /\ lockQueue'[l][1] = d
  BY <1>3, <1>4, <1>5
<1>13. mine[c] = l
  BY DEF l
<1>14. at[c] # "idle" /\ mine' = [mine EXCEPT ![c] = Lock!NoLock]
  BY <1>0
<1> QED BY ONLY <1>2, <1>4, <1>5, <1>6, <1>7, <1>8, <1>9, <1>10, <1>11, <1>12, <1>13, <1>14 DEF Gone

\* What a step of c at a lock may do to the others: wake them.
OthersKept(c) ==
  \A d \in Everybody \ {c} :
    struck'[d] = struck[d] /\ (at'[d] = at[d] \/ (at[d] = "waiting" /\ at'[d] = "woken"))

\* repo_lock keeps its books, whoever comes, goes on, leaves or is cancelled.
LEMMA LockStep ==
  ASSUME LockInv, NEW c \in Everybody,
         Lock!Enter(c) \/ Lock!Granted(c) \/ Lock!Abandoned(c) \/ Lock!Leave(c) \/ Lock!Cancel(c)
  PROVE  LockInv' /\ OthersKept(c)
<1>1. CASE Lock!Enter(c)
  <2>1. OthersKept(c)
    BY <1>1, LockTypes DEF Lock!Enter, OthersKept
  <2> QED BY <1>1, <2>1, EnterLock
<1>2. CASE Lock!Granted(c)
  <2>1. OthersKept(c)
    BY <1>2, LockTypes DEF Lock!Granted, OthersKept
  <2> QED BY <1>2, <2>1, GrantedLock
<1>3. CASE Lock!Abandoned(c)
  <2>1. Gone(c)
    BY <1>3, AbandonedLock
  <2>2. \A d \in Everybody \ {c} : struck'[d] = struck[d]
    BY <1>3, LockTypes DEF Lock!Abandoned
  <2>3. \A d \in Everybody \ {c} : at'[d] = at[d] \/ (at[d] = "waiting" /\ at'[d] = "woken")
    BY <2>1 DEF Gone
  <2>4. OthersKept(c)
    BY <2>2, <2>3 DEF OthersKept
  <2> QED BY <2>1, <2>4, GoneFromLock
<1>4. CASE Lock!Leave(c)
  <2>1. Gone(c)
    BY <1>4, LeaveLock
  <2>2. struck' = struck
    BY <1>4 DEF Lock!Leave
  <2>3. \A d \in Everybody \ {c} : at'[d] = at[d] \/ (at[d] = "waiting" /\ at'[d] = "woken")
    BY <2>1 DEF Gone
  <2>4. OthersKept(c)
    BY <2>2, <2>3 DEF OthersKept
  <2> QED BY <2>1, <2>4, GoneFromLock
<1>5. CASE Lock!Cancel(c)
  <2>1. /\ UNCHANGED <<at, table, counted, waiters, locked, lockQueue, mine>>
        /\ struck' = [struck EXCEPT ![c] = TRUE]
    BY <1>5 DEF Lock!Cancel
  <2>2. struck' \in [Everybody -> BOOLEAN]
    BY <2>1, LockTypes
  <2>3. OthersKept(c)
    BY <2>1, LockTypes DEF OthersKept
  <2>4. LockInv'
    BY <2>1, <2>2, CancelledAtLock
  <2> QED BY <2>3, <2>4
<1> QED BY <1>1, <1>2, <1>3, <1>4, <1>5

-----------------------------------------------------------------------------
(* Critical operations, and the tasks of the workers.                      *)

\* A critical operation runs in a lock or outside of one, not on the way in, and its
\* thread does not outlive it.
SectionInv ==
  /\ Critical!TypeOK
  /\ \A c \in Everybody : section[c] # "none" => at[c] \in {"inside", "idle"}
  /\ \A c \in Everybody : thread[c] = "busy" => section[c] = "awaiting"
  /\ under \subseteq {c \in Everybody : thread[c] = "busy" /\ at[c] = "inside"}

\* A worker is on its way out of a critical operation, with its cancellation, or it
\* has given up its task.
GoesHome(c) ==
  \/ visits[c] = MaxVisits[c]
  \/ section[c] = "cancelled"
  \/ section[c] = "awaiting" /\ (struck[c] \/ deferred[c])

\* That is what becomes of a worker that was cancelled in a critical operation.
ToldInv ==
  /\ visits \in [Workers -> Nat] /\ told \subseteq Workers
  /\ \A c \in told : GoesHome(c)

CoordinatorInv == SlotInv /\ LockInv /\ SectionInv /\ ToldInv

\* Everybody who comes to a lock, waits there or leaves it, is outside of critical operations.
LEMMA AtLockStep ==
  ASSUME CoordinatorInv, NEW c \in Everybody, section[c] = "none", UNCHANGED <<sections, told, under>>,
         \/ Lock!Enter(c) /\ (c \in Workers => visits[c] < MaxVisits[c])
         \/ Lock!Granted(c) \/ Lock!Abandoned(c) \/ Lock!Cancel(c) \/ Lock!Leave(c),
         visits' \in [Workers -> Nat],
         \A d \in Workers : visits'[d] = visits[d] \/ (d = c /\ (c \in told => visits'[d] = MaxVisits[d]))
  PROVE  /\ LockInv' /\ SectionInv' /\ ToldInv'
         /\ \A d \in told : ~(at[d] = "idle" /\ at'[d] # "idle")
<1>0. /\ LockInv /\ SectionInv /\ ToldInv /\ visits \in [Workers -> Nat]
      /\ \A d \in Workers : d \in Everybody /\ MaxVisits[d] \in Nat
  BY VisitsAssumption DEF CoordinatorInv, ToldInv, Workers, Everybody
<1>1. LockInv' /\ OthersKept(c)
  BY <1>0, LockStep
<1>2. section' = section /\ thread' = thread /\ deferred' = deferred /\ told' = told /\ under' = under
  BY DEF sections
<1>3. thread[c] # "busy"
  BY <1>0 DEF SectionInv
<1>4. SectionInv'
  <2>1. Critical!TypeOK'
    BY <1>0, <1>2 DEF SectionInv, Critical!TypeOK
  <2>2. \A d \in Everybody : section'[d] # "none" => at'[d] \in {"inside", "idle"}
    BY <1>0, <1>1, <1>2 DEF SectionInv, OthersKept
  <2>3. under' \subseteq {d \in Everybody : thread'[d] = "busy" /\ at'[d] = "inside"}
    <3> SUFFICES ASSUME NEW d \in under
                 PROVE  d \in Everybody /\ thread[d] = "busy" /\ at'[d] = "inside"
      BY <1>2
    <3>1. d \in Everybody /\ thread[d] = "busy" /\ at[d] = "inside" /\ d # c
      BY <1>0, <1>3 DEF SectionInv
    <3> QED BY <1>1, <3>1 DEF OthersKept
  <2> QED BY <1>0, <1>2, <2>1, <2>2, <2>3 DEF SectionInv
<1>5. c \in told => visits[c] = MaxVisits[c]
  BY <1>0 DEF ToldInv, GoesHome
<1>6. c \in told => ~(at[c] = "idle" /\ at'[c] # "idle")
  <2>1. at[c] = "idle" => ~(Lock!Granted(c) \/ Lock!Abandoned(c) \/ Lock!Cancel(c) \/ Lock!Leave(c))
    BY DEF Lock!Granted, Lock!Abandoned, Lock!Cancel, Lock!Leave
  <2>2. c \in told => c \in Workers /\ ~(visits[c] < MaxVisits[c])
    BY <1>0, <1>5 DEF ToldInv
  <2> QED BY <2>1, <2>2
<1>7. ASSUME NEW d \in told PROVE GoesHome(d)'
  <2>0. d \in Workers /\ d \in Everybody /\ GoesHome(d)
    BY <1>0 DEF ToldInv
  <2>1. CASE d = c
    BY <1>5, <2>0, <2>1 DEF GoesHome
  <2>2. CASE d # c
    BY <1>1, <1>2, <2>0, <2>2 DEF GoesHome, OthersKept
  <2> QED BY <2>1, <2>2
<1>8. \A d \in told : ~(at[d] = "idle" /\ at'[d] # "idle")
  BY <1>0, <1>1, <1>6 DEF ToldInv, OthersKept
<1> QED BY <1>0, <1>1, <1>2, <1>4, <1>7, <1>8 DEF ToldInv

\* A critical operation begins, is cancelled, goes on waiting, ends or is done with.
LEMMA GitStep ==
  ASSUME CoordinatorInv, NEW c \in Everybody,
         StartsGit(c) \/ AwaitsGit(c) \/ CancelledInGit(c) \/ GitEnds(c) \/ GoesOn(c)
  PROVE  LockInv' /\ SectionInv' /\ ToldInv'
<1>0. /\ LockInv /\ SectionInv /\ ToldInv /\ struck \in [Everybody -> BOOLEAN]
      /\ section \in [Everybody -> {"none", "awaiting"} \cup Critical!Results]
      /\ thread \in [Everybody -> {"none", "busy", "done", "failed"}]
      /\ deferred \in [Everybody -> BOOLEAN]
      /\ visits \in [Workers -> Nat] /\ told \subseteq Workers
      /\ \A d \in Workers : d \in Everybody /\ MaxVisits[d] \in Nat
  BY LockTypes, VisitsAssumption
     DEF CoordinatorInv, SectionInv, ToldInv, Critical!TypeOK, Workers, Everybody
<1>1. UNCHANGED <<at, table, counted, waiters, locked, lockQueue, mine>>
  BY DEF StartsGit, AwaitsGit, CancelledInGit, GitEnds, GoesOn, locks
<1>2. struck' \in [Everybody -> BOOLEAN]
  BY <1>0 DEF StartsGit, AwaitsGit, CancelledInGit, GitEnds, GoesOn, Critical!Begin,
              Critical!Deferred, Critical!Resumes, Critical!Cancel, Critical!ThreadEnds
<1>3. LockInv'
  BY <1>0, <1>1, <1>2, CancelledAtLock
<1>5. CASE StartsGit(c)
  <2>1. /\ UNCHANGED <<struck, deferred, told, visits>> /\ section[c] = "none"
        /\ at[c] \in {"inside", "idle"}
        /\ under' = IF at[c] = "inside" THEN under \cup {c} ELSE under
        /\ section' = [section EXCEPT ![c] = "awaiting"] /\ thread' = [thread EXCEPT ![c] = "busy"]
    BY <1>5 DEF StartsGit, InSlotOnly, Critical!Begin
  <2>2. SectionInv'
    BY <1>0, <1>1, <2>1 DEF SectionInv, Critical!TypeOK
  <2>3. ToldInv'
    BY <1>0, <1>1, <2>1 DEF ToldInv, GoesHome
  <2> QED BY <1>3, <2>2, <2>3
<1>6. CASE AwaitsGit(c) /\ Critical!Deferred(c)
  <2>1. /\ UNCHANGED <<thread, told, visits, under>> /\ section[c] = "awaiting"
        /\ struck' = [struck EXCEPT ![c] = FALSE] /\ deferred' = [deferred EXCEPT ![c] = TRUE]
        /\ section' = [section EXCEPT ![c] = IF thread[c] = "busy" THEN "awaiting" ELSE "cancelled"]
    BY <1>6 DEF AwaitsGit, Critical!Deferred, Critical!WaitsOn, Critical!Result
  <2>2. SectionInv'
    BY <1>0, <1>1, <2>1 DEF SectionInv, Critical!TypeOK, Critical!Results
  <2>3. ToldInv'
    BY <1>0, <1>1, <2>1 DEF ToldInv, GoesHome
  <2> QED BY <1>3, <2>2, <2>3
<1>7. CASE AwaitsGit(c) /\ Critical!Resumes(c)
  <2>1. /\ UNCHANGED <<thread, told, visits, under, struck, deferred>>
        /\ section[c] = "awaiting" /\ ~struck[c] /\ thread[c] # "busy"
        /\ section' = [section EXCEPT ![c] =
             IF deferred[c] THEN "cancelled" ELSE IF thread[c] = "done" THEN "value" ELSE "raised"]
    BY <1>7 DEF AwaitsGit, Critical!Resumes, Critical!Result
  <2>2. SectionInv'
    BY <1>0, <1>1, <2>1 DEF SectionInv, Critical!TypeOK, Critical!Results
  <2>3. ToldInv'
    BY <1>0, <1>1, <2>1 DEF ToldInv, GoesHome
  <2> QED BY <1>3, <2>2, <2>3
<1>8. CASE CancelledInGit(c)
  <2>1. /\ UNCHANGED <<section, thread, deferred, visits, under>> /\ section[c] = "awaiting"
        /\ struck' = [struck EXCEPT ![c] = TRUE] /\ told' = told \cup ({c} \cap Workers)
    BY <1>8 DEF CancelledInGit, Critical!Cancel
  <2>2. SectionInv'
    BY <1>0, <1>1, <2>1 DEF SectionInv, Critical!TypeOK
  <2>3. ASSUME NEW d \in told' PROVE d \in Workers /\ GoesHome(d)'
    <3>1. d \in Workers /\ d \in Everybody
      BY <1>0, <2>1, <2>3
    <3>2. CASE d = c
      BY <1>0, <2>1, <3>1, <3>2 DEF GoesHome
    <3>3. CASE d # c
      BY <1>0, <2>1, <2>3, <3>1, <3>3 DEF ToldInv, GoesHome
    <3> QED BY <3>1, <3>2, <3>3
  <2> QED BY <1>0, <1>1, <1>3, <2>1, <2>2, <2>3 DEF ToldInv
<1>9. CASE GitEnds(c)
  <2>1. /\ UNCHANGED <<section, deferred, struck, told, visits>> /\ thread[c] = "busy"
        /\ under' = under \ {c}
        /\ \E end \in {"done", "failed"} : thread' = [thread EXCEPT ![c] = end]
    BY <1>9 DEF GitEnds, Critical!ThreadEnds
  <2>2. SectionInv'
    BY <1>0, <1>1, <2>1 DEF SectionInv, Critical!TypeOK
  <2>3. ToldInv'
    BY <1>0, <1>1, <2>1 DEF ToldInv, GoesHome
  <2> QED BY <1>3, <2>2, <2>3
<1>10. CASE GoesOn(c)
  <2>1. /\ UNCHANGED <<struck, told, under>> /\ section[c] \in Critical!Results
        /\ section' = [section EXCEPT ![c] = "none"]
        /\ thread' = [thread EXCEPT ![c] = IF @ = "busy" THEN @ ELSE "none"]
        /\ deferred' = [deferred EXCEPT ![c] = FALSE]
        /\ IF section[c] = "cancelled" THEN GivesUp(c) ELSE visits' = visits
    BY <1>10 DEF GoesOn, Critical!Forget
  <2>2. thread[c] # "busy" /\ c \notin under
    BY <1>0, <2>1 DEF SectionInv, Critical!Results
  <2>3. SectionInv'
    BY <1>0, <1>1, <2>1, <2>2 DEF SectionInv, Critical!TypeOK
  <2>4. /\ visits' \in [Workers -> Nat] /\ \A d \in Workers \ {c} : visits'[d] = visits[d]
        /\ c \in Workers => visits'[c] = IF section[c] = "cancelled" THEN MaxVisits[c] ELSE visits[c]
    BY <1>0, <2>1 DEF GivesUp, SetVisits
  <2>5. ASSUME NEW d \in told PROVE GoesHome(d)'
    <3>1. d \in Workers /\ d \in Everybody /\ GoesHome(d)
      BY <1>0 DEF ToldInv
    <3>2. CASE d = c
      BY <2>1, <2>4, <3>1, <3>2 DEF GoesHome, Critical!Results
    <3>3. CASE d # c
      BY <1>0, <2>1, <2>4, <3>1, <3>3 DEF GoesHome
    <3> QED BY <3>2, <3>3
  <2> QED BY <1>0, <1>3, <2>1, <2>3, <2>4, <2>5 DEF ToldInv
<1> QED BY <1>5, <1>6, <1>7, <1>8, <1>9, <1>10 DEF AwaitsGit

\* Every step keeps the invariant, and no worker that was cancelled in a critical
\* operation comes to a lock again before it has returned.
LEMMA CoordinatorStep ==
  ASSUME CoordinatorInv, CoordinatorNext
  PROVE  /\ CoordinatorInv'
         /\ \A c \in told : ~(at[c] = "idle" /\ at'[c] # "idle")
<1>0. /\ SlotInv /\ LockInv /\ SectionInv /\ ToldInv /\ visits \in [Workers -> Nat]
      /\ \A c \in Workers : c \in Clients /\ MaxVisits[c] \in Nat
      /\ \A c \in Clients : c \in Everybody
      /\ \A c \in Others : c \in Everybody /\ c \notin Workers
  BY VisitsAssumption DEF CoordinatorInv, ToldInv, Everybody, Workers
<1>1. ASSUME UNCHANGED slots PROVE SlotInv'
  BY <1>0, <1>1 DEF slots, vars, SlotInv, TypeOK, UnitsAreConserved, AccountingIsExact, In,
                    Distinct, Queued
<1>2. ASSUME UNCHANGED <<locks, struck, sections, under>> PROVE LockInv' /\ SectionInv' /\ at' = at
  <2>1. UNCHANGED <<at, table, counted, waiters, locked, lockQueue, mine, struck>>
    BY <1>2 DEF locks
  <2>2. struck' \in [Everybody -> BOOLEAN]
    BY <1>0, <2>1, LockTypes
  <2>3. LockInv'
    BY <1>0, <2>1, <2>2, CancelledAtLock
  <2> QED BY <1>0, <1>2, <2>1, <2>3 DEF sections, SectionInv, Critical!TypeOK
<1>3. ASSUME NEW c \in Clients, AsksForSlot(c) \/ WaitsForSlot(c) \/ CancelledAtSlot(c)
      PROVE  CoordinatorInv' /\ at' = at
  <2>1. SlotInv' /\ UNCHANGED <<locks, struck, sections, visits, told, under>>
    BY <1>0, <1>3, SlotStep DEF AsksForSlot, WaitsForSlot, CancelledAtSlot
  <2>2. LockInv' /\ SectionInv' /\ at' = at
    BY <1>2, <2>1
  <2>3. ToldInv'
    BY <1>0, <2>1 DEF sections, ToldInv, GoesHome
  <2> QED BY <2>1, <2>2, <2>3 DEF CoordinatorInv
<1>4. ASSUME NEW c \in Clients, LeavesSlot(c)
      PROVE  CoordinatorInv' /\ at' = at
  <2>1. SlotInv' /\ UNCHANGED <<locks, struck, sections, under>>
    BY <1>0, <1>4, SlotStep DEF LeavesSlot
  <2>2. LockInv' /\ SectionInv' /\ at' = at
    BY <1>2, <2>1
  <2>3. visits' = [d \in Workers |-> IF d = c THEN 0 ELSE visits[d]] /\ told' = told \ {c}
    BY <1>4 DEF LeavesSlot, SetVisits
  <2>4. ToldInv'
    BY <1>0, <2>1, <2>3 DEF sections, ToldInv, GoesHome
  <2> QED BY <2>1, <2>2, <2>4 DEF CoordinatorInv
<1>5. ASSUME NEW c \in Everybody,
             \/ c \in Workers /\ WorkerEnters(c)
             \/ c \in Others /\ OtherEnters(c)
             \/ WaitsForLock(c) \/ GivesUpLock(c) \/ LeavesLock(c)
      PROVE  /\ CoordinatorInv'
             /\ \A d \in told : ~(at[d] = "idle" /\ at'[d] # "idle")
  <2>1. UNCHANGED slots /\ UNCHANGED <<sections, told, under>>
    BY <1>5 DEF WorkerEnters, OtherEnters, WaitsForLock, GivesUpLock, LeavesLock
  <2>2. section[c] = "none"
    <3>1. CASE WaitsForLock(c) \/ GivesUpLock(c)
      <4>1. at[c] \in {"waiting", "woken"}
        BY <3>1 DEF WaitsForLock, GivesUpLock, Lock!Granted, Lock!Abandoned, Lock!Cancel
      <4> QED BY <1>0, <4>1 DEF SectionInv
    <3> QED BY <1>5, <3>1 DEF WorkerEnters, OtherEnters, Outside, LeavesLock
  <2>3. \/ Lock!Enter(c) /\ (c \in Workers => visits[c] < MaxVisits[c])
        \/ Lock!Granted(c) \/ Lock!Abandoned(c) \/ Lock!Cancel(c) \/ Lock!Leave(c)
    BY <1>0, <1>5 DEF WorkerEnters, OtherEnters, WaitsForLock, GivesUpLock, LeavesLock
  <2>4. CASE c \in Workers /\ WorkerEnters(c)
    <3>1. visits' = [d \in Workers |-> IF d = c THEN visits[c] + 1 ELSE visits[d]]
      BY <2>4 DEF WorkerEnters, SetVisits
    <3>2. c \notin told
      BY <1>0, <2>2, <2>4 DEF WorkerEnters, ToldInv, GoesHome
    <3>3. visits' \in [Workers -> Nat]
      BY <1>0, <3>1
    <3>4. \A d \in Workers : visits'[d] = visits[d] \/ (d = c /\ c \notin told)
      BY <3>1, <3>2
    <3>5. LockInv' /\ SectionInv' /\ ToldInv' /\ \A d \in told : ~(at[d] = "idle" /\ at'[d] # "idle")
      BY <2>1, <2>2, <2>3, <3>3, <3>4, AtLockStep
    <3> QED BY <1>1, <2>1, <3>5 DEF CoordinatorInv
  <2>5. CASE GivesUpLock(c)
    <3>1. visits' \in [Workers -> Nat]
          /\ \A d \in Workers : visits'[d] = visits[d] \/ (d = c /\ visits'[d] = MaxVisits[d])
      BY <1>0, <2>5 DEF GivesUpLock, GivesUp, SetVisits
    <3>2. LockInv' /\ SectionInv' /\ ToldInv' /\ \A d \in told : ~(at[d] = "idle" /\ at'[d] # "idle")
      BY <2>1, <2>2, <2>3, <3>1, AtLockStep
    <3> QED BY <1>1, <2>1, <3>2 DEF CoordinatorInv
  <2>6. CASE visits' = visits
    <3>1. LockInv' /\ SectionInv' /\ ToldInv' /\ \A d \in told : ~(at[d] = "idle" /\ at'[d] # "idle")
      BY <1>0, <2>1, <2>2, <2>3, <2>6, AtLockStep
    <3> QED BY <1>1, <2>1, <3>1 DEF CoordinatorInv
  <2> QED BY <1>5, <2>4, <2>5, <2>6 DEF OtherEnters, WaitsForLock, LeavesLock
<1>6. ASSUME NEW c \in Everybody,
             StartsGit(c) \/ AwaitsGit(c) \/ CancelledInGit(c) \/ GitEnds(c) \/ GoesOn(c)
      PROVE  CoordinatorInv' /\ at' = at
  <2>1. UNCHANGED slots /\ at' = at
    BY <1>6 DEF StartsGit, AwaitsGit, CancelledInGit, GitEnds, GoesOn, locks
  <2> QED BY <1>1, <1>6, <2>1, GitStep DEF CoordinatorInv
<1>7. ASSUME NEW c \in Workers, CutShort(c)
      PROVE  CoordinatorInv' /\ at' = at
  <2>1. UNCHANGED slots /\ UNCHANGED <<locks, struck, sections, told, under>>
    BY <1>7 DEF CutShort
  <2>2. LockInv' /\ SectionInv' /\ at' = at
    BY <1>2, <2>1
  <2>3. visits' = [d \in Workers |-> IF d = c THEN MaxVisits[c] ELSE visits[d]]
    BY <1>7 DEF CutShort, GivesUp, SetVisits
  <2>4. ToldInv'
    BY <1>0, <2>1, <2>3 DEF sections, ToldInv, GoesHome
  <2> QED BY <1>1, <2>1, <2>2, <2>4 DEF CoordinatorInv
<1> QED BY <1>0, <1>3, <1>4, <1>5, <1>6, <1>7 DEF CoordinatorNext

\* Nobody waits at the start.
LEMMA CoordinatorStart == CoordinatorInit => CoordinatorInv
<1> SUFFICES ASSUME CoordinatorInit PROVE CoordinatorInv
  OBVIOUS
<1>0. Init /\ Lock!Init /\ Critical!Init
  BY DEF CoordinatorInit
<1>1. SlotInv
  <2>1. In("woken") = 0 /\ In("working") = 0 /\ In("waiting") = 0
    BY <1>0, FS_EmptySet DEF Init, In
  <2>2. Len(<<>>) = 0 /\ <<>> \in Seq(Clients)
    BY EmptySeq
  <2>3. Cardinality(Clients) \in Nat
    BY ClientsAssumption, FS_CardinalityType
  <2> QED BY <1>0, <2>1, <2>2, <2>3, WorkersAssumption
          DEF Init, SlotInv, TypeOK, UnitsAreConserved, AccountingIsExact, Distinct, Queued
<1>2. LockInv
  <2>1. \A r : Cardinality({c \in Everybody : Repo[c] = r /\ at[c] \in {"waiting", "woken"}}) = 0
    BY <1>0, FS_EmptySet DEF Lock!Init
  <2>2. /\ Lock!TypeOK /\ Lock!OneLockPerRepository
    BY <1>0, LockLibrary, EverybodyIsFinite DEF Lock!Init, Lock!TypeOK, Lock!OneLockPerRepository
  <2>3. Lock!WaitersAreCounted
    BY <1>0, <2>1, LockLibrary DEF Lock!Init, Lock!WaitersAreCounted
  <2>4. OwnerInv
    BY <1>0 DEF Lock!Init, OwnerInv
  <2>5. QueueInv
    BY <1>0 DEF Lock!Init, QueueInv, Queued, Distinct
  <2>6. CountedInv
    BY <1>0 DEF Lock!Init, CountedInv
  <2> QED BY <2>2, <2>3, <2>4, <2>5, <2>6 DEF LockInv
<1>3. SectionInv
  BY <1>0 DEF CoordinatorInit, Critical!Init, SectionInv, Critical!TypeOK
<1>4. ToldInv
  BY DEF CoordinatorInit, ToldInv
<1> QED BY <1>1, <1>2, <1>3, <1>4 DEF CoordinatorInv

-----------------------------------------------------------------------------
(* What the daemon relies on.                                              *)

\* Slots, locks, critical operations and tasks keep their invariant at every await.
THEOREM InvariantHolds == CoordinatorSpec => []CoordinatorInv
<1>1. CoordinatorInv /\ [CoordinatorNext]_allVars => CoordinatorInv'
  <2> SUFFICES ASSUME CoordinatorInv, [CoordinatorNext]_allVars PROVE CoordinatorInv'
    OBVIOUS
  <2>1. CASE CoordinatorNext
    BY <2>1, CoordinatorStep
  <2>2. CASE UNCHANGED allVars
    <3>1. SlotInv'
      BY <2>2 DEF allVars, slots, vars, CoordinatorInv, SlotInv, TypeOK, UnitsAreConserved,
                  AccountingIsExact, In, Distinct, Queued
    <3>2. LockInv'
      BY <2>2, CancelledAtLock, LockTypes DEF allVars, locks, CoordinatorInv
    <3>3. SectionInv' /\ ToldInv'
      BY <2>2 DEF allVars, locks, sections, CoordinatorInv, SectionInv, Critical!TypeOK,
                  ToldInv, GoesHome
    <3> QED BY <3>1, <3>2, <3>3 DEF CoordinatorInv
  <2> QED BY <2>1, <2>2
<1> QED BY <1>1, CoordinatorStart, PTL DEF CoordinatorSpec

\* The variables of the coordinator, its locks and its critical operations have
\* their types: no count is ever negative or exceeds its bound.
THEOREM TypeCorrect == CoordinatorSpec => [](TypeOK /\ Lock!TypeOK /\ Critical!TypeOK)
<1>1. CoordinatorInv => TypeOK /\ Lock!TypeOK /\ Critical!TypeOK
  BY DEF CoordinatorInv, SlotInv, LockInv, SectionInv
<1> QED BY <1>1, InvariantHolds, PTL

\* Two threads never change the topology of one repository at once: one that was started
\* inside the lock has its coroutine there until it ends, and everybody at a repository is
\* at one lock object.
THEOREM MutualExclusionHolds == CoordinatorSpec => []MutualExclusion
<1>1. CoordinatorInv => MutualExclusion
  <2> SUFFICES ASSUME CoordinatorInv, NEW c \in under, NEW d \in under, Repo[c] = Repo[d]
               PROVE  c = d
    BY DEF MutualExclusion
  <2>1. /\ c \in Everybody /\ at[c] = "inside"
        /\ d \in Everybody /\ at[d] = "inside"
    BY DEF CoordinatorInv, SectionInv
  <2>2. mine[c] = table[Repo[c]] /\ mine[d] = table[Repo[d]]
    BY <2>1, LockTypes DEF CoordinatorInv
  <2> QED BY <2>1, <2>2 DEF CoordinatorInv, LockInv, OwnerInv
<1> QED BY <1>1, InvariantHolds, PTL

\* The statistics of slots and locks are the truth at every await, and no slot is
\* lost or made up, however many waits are cancelled.
THEOREM StatisticsAreExactHolds == CoordinatorSpec => []StatisticsAreExact
<1>1. CoordinatorInv => StatisticsAreExact
  BY DEF CoordinatorInv, SlotInv, LockInv, StatisticsAreExact
<1> QED BY <1>1, InvariantHolds, PTL

\* A worker that was cancelled in a critical operation takes no lock before it has
\* returned, whatever Git made of the operation.
THEOREM CancellationIsKeptHolds == CoordinatorSpec => CancellationIsKept
<1> DEFINE Kept == \A c \in told : ~(at[c] = "idle" /\ at'[c] # "idle")
<1>1. CoordinatorInv /\ [CoordinatorNext]_allVars => [Kept]_allVars
  BY CoordinatorStep
<1> QED BY <1>1, InvariantHolds, PTL DEF CoordinatorSpec, CancellationIsKept
=============================================================================
