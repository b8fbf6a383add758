---------------------------- MODULE Queue_proof ----------------------------
(***************************************************************************)
(* What the operations of queue.c do to any memory of linked nodes, with   *)
(* any number of lists in it.                                              *)
(***************************************************************************)
EXTENDS Queue, ListLemmas

\* A is the set of the nodes and sentinels there are.
Memory(A) == [next : [A -> A \cup {NULL}],
              prev : [A -> A \cup {NULL}]]

\* The links are the same in both directions, all over the memory: what
\* queue_list_check tests along one list.
Linked(A, m) ==
  /\ m \in Memory(A)
  /\ \A a \in A : m.next[a] # NULL => m.prev[m.next[a]] = a
  /\ \A a \in A : m.prev[a] # NULL => m.next[m.prev[a]] = a

\* On no list; on one, between others.
Free(m, q)   == m.next[q] = NULL /\ m.prev[q] = NULL
Inside(m, q) == m.next[q] # NULL /\ m.prev[q] # NULL

-----------------------------------------------------------------------------
\* queue_remove: the links stay consistent and the node is free.
THEOREM RemoveKeepsLinks ==
  ASSUME NEW A, NULL \notin A, NEW m, Linked(A, m), NEW q \in A,
         Inside(m, q)
  PROVE  /\ Linked(A, queue_remove(m, q))
         /\ Free(queue_remove(m, q), q)
<1> DEFINE r == queue_remove(m, q)
           p == m.prev[q]
           n == m.next[q]
<1>0. NULL \notin A /\ Linked(A, m) /\ Inside(m, q)
  OBVIOUS
<1>1. p \in A /\ n \in A /\ m.next[p] = q /\ m.prev[n] = q
  BY <1>0 DEF Linked, Inside, Memory
<1>2. /\ r.next = [m.next EXCEPT ![p] = n, ![q] = NULL]
      /\ r.prev = [m.prev EXCEPT ![n] = p, ![q] = NULL]
  BY <1>0 DEF queue_remove
<1>3. r \in Memory(A)
  BY <1>1 DEF Linked, Memory, queue_remove
<1>4. \A a \in A :
        /\ r.next[a] = IF a = q THEN NULL ELSE IF a = p THEN n ELSE m.next[a]
        /\ r.prev[a] = IF a = q THEN NULL ELSE IF a = n THEN p ELSE m.prev[a]
  BY <1>1, <1>2 DEF Linked, Memory
<1>5. ASSUME NEW a \in A, r.next[a] # NULL PROVE r.prev[r.next[a]] = a
  <2>1. a # q  BY <1>4, <1>5
  <2>2. CASE a = p
    <3>1. n # q  BY <1>1, <2>1, <2>2
    <3> QED  BY <1>1, <1>4, <2>1, <2>2, <3>1
  <2>3. CASE a # p
    <3>1. r.next[a] = m.next[a] /\ m.next[a] \in A
      BY <1>4, <1>5, <2>1, <2>3 DEF Linked, Memory
    <3>2. m.prev[m.next[a]] = a  BY <1>5, <3>1 DEF Linked
    <3>3. m.next[a] # q /\ m.next[a] # n  BY <1>1, <2>1, <2>3, <3>2
    <3> QED  BY <1>4, <3>1, <3>2, <3>3
  <2> QED  BY <2>2, <2>3
<1>6. ASSUME NEW a \in A, r.prev[a] # NULL PROVE r.next[r.prev[a]] = a
  <2>1. a # q  BY <1>4, <1>6
  <2>2. CASE a = n
    <3>1. p # q  BY <1>1, <2>1, <2>2
    <3> QED  BY <1>1, <1>4, <2>1, <2>2, <3>1
  <2>3. CASE a # n
    <3>1. r.prev[a] = m.prev[a] /\ m.prev[a] \in A
      BY <1>4, <1>6, <2>1, <2>3 DEF Linked, Memory
    <3>2. m.next[m.prev[a]] = a  BY <1>6, <3>1 DEF Linked
    <3>3. m.prev[a] # q /\ m.prev[a] # p  BY <1>1, <2>1, <2>3, <3>2
    <3> QED  BY <1>4, <3>1, <3>2, <3>3
  <2> QED  BY <2>2, <2>3
<1>7. Free(r, q)  BY <1>4 DEF Free
<1> QED  BY <1>3, <1>5, <1>6, <1>7 DEF Linked

\* queue_insert_prev: a free node before one that has a predecessor.
THEOREM InsertKeepsLinks ==
  ASSUME NEW A, NULL \notin A, NEW m, Linked(A, m), NEW q \in A,
         NEW n \in A, Free(m, q), m.prev[n] # NULL
  PROVE  /\ Linked(A, queue_insert_prev(m, q, n))
         /\ Inside(queue_insert_prev(m, q, n), q)
<1> DEFINE r == queue_insert_prev(m, q, n)
           p == m.prev[n]
<1>0. NULL \notin A /\ Linked(A, m) /\ Free(m, q) /\ m.prev[n] # NULL
  OBVIOUS
<1>1. /\ p \in A /\ m.next[p] = n
      /\ q # n /\ q # p
  <2>1. p \in A /\ m.next[p] = n  BY <1>0 DEF Linked, Memory
  <2> QED  BY <2>1 DEF Free
<1>2. /\ r.next = [m.next EXCEPT ![p] = q, ![q] = n]
      /\ r.prev = [m.prev EXCEPT ![q] = p, ![n] = q]
  BY <1>0 DEF queue_insert_prev
<1>3. r \in Memory(A)
  BY <1>1 DEF Linked, Memory, queue_insert_prev
<1>4. \A a \in A :
        /\ r.next[a] = IF a = q THEN n ELSE IF a = p THEN q ELSE m.next[a]
        /\ r.prev[a] = IF a = n THEN q ELSE IF a = q THEN p ELSE m.prev[a]
  BY <1>1, <1>2 DEF Linked, Memory
<1>5. ASSUME NEW a \in A, r.next[a] # NULL PROVE r.prev[r.next[a]] = a
  <2>1. CASE a = q  BY <1>4, <2>1
  <2>2. CASE a = p  BY <1>1, <1>4, <2>2
  <2>3. CASE a # q /\ a # p
    <3>1. r.next[a] = m.next[a] /\ m.next[a] \in A
      BY <1>4, <1>5, <2>3 DEF Linked, Memory
    <3>2. m.prev[m.next[a]] = a  BY <1>5, <3>1 DEF Linked
    <3>3. m.next[a] # q /\ m.next[a] # n
      BY <2>3, <3>2 DEF Free
    <3> QED  BY <1>4, <3>1, <3>2, <3>3
  <2> QED  BY <2>1, <2>2, <2>3
<1>6. ASSUME NEW a \in A, r.prev[a] # NULL PROVE r.next[r.prev[a]] = a
  <2>1. CASE a = q  BY <1>1, <1>4, <2>1
  <2>2. CASE a = n  BY <1>1, <1>4, <2>2
  <2>3. CASE a # q /\ a # n
    <3>1. r.prev[a] = m.prev[a] /\ m.prev[a] \in A
      BY <1>4, <1>6, <2>3 DEF Linked, Memory
    <3>2. m.next[m.prev[a]] = a  BY <1>6, <3>1 DEF Linked
    <3>3. m.prev[a] # q /\ m.prev[a] # p
      BY <1>1, <2>3, <3>2 DEF Free
    <3> QED  BY <1>4, <3>1, <3>2, <3>3
  <2> QED  BY <2>1, <2>2, <2>3
<1>7. Inside(r, q)
  BY <1>1, <1>4 DEF Inside
<1> QED  BY <1>3, <1>5, <1>6, <1>7 DEF Linked

\* Removing what was just inserted leaves the memory as it was: an event that is
\* armed and removed, or a job enqueued and taken, disturbs no list.
THEOREM RemoveUndoesInsert ==
  ASSUME NEW A, NULL \notin A, NEW m, Linked(A, m), NEW q \in A,
         NEW n \in A, Free(m, q), m.prev[n] # NULL
  PROVE  queue_remove(queue_insert_prev(m, q, n), q) = m
<1> DEFINE r == queue_insert_prev(m, q, n)
           p == m.prev[n]
           s == queue_remove(r, q)
<1>0. NULL \notin A /\ Linked(A, m) /\ Free(m, q) /\ m.prev[n] # NULL
  OBVIOUS
<1>1. /\ p \in A /\ m.next[p] = n /\ q # n /\ q # p
      /\ m.next \in [A -> A \cup {NULL}]
      /\ m.prev \in [A -> A \cup {NULL}]
      /\ m = [next |-> m.next, prev |-> m.prev]
  <2>1. p \in A /\ m.next[p] = n  BY <1>0 DEF Linked, Memory
  <2> QED  BY <2>1 DEF Free, Linked, Memory
<1>2. /\ r.next = [m.next EXCEPT ![p] = q, ![q] = n]
      /\ r.prev = [m.prev EXCEPT ![q] = p, ![n] = q]
      /\ r.next[q] = n /\ r.prev[q] = p
  BY <1>1 DEF queue_insert_prev
<1>3. s = [next |-> [r.next EXCEPT ![p] = n, ![q] = NULL],
           prev |-> [r.prev EXCEPT ![n] = p, ![q] = NULL]]
  BY <1>2 DEF queue_remove
<1>4. [r.next EXCEPT ![p] = n, ![q] = NULL] = m.next
  BY <1>1, <1>2 DEF Free
<1>5. [r.prev EXCEPT ![n] = p, ![q] = NULL] = m.prev
  BY <1>1, <1>2 DEF Free
<1> QED  BY <1>1, <1>3, <1>4, <1>5
-----------------------------------------------------------------------------
(***************************************************************************)
(* The memory represents lists: L are their names, Q the nodes, f the      *)
(* sequences.                                                              *)
(***************************************************************************)
Addresses(L, Q) == {HeadOf(l) : l \in L} \cup {TailOf(l) : l \in L} \cup Q

\* NULL, the sentinels and the nodes are different objects.
Distinguished(L, Q) ==
  /\ NULL \notin Q
  /\ \A l \in L : /\ HeadOf(l) \notin Q /\ TailOf(l) \notin Q
                  /\ HeadOf(l) # NULL /\ TailOf(l) # NULL

\* The address after k steps from the head.
Along(l, s, k) ==
  IF k = 0 THEN HeadOf(l) ELSE IF k = Len(s) + 1 THEN TailOf(l) ELSE s[k]

Disjoint(L, f) ==
  /\ \A l \in L : IsInjective(f[l])
  /\ \A l, k \in L : l # k => ToSet(f[l]) \cap ToSet(f[k]) = {}

Chained(m, l, s) ==
  /\ m.prev[HeadOf(l)] = NULL /\ m.next[TailOf(l)] = NULL
  /\ \A k \in 0 .. Len(s) : /\ m.next[Along(l, s, k)] = Along(l, s, k + 1)
                            /\ m.prev[Along(l, s, k + 1)] = Along(l, s, k)

Lists(L, Q, m, f) ==
  /\ m \in Memory(Addresses(L, Q))
  /\ f \in [L -> Seq(Q)] /\ Disjoint(L, f)
  /\ \A l \in L : Chained(m, l, f[l])

\* Every place of every list has its own address.
LEMMA Places ==
  ASSUME NEW L, NEW Q, Distinguished(L, Q), NEW f \in [L -> Seq(Q)], Disjoint(L, f)
  PROVE  /\ \A l \in L : \A i \in 1 .. Len(f[l]) :
              Along(l, f[l], i) = f[l][i] /\ f[l][i] \in Q
         /\ \A l \in L : \A i \in 0 .. Len(f[l]) + 1 :
              Along(l, f[l], i) \in Addresses(L, Q) /\ Along(l, f[l], i) # NULL
         /\ \A l, k \in L : \A i \in 0 .. Len(f[l]) + 1, j \in 0 .. Len(f[k]) + 1 :
              Along(l, f[l], i) = Along(k, f[k], j) => l = k /\ i = j
<1>0. Distinguished(L, Q) /\ Disjoint(L, f)
  OBVIOUS
<1>1. ASSUME NEW l \in L
      PROVE  /\ Len(f[l]) \in Nat
             /\ \A i \in 1 .. Len(f[l]) :
                  f[l][i] \in Q /\ f[l][i] \in ToSet(f[l]) /\ Along(l, f[l], i) = f[l][i]
             /\ Along(l, f[l], 0) = HeadOf(l)
             /\ Along(l, f[l], Len(f[l]) + 1) = TailOf(l)
             /\ \A i \in 0 .. Len(f[l]) + 1 :
                  i = 0 \/ i = Len(f[l]) + 1 \/ i \in 1 .. Len(f[l])
  <2>1. f[l] \in Seq(Q)
    OBVIOUS
  <2>2. /\ Len(f[l]) \in Nat
        /\ \A i \in 1 .. Len(f[l]) : f[l][i] \in Q /\ f[l][i] \in ToSet(f[l])
    BY <2>1, MembersOfList
  <2> QED  BY <2>2 DEF Along
<1>2. ASSUME NEW l \in L, NEW k \in L
      PROVE  HeadOf(l) # TailOf(k) /\ (HeadOf(l) = HeadOf(k) => l = k)
             /\ (TailOf(l) = TailOf(k) => l = k)
  BY DEF HeadOf, TailOf
<1>3. ASSUME NEW l \in L, NEW k \in L, NEW i \in 1 .. Len(f[l]), NEW j \in 1 .. Len(f[k]),
             f[l][i] = f[k][j]
      PROVE  l = k /\ i = j
  <2>1. f[l][i] \in ToSet(f[l]) /\ f[k][j] \in ToSet(f[k])
    BY <1>1
  <2>2. l = k
    BY <1>0, <1>3, <2>1 DEF Disjoint
  <2>3. IsInjective(f[l]) /\ f[l] \in Seq(Q)
    BY <1>0 DEF Disjoint
  <2>4. DOMAIN f[l] = 1 .. Len(f[l])
    BY <2>3, MembersOfList
  <2> QED  BY <1>3, <2>2, <2>3, <2>4 DEF IsInjective
<1>4. ASSUME NEW l \in L, NEW i \in 0 .. Len(f[l]) + 1
      PROVE  Along(l, f[l], i) \in Addresses(L, Q) /\ Along(l, f[l], i) # NULL
  BY <1>0, <1>1 DEF Addresses, Distinguished
<1>5. ASSUME NEW l \in L, NEW k \in L,
             NEW i \in 0 .. Len(f[l]) + 1, NEW j \in 0 .. Len(f[k]) + 1,
             Along(l, f[l], i) = Along(k, f[k], j)
      PROVE  l = k /\ i = j
  <2>1. CASE i \in 1 .. Len(f[l]) /\ j \in 1 .. Len(f[k])
    BY <1>1, <1>3, <1>5, <2>1
  <2>2. CASE i \in 1 .. Len(f[l]) /\ j \notin 1 .. Len(f[k])
    BY <1>0, <1>1, <1>5, <2>2 DEF Distinguished
  <2>3. CASE i \notin 1 .. Len(f[l]) /\ j \in 1 .. Len(f[k])
    BY <1>0, <1>1, <1>5, <2>3 DEF Distinguished
  <2>4. CASE i \notin 1 .. Len(f[l]) /\ j \notin 1 .. Len(f[k])
    BY <1>1, <1>2, <1>5, <2>4
  <2> QED  BY <2>1, <2>2, <2>3, <2>4
<1> QED  BY <1>1, <1>4, <1>5

\* queue_insert_prev before the i-th place: the newcomer has that place, and no
\* other list notices.
LEMMA Inserted ==
  ASSUME NEW L, NEW Q, Distinguished(L, Q), NEW m, NEW f, Lists(L, Q, m, f),
         NEW l \in L, NEW q \in Q, \A k \in L : q \notin ToSet(f[k]),
         NEW i \in 1 .. Len(f[l]) + 1
  PROVE  Lists(L, Q, queue_insert_prev(m, q, Along(l, f[l], i)),
               [f EXCEPT ![l] = InsertAt(f[l], i, q)])
<1> DEFINE s == f[l]
           t == InsertAt(s, i, q)
           g == [f EXCEPT ![l] = t]
           p == Along(l, s, i - 1)
           n == Along(l, s, i)
           r == queue_insert_prev(m, q, n)
<1>0. /\ Distinguished(L, Q) /\ \A k \in L : q \notin ToSet(f[k])
      /\ f \in [L -> Seq(Q)] /\ Disjoint(L, f) /\ m \in Memory(Addresses(L, Q))
      /\ \A k \in L : Chained(m, k, f[k])
  BY DEF Lists
<1>1. s \in Seq(Q) /\ IsInjective(s) /\ Len(s) \in Nat /\ i \in 1 .. Len(s) + 1
  <2>1. s \in Seq(Q) /\ IsInjective(s)
    BY <1>0 DEF Disjoint
  <2> QED  BY <2>1, MembersOfList
<1>2. /\ t \in Seq(Q) /\ Len(t) = Len(s) + 1
      /\ \A k \in 1 .. Len(s) + 1 :
           t[k] = IF k < i THEN s[k] ELSE IF k = i THEN q ELSE s[k - 1]
      /\ ToSet(t) = ToSet(s) \cup {q} /\ IsInjective(t)
  BY <1>0, <1>1, InsertedAt, InsertedMember
<1> HIDE DEF t
<1>3. g \in [L -> Seq(Q)] /\ g[l] = t /\ \A k \in L \ {l} : g[k] = f[k]
  BY <1>0, <1>2
<1>4. Disjoint(L, g)
  BY <1>0, <1>2, <1>3 DEF Disjoint
<1> HIDE DEF g
<1>5. \A k \in 0 .. Len(s) + 2 :
        Along(l, t, k) = IF k < i THEN Along(l, s, k)
                         ELSE IF k = i THEN q ELSE Along(l, s, k - 1)
  <2> HIDE DEF s
  <2> SUFFICES ASSUME NEW k \in 0 .. Len(s) + 2
               PROVE  Along(l, t, k) = IF k < i THEN Along(l, s, k)
                                       ELSE IF k = i THEN q ELSE Along(l, s, k - 1)
    OBVIOUS
  <2>1. CASE k = 0
    BY <1>1, <2>1 DEF Along
  <2>2. CASE k = Len(s) + 2
    <3>1. k = Len(t) + 1 /\ k # 0 /\ k - 1 = Len(s) + 1 /\ k - 1 # 0 /\ k # i /\ ~(k < i)
      BY <1>1, <1>2, <2>2
    <3> QED  BY <3>1 DEF Along
  <2>3. CASE k \in 1 .. Len(s) + 1
    <3>1. Along(l, t, k) = t[k] /\ t[k] = IF k < i THEN s[k] ELSE IF k = i THEN q ELSE s[k - 1]
      BY <1>1, <1>2, <2>3 DEF Along
    <3>2. k < i => Along(l, s, k) = s[k]
      BY <1>1, <2>3 DEF Along
    <3>3. k > i => Along(l, s, k - 1) = s[k - 1]
      BY <1>1, <2>3 DEF Along
    <3> QED  BY <1>1, <2>3, <3>1, <3>2, <3>3
  <2> QED  BY <1>1, <2>1, <2>2, <2>3
<1>6. /\ \A k \in L : \A j \in 0 .. Len(f[k]) + 1 :
           /\ Along(k, f[k], j) \in Addresses(L, Q)
           /\ Along(k, f[k], j) # q
           /\ Along(k, f[k], j) = p => k = l /\ j = i - 1
           /\ Along(k, f[k], j) = n => k = l /\ j = i
  <2>1. i \in 0 .. Len(f[l]) + 1 /\ i - 1 \in 0 .. Len(f[l]) + 1
    BY <1>1
  <2>2. ASSUME NEW k \in L, NEW j \in 0 .. Len(f[k]) + 1
        PROVE  Along(k, f[k], j) # q
    <3>1. f[k] \in Seq(Q)
      BY <1>0
    <3>2. Len(f[k]) \in Nat /\ \A a \in 1 .. Len(f[k]) : f[k][a] \in ToSet(f[k])
      BY <3>1, MembersOfList
    <3> QED  BY <1>0, <3>2 DEF Along, Distinguished
  <2>3. /\ \A k \in L : \A j \in 0 .. Len(f[k]) + 1 :
             Along(k, f[k], j) \in Addresses(L, Q)
        /\ \A j, k \in L : \A a \in 0 .. Len(f[j]) + 1, b \in 0 .. Len(f[k]) + 1 :
             Along(j, f[j], a) = Along(k, f[k], b) => j = k /\ a = b
    BY <1>0, Places
  <2> QED  BY <2>1, <2>2, <2>3
<1>7. /\ \A a \in Addresses(L, Q) :
           /\ r.next[a] = IF a = q THEN n ELSE IF a = p THEN q ELSE m.next[a]
           /\ r.prev[a] = IF a = n THEN q ELSE IF a = q THEN p ELSE m.prev[a]
      /\ r \in Memory(Addresses(L, Q))
  <2>1. /\ p \in Addresses(L, Q) /\ n \in Addresses(L, Q) /\ q \in Addresses(L, Q)
        /\ p # q /\ n # q
    BY <1>1, <1>6 DEF Addresses
  <2>2. m.prev[n] = p
    <3>1. i - 1 \in 0 .. Len(s) /\ i - 1 + 1 = i
      BY <1>1
    <3> QED  BY <1>0, <3>1 DEF Chained
  <2> HIDE DEF p, n
  <2>3. /\ r.next = [m.next EXCEPT ![p] = q, ![q] = n]
        /\ r.prev = [m.prev EXCEPT ![q] = p, ![n] = q]
        /\ r = [next |-> r.next, prev |-> r.prev]
    BY <2>2 DEF queue_insert_prev
  <2> HIDE DEF r
  <2> DEFINE A == Addresses(L, Q)
  <2>4. m.next \in [A -> A \cup {NULL}] /\ m.prev \in [A -> A \cup {NULL}]
    BY <1>0 DEF Memory
  <2>5. p \in A /\ n \in A /\ q \in A
    BY <2>1
  <2> HIDE DEF A
  <2>6. r.next \in [A -> A \cup {NULL}] /\ r.prev \in [A -> A \cup {NULL}]
    BY <2>3, <2>4, <2>5
  <2>7. r \in Memory(A)
    BY <2>3, <2>6 DEF Memory
  <2>8. \A a \in A :
           /\ r.next[a] = IF a = q THEN n ELSE IF a = p THEN q ELSE m.next[a]
           /\ r.prev[a] = IF a = n THEN q ELSE IF a = q THEN p ELSE m.prev[a]
    BY <2>1, <2>3, <2>4, <2>5
  <2> QED  BY <2>7, <2>8 DEF A
<1>8. ASSUME NEW k \in L \ {l} PROVE Chained(r, k, f[k])
  <2>1. \A j \in 0 .. Len(f[k]) + 1 :
          LET a == Along(k, f[k], j) IN r.next[a] = m.next[a] /\ r.prev[a] = m.prev[a]
    BY <1>6, <1>7
  <2>2. /\ HeadOf(k) = Along(k, f[k], 0) /\ TailOf(k) = Along(k, f[k], Len(f[k]) + 1)
        /\ Len(f[k]) \in Nat
    <3>1. f[k] \in Seq(Q)
      BY <1>0
    <3> QED  BY <3>1, MembersOfList DEF Along
  <2>3. Chained(m, k, f[k])
    BY <1>0
  <2>4. /\ 0 \in 0 .. Len(f[k]) + 1 /\ Len(f[k]) + 1 \in 0 .. Len(f[k]) + 1
        /\ \A j \in 0 .. Len(f[k]) : j \in 0 .. Len(f[k]) + 1 /\ j + 1 \in 0 .. Len(f[k]) + 1
    BY <2>2
  <2> HIDE DEF r
  <2> QED  BY <2>1, <2>2, <2>3, <2>4 DEF Chained
<1>9. Chained(r, l, t)
  <2> DEFINE c(k) == Along(l, s, k)
             d(k) == Along(l, t, k)
  <2>1. Chained(m, l, s)
    BY <1>0
  <2>2. \A k \in 0 .. Len(s) + 1 :
          /\ c(k) \in Addresses(L, Q) /\ c(k) # q
          /\ c(k) = p <=> k = i - 1
          /\ c(k) = n <=> k = i
    BY <1>1, <1>6
  <2>3. c(0) = HeadOf(l) /\ c(Len(s) + 1) = TailOf(l) /\ c(i - 1) = p /\ c(i) = n
    BY <1>1 DEF Along
  <2>4. d(0) = HeadOf(l) /\ d(Len(t) + 1) = TailOf(l)
    BY <1>1, <1>2 DEF Along
  <2>5. \A k \in 0 .. Len(s) + 2 :
          d(k) = IF k < i THEN c(k) ELSE IF k = i THEN q ELSE c(k - 1)
    BY <1>5
  <2>6. /\ m.prev[c(0)] = NULL /\ m.next[c(Len(s) + 1)] = NULL
        /\ \A k \in 0 .. Len(s) : m.next[c(k)] = c(k + 1) /\ m.prev[c(k + 1)] = c(k)
    BY <2>1, <2>3 DEF Chained
  <2> HIDE DEF r, c, d, p, n, s
  <2>7. r.prev[c(0)] = NULL /\ r.next[c(Len(s) + 1)] = NULL
    BY <1>1, <1>7, <2>2, <2>6
  <2>8. q \in Addresses(L, Q)
    BY DEF Addresses
  <2>9. ASSUME NEW k \in 0 .. Len(s) + 1 PROVE r.next[d(k)] = d(k + 1)
    <3>1. CASE k < i - 1
      BY <1>1, <1>7, <2>2, <2>5, <2>6, <3>1
    <3>2. CASE k = i - 1
      BY <1>1, <1>7, <2>2, <2>3, <2>5, <3>2
    <3>3. CASE k = i
      BY <1>1, <1>7, <2>3, <2>5, <2>8, <3>3
    <3>4. CASE k > i
      <4>1. k - 1 \in 0 .. Len(s) /\ k - 1 # i - 1 /\ k - 1 + 1 = k
        BY <1>1, <3>4
      <4>2. d(k) = c(k - 1) /\ d(k + 1) = c(k)
        BY <1>1, <2>5, <3>4
      <4> QED  BY <1>1, <1>7, <2>2, <2>6, <4>1, <4>2
    <3> QED  BY <1>1, <3>1, <3>2, <3>3, <3>4
  <2>10. ASSUME NEW k \in 0 .. Len(s) + 1 PROVE r.prev[d(k + 1)] = d(k)
    <3>1. CASE k < i - 1
      <4>1. k + 1 \in 0 .. Len(s) + 1 /\ k + 1 # i /\ k \in 0 .. Len(s)
        BY <1>1, <3>1
      <4>2. d(k + 1) = c(k + 1) /\ d(k) = c(k)
        BY <1>1, <2>5, <3>1
      <4> QED  BY <1>7, <2>2, <2>6, <4>1, <4>2
    <3>2. CASE k = i - 1
      <4>1. d(k + 1) = q /\ d(k) = p
        BY <1>1, <2>3, <2>5, <3>2
      <4>2. q # n
        BY <1>1, <2>2, <2>3
      <4> QED  BY <1>7, <2>8, <4>1, <4>2
    <3>3. CASE k = i
      <4>1. d(k + 1) = n /\ d(k) = q /\ n \in Addresses(L, Q)
        <5>1. i + 1 \in 0 .. Len(s) + 2 /\ i + 1 - 1 = i /\ i \in 0 .. Len(s) + 1
          BY <1>1
        <5> QED  BY <2>2, <2>3, <2>5, <3>3, <5>1
      <4> QED  BY <1>7, <4>1
    <3>4. CASE k > i
      <4>1. k - 1 \in 0 .. Len(s) /\ k # i /\ k - 1 + 1 = k
        BY <1>1, <3>4
      <4>2. d(k) = c(k - 1) /\ d(k + 1) = c(k)
        BY <1>1, <2>5, <3>4
      <4> QED  BY <1>1, <1>7, <2>2, <2>6, <4>1, <4>2
    <3> QED  BY <1>1, <3>1, <3>2, <3>3, <3>4
  <2> QED  BY <1>2, <2>3, <2>4, <2>7, <2>9, <2>10 DEF Chained, d
<1>10. \A k \in L : Chained(r, k, g[k])
  BY <1>3, <1>8, <1>9
<1> QED  BY <1>3, <1>4, <1>7, <1>10 DEF Lists, g, t

\* queue_remove of the i-th node, with which pop and the schedulers take a node.
LEMMA Removed ==
  ASSUME NEW L, NEW Q, Distinguished(L, Q), NEW m, NEW f, Lists(L, Q, m, f),
         NEW l \in L, NEW i \in 1 .. Len(f[l])
  PROVE  Lists(L, Q, queue_remove(m, f[l][i]), [f EXCEPT ![l] = RemoveAt(f[l], i)])
<1> DEFINE s == f[l]
           t == RemoveAt(s, i)
           g == [f EXCEPT ![l] = t]
           q == s[i]
           p == Along(l, s, i - 1)
           n == Along(l, s, i + 1)
           r == queue_remove(m, q)
           A == Addresses(L, Q)
<1>0. /\ Distinguished(L, Q)
      /\ f \in [L -> Seq(Q)] /\ Disjoint(L, f) /\ m \in Memory(A)
      /\ \A k \in L : Chained(m, k, f[k])
  BY DEF Lists
<1>1. s \in Seq(Q) /\ IsInjective(s) /\ Len(s) \in Nat /\ i \in 1 .. Len(s)
  <2>1. s \in Seq(Q) /\ IsInjective(s)
    BY <1>0 DEF Disjoint
  <2> QED  BY <2>1, MembersOfList
<1>2. /\ t \in Seq(Q) /\ Len(t) = Len(s) - 1
      /\ \A k \in 1 .. Len(s) - 1 : t[k] = IF k < i THEN s[k] ELSE s[k + 1]
      /\ ToSet(t) = ToSet(s) \ {q} /\ IsInjective(t)
  BY <1>1, RemovedAt, RemovedMember
<1> HIDE DEF t
<1>3. g \in [L -> Seq(Q)] /\ g[l] = t /\ \A k \in L \ {l} : g[k] = f[k]
  BY <1>0, <1>2
<1>4. Disjoint(L, g)
  BY <1>0, <1>2, <1>3 DEF Disjoint
<1> HIDE DEF g
<1>5. \A k \in 0 .. Len(s) :
        Along(l, t, k) = IF k < i THEN Along(l, s, k) ELSE Along(l, s, k + 1)
  <2> HIDE DEF s
  <2> SUFFICES ASSUME NEW k \in 0 .. Len(s)
               PROVE  Along(l, t, k) = IF k < i THEN Along(l, s, k) ELSE Along(l, s, k + 1)
    OBVIOUS
  <2>1. CASE k = 0
    BY <1>1, <2>1 DEF Along
  <2>2. CASE k = Len(s)
    <3>1. k = Len(t) + 1 /\ k # 0 /\ k + 1 = Len(s) + 1 /\ k + 1 # 0 /\ ~(k < i)
      BY <1>1, <1>2, <2>2
    <3> QED  BY <3>1 DEF Along
  <2>3. CASE k \in 1 .. Len(s) - 1
    <3>1. Along(l, t, k) = t[k] /\ t[k] = IF k < i THEN s[k] ELSE s[k + 1]
      BY <1>1, <1>2, <2>3 DEF Along
    <3>2. Along(l, s, k) = s[k] /\ Along(l, s, k + 1) = s[k + 1]
      BY <1>1, <2>3 DEF Along
    <3> QED  BY <3>1, <3>2
  <2> QED  BY <1>1, <2>1, <2>2, <2>3
<1>6. /\ Along(l, s, i) = q
      /\ \A k \in L : \A j \in 0 .. Len(f[k]) + 1 :
           /\ Along(k, f[k], j) \in A
           /\ Along(k, f[k], j) = q => k = l /\ j = i
           /\ Along(k, f[k], j) = p => k = l /\ j = i - 1
           /\ Along(k, f[k], j) = n => k = l /\ j = i + 1
  <2>1. /\ i \in 0 .. Len(f[l]) + 1 /\ i - 1 \in 0 .. Len(f[l]) + 1
        /\ i + 1 \in 0 .. Len(f[l]) + 1
    BY <1>1
  <2>2. Along(l, s, i) = q
    BY <1>1 DEF Along
  <2>3. /\ \A k \in L : \A j \in 0 .. Len(f[k]) + 1 :
             Along(k, f[k], j) \in A
        /\ \A j, k \in L : \A a \in 0 .. Len(f[j]) + 1, b \in 0 .. Len(f[k]) + 1 :
             Along(j, f[j], a) = Along(k, f[k], b) => j = k /\ a = b
    <3>1. Distinguished(L, Q) /\ f \in [L -> Seq(Q)] /\ Disjoint(L, f)
      BY <1>0
    <3>2. \A j, k \in L : \A a \in 0 .. Len(f[j]) + 1, b \in 0 .. Len(f[k]) + 1 :
            Along(j, f[j], a) = Along(k, f[k], b) => j = k /\ a = b
      BY ONLY <3>1, Places
    <3>3. \A k \in L : \A j \in 0 .. Len(f[k]) + 1 : Along(k, f[k], j) \in Addresses(L, Q)
      BY ONLY <3>1, Places
    <3> QED  BY <3>2, <3>3
  <2> QED  BY <2>1, <2>2, <2>3
<1>7. /\ \A a \in A :
           /\ r.next[a] = IF a = q THEN NULL ELSE IF a = p THEN n ELSE m.next[a]
           /\ r.prev[a] = IF a = q THEN NULL ELSE IF a = n THEN p ELSE m.prev[a]
      /\ r \in Memory(A)
  <2>1. i \in 0 .. Len(f[l]) + 1 /\ i - 1 \in 0 .. Len(f[l]) + 1 /\ i + 1 \in 0 .. Len(f[l]) + 1
    BY <1>1
  <2>2. p \in A /\ n \in A /\ q \in A
    BY <1>6, <2>1
  <2>3. m.prev[q] = p /\ m.next[q] = n
    <3>1. i - 1 \in 0 .. Len(s) /\ i - 1 + 1 = i /\ i \in 0 .. Len(s)
      BY <1>1
    <3> QED  BY <1>0, <1>6, <3>1 DEF Chained
  <2>4. m.next \in [A -> A \cup {NULL}] /\ m.prev \in [A -> A \cup {NULL}]
    BY <1>0 DEF Memory
  <2> HIDE DEF p, n, q
  <2>5. /\ r.next = [m.next EXCEPT ![p] = n, ![q] = NULL]
        /\ r.prev = [m.prev EXCEPT ![n] = p, ![q] = NULL]
        /\ r = [next |-> r.next, prev |-> r.prev]
    BY <2>3 DEF queue_remove
  <2> HIDE DEF r, A
  <2>6. r.next \in [A -> A \cup {NULL}] /\ r.prev \in [A -> A \cup {NULL}]
    BY <2>2, <2>4, <2>5
  <2>7. r \in Memory(A)
    BY <2>5, <2>6 DEF Memory
  <2>8. \A a \in A :
           /\ r.next[a] = IF a = q THEN NULL ELSE IF a = p THEN n ELSE m.next[a]
           /\ r.prev[a] = IF a = q THEN NULL ELSE IF a = n THEN p ELSE m.prev[a]
    BY <2>2, <2>4, <2>5
  <2> QED  BY <2>7, <2>8
<1>8. ASSUME NEW k \in L \ {l} PROVE Chained(r, k, f[k])
  <2>1. \A j \in 0 .. Len(f[k]) + 1 :
          LET a == Along(k, f[k], j) IN r.next[a] = m.next[a] /\ r.prev[a] = m.prev[a]
    BY <1>6, <1>7
  <2>2. /\ HeadOf(k) = Along(k, f[k], 0) /\ TailOf(k) = Along(k, f[k], Len(f[k]) + 1)
        /\ Len(f[k]) \in Nat
    <3>1. f[k] \in Seq(Q)
      BY <1>0
    <3> QED  BY <3>1, MembersOfList DEF Along
  <2>3. Chained(m, k, f[k])
    BY <1>0
  <2>4. /\ 0 \in 0 .. Len(f[k]) + 1 /\ Len(f[k]) + 1 \in 0 .. Len(f[k]) + 1
        /\ \A j \in 0 .. Len(f[k]) : j \in 0 .. Len(f[k]) + 1 /\ j + 1 \in 0 .. Len(f[k]) + 1
    BY <2>2
  <2> HIDE DEF r
  <2> QED  BY <2>1, <2>2, <2>3, <2>4 DEF Chained
<1>9. Chained(r, l, t)
  <2> DEFINE c(k) == Along(l, s, k)
             d(k) == Along(l, t, k)
  <2>1. Chained(m, l, s)
    BY <1>0
  <2>2. \A k \in 0 .. Len(s) + 1 :
          /\ c(k) \in A
          /\ c(k) = q <=> k = i
          /\ c(k) = p <=> k = i - 1
          /\ c(k) = n <=> k = i + 1
    BY <1>1, <1>6
  <2>3. c(0) = HeadOf(l) /\ c(Len(s) + 1) = TailOf(l) /\ c(i - 1) = p /\ c(i + 1) = n
    BY <1>1 DEF Along
  <2>4. d(0) = HeadOf(l) /\ d(Len(t) + 1) = TailOf(l)
    BY <1>1, <1>2 DEF Along
  <2>5. \A k \in 0 .. Len(s) : d(k) = IF k < i THEN c(k) ELSE c(k + 1)
    BY <1>5
  <2>6. /\ m.prev[c(0)] = NULL /\ m.next[c(Len(s) + 1)] = NULL
        /\ \A k \in 0 .. Len(s) : m.next[c(k)] = c(k + 1) /\ m.prev[c(k + 1)] = c(k)
    BY <2>1, <2>3 DEF Chained
  <2> HIDE DEF r, c, d, p, n, q, s, A
  <2>7. r.prev[c(0)] = NULL /\ r.next[c(Len(s) + 1)] = NULL
    <3>1. /\ 0 \in 0 .. Len(s) + 1 /\ Len(s) + 1 \in 0 .. Len(s) + 1
          /\ 0 # i + 1 /\ Len(s) + 1 # i - 1
      BY <1>1
    <3> QED  BY <1>7, <2>2, <2>6, <3>1
  <2>8. ASSUME NEW k \in 0 .. Len(s) - 1
        PROVE  r.next[d(k)] = d(k + 1) /\ r.prev[d(k + 1)] = d(k)
    <3>1. CASE k < i - 1
      <4>1. /\ k \in 0 .. Len(s) /\ k + 1 \in 0 .. Len(s) /\ k + 1 \in 0 .. Len(s) + 1
            /\ k < i /\ k + 1 < i /\ k # i /\ k # i - 1 /\ k + 1 # i /\ k + 1 # i + 1
            /\ k \in 0 .. Len(s) + 1
        BY <1>1, <3>1
      <4>2. d(k) = c(k) /\ d(k + 1) = c(k + 1)
        BY <2>5, <4>1
      <4> QED  BY <1>7, <2>2, <2>6, <4>1, <4>2
    <3>2. CASE k = i - 1
      <4>1. /\ k \in 0 .. Len(s) /\ k < i /\ k + 1 \in 0 .. Len(s) /\ ~(k + 1 < i)
            /\ k + 1 + 1 = i + 1 /\ i + 1 \in 0 .. Len(s) + 1 /\ i - 1 \in 0 .. Len(s) + 1
            /\ i + 1 # i /\ i - 1 # i
        BY <1>1, <3>2
      <4>2. d(k) = p /\ d(k + 1) = n
        BY <2>3, <2>5, <3>2, <4>1
      <4>3. p \in A /\ n \in A /\ p # q /\ n # q
        BY <2>2, <2>3, <4>1
      <4> QED  BY <1>7, <4>2, <4>3
    <3>3. CASE k >= i
      <4>1. /\ k \in 0 .. Len(s) /\ k + 1 \in 0 .. Len(s) /\ k + 1 \in 0 .. Len(s) + 1
            /\ ~(k < i) /\ ~(k + 1 < i) /\ k + 1 # i /\ k + 1 # i - 1
            /\ k + 1 + 1 \in 0 .. Len(s) + 1 /\ k + 1 + 1 # i /\ k + 1 + 1 # i + 1
        BY <1>1, <3>3
      <4>2. d(k) = c(k + 1) /\ d(k + 1) = c(k + 1 + 1)
        BY <2>5, <4>1
      <4> QED  BY <1>7, <2>2, <2>6, <4>1, <4>2
    <3> QED  BY <1>1, <3>1, <3>2, <3>3
  <2>9. \A k \in 0 .. Len(t) : k \in 0 .. Len(s) - 1
    BY <1>1, <1>2
  <2> QED  BY <2>3, <2>4, <2>7, <2>8, <2>9 DEF Chained, d
<1>10. \A k \in L : Chained(r, k, g[k])
  BY <1>3, <1>8, <1>9
<1> QED  BY <1>3, <1>4, <1>7, <1>10 DEF Lists, g, t

\* A list and its sentinels fit into the memory.
LEMMA Fits ==
  ASSUME NEW L, NEW Q, IsFiniteSet(L), IsFiniteSet(Q), Distinguished(L, Q),
         NEW m, NEW f, Lists(L, Q, m, f), NEW l \in L
  PROVE  /\ Cardinality(DOMAIN m.next) \in Nat
         /\ Len(f[l]) + 1 <= Cardinality(DOMAIN m.next)
         /\ \A S \in SUBSET Q : IsFiniteSet(S)
<1> DEFINE A == Addresses(L, Q)
           D == 0 .. Len(f[l]) + 1
           c == [k \in D |-> Along(l, f[l], k)]
<1>1. /\ f \in [L -> Seq(Q)] /\ Disjoint(L, f) /\ m \in Memory(A)
      /\ Distinguished(L, Q)
  BY DEF Lists
<1>2. DOMAIN m.next = A
  BY <1>1 DEF Memory
<1>3. IsFiniteSet(A)
  <2>1. IsFiniteSet({HeadOf(k) : k \in L}) /\ IsFiniteSet({TailOf(k) : k \in L})
    <3>1. [k \in L |-> HeadOf(k)] \in Surjection(L, {HeadOf(k) : k \in L})
      BY DEF Surjection
    <3>2. [k \in L |-> TailOf(k)] \in Surjection(L, {TailOf(k) : k \in L})
      BY DEF Surjection
    <3> QED  BY <3>1, <3>2, FS_Surjection
  <2> QED  BY <2>1, FS_Union DEF Addresses
<1>4. Len(f[l]) \in Nat
  <2>1. f[l] \in Seq(Q)
    BY <1>1
  <2> QED  BY <2>1, MembersOfList
<1>5. c \in Injection(D, A)
  <2>1. \A k \in D : c[k] \in A
    BY <1>1, Places
  <2>2. \A j, k \in D : c[j] = c[k] => j = k
    BY <1>1, Places
  <2> QED  BY <2>1, <2>2 DEF Injection, IsInjective
<1>6. Cardinality(D) <= Cardinality(A)
  BY <1>3, <1>5, FS_Injection
<1>7. Cardinality(D) = Len(f[l]) + 2
  <2>1. 0 \in Int /\ Len(f[l]) + 1 \in Int /\ 0 <= Len(f[l]) + 1
        /\ Len(f[l]) + 1 - 0 + 1 = Len(f[l]) + 2
    BY <1>4
  <2>2. Cardinality(D) = IF 0 > Len(f[l]) + 1 THEN 0 ELSE Len(f[l]) + 1 - 0 + 1
    BY <2>1, FS_Interval
  <2> QED  BY <2>1, <2>2
<1>8. Cardinality(A) \in Nat
  BY <1>3, FS_CardinalityType
<1>9. \A S \in SUBSET Q : IsFiniteSet(S)
  BY FS_Subset
<1> QED  BY <1>2, <1>4, <1>6, <1>7, <1>8, <1>9

-----------------------------------------------------------------------------
\* The walks.

WalkStep(m, a) == IF a = NULL THEN NULL ELSE m.next[a]

IsWalk(m, l, n, w) ==
  w = [k \in 0 .. n |-> IF k = 0 THEN HeadOf(l) ELSE WalkStep(m, w[k-1])]

LEMMA WalkExists ==
  ASSUME NEW m, NEW l, NEW n \in Nat
  PROVE  \E w : IsWalk(m, l, n, w)
<1> DEFINE Good == {k \in Nat : \E w : IsWalk(m, l, k, w)}
<1>1. 0 \in Good
  <2>1. IsWalk(m, l, 0, [k \in 0 .. 0 |-> HeadOf(l)])
    BY DEF IsWalk
  <2> QED  BY <2>1
<1>2. ASSUME NEW k \in Nat, k \in Good PROVE k + 1 \in Good
  <2>1. PICK w : IsWalk(m, l, k, w)
    BY <1>2
  <2> DEFINE u == [j \in 0 .. k + 1 |->
                     IF j = k + 1 THEN WalkStep(m, w[k]) ELSE w[j]]
  <2>2. \A j \in 0 .. k + 1 : u[j] = IF j = 0 THEN HeadOf(l) ELSE WalkStep(m, u[j-1])
    BY <2>1 DEF IsWalk
  <2>3. IsWalk(m, l, k + 1, u)
    BY <2>2 DEF IsWalk
  <2> HIDE DEF u
  <2> QED  BY <2>3
<1> HIDE DEF Good
<1>3. n \in Good
  BY <1>1, <1>2, Induction
<1> QED  BY <1>3 DEF Good

\* A walk goes along the list to its tail, and no further.
LEMMA WalksAlong ==
  ASSUME NEW L, NEW Q, IsFiniteSet(L), IsFiniteSet(Q), Distinguished(L, Q),
         NEW m, NEW f, Lists(L, Q, m, f), NEW l \in L
  PROVE  /\ DOMAIN Walk(m, l) = 0 .. Cardinality(DOMAIN m.next)
         /\ \A k \in DOMAIN Walk(m, l) :
              Walk(m, l)[k] = IF k <= Len(f[l]) + 1 THEN Along(l, f[l], k) ELSE NULL
<1> DEFINE n == Cardinality(DOMAIN m.next)
           s == f[l]
           w == CHOOSE v : IsWalk(m, l, n, v)
<1>0. /\ f \in [L -> Seq(Q)] /\ Disjoint(L, f) /\ Chained(m, l, s)
      /\ n \in Nat /\ Len(s) + 1 <= n /\ Len(s) \in Nat
  <2>1. f \in [L -> Seq(Q)]
    BY DEF Lists
  <2>2. s \in Seq(Q)
    BY <2>1
  <2> QED  BY <2>2, Fits, MembersOfList DEF Lists
<1>1. Walk(m, l) = w
  BY DEF Walk, IsWalk, WalkStep
<1>2. IsWalk(m, l, n, w)
  BY <1>0, WalkExists
<1> HIDE DEF w
<1>3. /\ DOMAIN w = 0 .. n
      /\ \A k \in 0 .. n : w[k] = IF k = 0 THEN HeadOf(l) ELSE WalkStep(m, w[k-1])
  BY <1>2 DEF IsWalk
<1> HIDE DEF n
<1> DEFINE v(k) == IF k <= Len(s) + 1 THEN Along(l, s, k) ELSE NULL
           Good == {k \in Nat : k <= n => w[k] = v(k)}
<1>4. 0 \in Good
  BY <1>0, <1>3 DEF Along
<1>5. ASSUME NEW k \in Nat, k \in Good PROVE k + 1 \in Good
  <2> SUFFICES ASSUME k + 1 <= n PROVE w[k + 1] = v(k + 1)
    OBVIOUS
  <2>1. w[k] = v(k) /\ w[k + 1] = IF w[k] = NULL THEN NULL ELSE m.next[w[k]]
    BY <1>0, <1>3, <1>5 DEF WalkStep
  <2>2. CASE k <= Len(s)
    <3>1. k \in 0 .. Len(s) + 1 /\ k \in 0 .. Len(s)
      BY <1>0, <2>2
    <3>2. Along(l, s, k) # NULL
      BY <1>0, <3>1, Places
    <3>3. m.next[Along(l, s, k)] = Along(l, s, k + 1)
      BY <1>0, <3>1 DEF Chained
    <3> QED  BY <1>0, <2>1, <2>2, <3>2, <3>3
  <2>3. CASE k = Len(s) + 1
    <3>1. Along(l, s, k) = TailOf(l)
      BY <1>0, <2>3 DEF Along
    <3> QED  BY <1>0, <2>1, <2>3, <3>1 DEF Chained
  <2>4. CASE k > Len(s) + 1
    BY <1>0, <2>1, <2>4
  <2> QED  BY <1>0, <2>2, <2>3, <2>4
<1> HIDE DEF Good
<1>6. \A k \in Nat : k \in Good
  BY <1>4, <1>5, Induction
<1>7. \A k \in 0 .. n : w[k] = v(k)
  BY <1>0, <1>6 DEF Good
<1> QED  BY <1>1, <1>3, <1>7 DEF n

\* What queue.c says of a memory that represents lists: the items are those of
\* the sequence, the self-test succeeds, a list is empty if its sequence is, and
\* the top is the first.
LEMMA ListsAre ==
  ASSUME NEW L, NEW Q, IsFiniteSet(L), IsFiniteSet(Q), Distinguished(L, Q),
         NEW m, NEW f, Lists(L, Q, m, f), NEW l \in L
  PROVE  /\ Items(m, l) = f[l]
         /\ queue_list_check(m, l)
         /\ queue_list_is_empty(m, l) <=> f[l] = <<>>
         /\ f[l] # <<>> => queue_list_top(m, l) = f[l][1]
<1> DEFINE s == f[l]
           w == Walk(m, l)
           n == Cardinality(DOMAIN m.next)
<1>0. /\ f \in [L -> Seq(Q)] /\ Disjoint(L, f) /\ Chained(m, l, s)
      /\ n \in Nat /\ Len(s) + 1 <= n /\ Distinguished(L, Q)
  BY Fits DEF Lists
<1>1. s \in Seq(Q) /\ Len(s) \in Nat /\ DOMAIN s = 1 .. Len(s) /\ (s = <<>> <=> Len(s) = 0)
  <2>1. s \in Seq(Q)
    BY <1>0
  <2> QED  BY <2>1, MembersOfList
<1>2. DOMAIN w = 0 .. n
      /\ \A k \in 0 .. n : w[k] = IF k <= Len(s) + 1 THEN Along(l, s, k) ELSE NULL
  <2>1. /\ DOMAIN Walk(m, l) = 0 .. Cardinality(DOMAIN m.next)
        /\ \A k \in DOMAIN Walk(m, l) :
             Walk(m, l)[k] = IF k <= Len(f[l]) + 1 THEN Along(l, f[l], k) ELSE NULL
    BY WalksAlong
  <2> QED  BY <2>1
<1>3. /\ \A i \in 1 .. Len(s) : Along(l, s, i) = s[i] /\ s[i] \in Q
      /\ \A i \in 0 .. Len(s) + 1 : Along(l, s, i) # NULL
      /\ \A i, j \in 0 .. Len(s) + 1 : Along(l, s, i) = Along(l, s, j) => i = j
  BY <1>0, Places
<1>4. Along(l, s, 0) = HeadOf(l) /\ Along(l, s, Len(s) + 1) = TailOf(l)
  BY <1>1 DEF Along
<1> HIDE DEF w, s, n
<1>5. \A k \in DOMAIN w : w[k] = TailOf(l) <=> k = Len(s) + 1
  <2> SUFFICES ASSUME NEW k \in 0 .. n PROVE w[k] = TailOf(l) <=> k = Len(s) + 1
    BY <1>2
  <2>1. CASE k <= Len(s) + 1
    <3>1. k \in 0 .. Len(s) + 1 /\ Len(s) + 1 \in 0 .. Len(s) + 1
      BY <1>1, <2>1
    <3> QED  BY <1>2, <1>3, <1>4, <2>1, <3>1
  <2>2. CASE ~(k <= Len(s) + 1)
    <3>1. TailOf(l) # NULL
      BY <1>0 DEF Distinguished
    <3> QED  BY <1>1, <1>2, <2>2, <3>1
  <2> QED  BY <2>1, <2>2
<1> DEFINE t == CHOOSE k \in DOMAIN w : w[k] = TailOf(l)
<1>6. t = Len(s) + 1
  <2>1. Len(s) + 1 \in DOMAIN w
    BY <1>0, <1>1, <1>2
  <2> QED  BY <1>5, <2>1
<1>7. Items(m, l) = [i \in 1 .. Len(s) |-> w[i]]
  <2>1. Items(m, l) = [i \in 1 .. t - 1 |-> w[i]]
    BY DEF Items, w
  <2> HIDE DEF t
  <2>2. Len(s) + 1 - 1 = Len(s)
    BY <1>1
  <2> QED  BY <1>6, <2>1, <2>2
<1>8. \A i \in 1 .. Len(s) : w[i] = s[i]
  BY <1>0, <1>1, <1>2, <1>3
<1>9. Items(m, l) = s
  BY <1>1, <1>7, <1>8
<1>10. queue_list_check(m, l)
  <2>1. Len(s) + 1 \in DOMAIN w /\ w[Len(s) + 1] = TailOf(l)
    BY <1>0, <1>1, <1>2, <1>5
  <2>2. ASSUME NEW k \in 1 .. Len(s) + 1 PROVE m.prev[w[k]] = w[k-1]
    <3>1. /\ k - 1 \in 0 .. Len(s) /\ k - 1 + 1 = k
          /\ k \in 0 .. n /\ k - 1 \in 0 .. n /\ k <= Len(s) + 1 /\ k - 1 <= Len(s) + 1
      BY <1>0, <1>1
    <3>2. m.prev[Along(l, s, k - 1 + 1)] = Along(l, s, k - 1)
      BY <1>0, <3>1 DEF Chained
    <3> QED  BY <1>2, <3>1, <3>2
  <2>3. m.prev[HeadOf(l)] = NULL /\ m.next[TailOf(l)] = NULL
    BY <1>0 DEF Chained
  <2> QED  BY <2>1, <2>2, <2>3 DEF queue_list_check, w
<1>11. queue_list_top(m, l) = Along(l, s, 1)
  <2>1. 0 \in 0 .. Len(s)
    BY <1>1
  <2>2. m.next[Along(l, s, 0)] = Along(l, s, 0 + 1)
    BY <1>0, <2>1 DEF Chained
  <2> QED  BY <1>4, <2>2 DEF queue_list_top
<1>12. queue_list_is_empty(m, l) <=> s = <<>>
  <2>1. CASE Len(s) = 0
    BY <1>0, <1>1, <1>4, <1>11, <2>1 DEF Chained, queue_list_is_empty, queue_list_top
  <2>2. CASE Len(s) # 0
    <3>1. 1 \in 0 .. Len(s) /\ 1 + 1 \in 0 .. Len(s) + 1
      BY <1>1, <2>2
    <3>2. m.next[Along(l, s, 1)] = Along(l, s, 1 + 1)
      BY <1>0, <3>1 DEF Chained
    <3> QED  BY <1>1, <1>3, <1>11, <2>2, <3>1, <3>2 DEF queue_list_is_empty, queue_list_top
  <2> QED  BY <2>1, <2>2
<1>13. s # <<>> => queue_list_top(m, l) = s[1]
  BY <1>1, <1>3, <1>11
<1> QED  BY <1>9, <1>10, <1>12, <1>13 DEF s

-----------------------------------------------------------------------------
\* queue_list_init makes one more empty list.
LEMMA Initialised ==
  ASSUME NEW L, NEW Q, Distinguished(L, Q), NEW m \in Memory(Addresses(L, Q)),
         NEW K \in SUBSET L, \A k \in K : Chained(m, k, <<>>), NEW l \in L
  PROVE  /\ queue_list_init(m, l) \in Memory(Addresses(L, Q))
         /\ \A k \in K \cup {l} : Chained(queue_list_init(m, l), k, <<>>)
<1> DEFINE A == Addresses(L, Q)
           r == queue_list_init(m, l)
           h == HeadOf(l)
           t == TailOf(l)
<1>0. Distinguished(L, Q) /\ m \in Memory(A) /\ \A k \in K : Chained(m, k, <<>>)
  OBVIOUS
<1>1. h \in A /\ t \in A
  BY DEF Addresses
<1>2. \A k \in L : /\ HeadOf(k) \in A /\ TailOf(k) \in A
                   /\ HeadOf(k) # TailOf(k) /\ HeadOf(k) # t /\ TailOf(k) # h
                   /\ HeadOf(k) = h => k = l
                   /\ TailOf(k) = t => k = l
  BY DEF Addresses, HeadOf, TailOf
<1>3. \A k, n : Chained(n, k, <<>>) <=>
        /\ n.prev[HeadOf(k)] = NULL /\ n.next[TailOf(k)] = NULL
        /\ n.next[HeadOf(k)] = TailOf(k) /\ n.prev[TailOf(k)] = HeadOf(k)
  <2> SUFFICES ASSUME NEW k, NEW n
               PROVE Chained(n, k, <<>>) <=>
                       /\ n.prev[HeadOf(k)] = NULL /\ n.next[TailOf(k)] = NULL
                       /\ n.next[HeadOf(k)] = TailOf(k) /\ n.prev[TailOf(k)] = HeadOf(k)
    OBVIOUS
  <2>1. Len(<<>>) = 0 /\ 0 .. 0 = {0}
    OBVIOUS
  <2>2. Along(k, <<>>, 0) = HeadOf(k) /\ Along(k, <<>>, 0 + 1) = TailOf(k)
    BY DEF Along
  <2> QED  BY <2>1, <2>2 DEF Chained
<1>4. m.next \in [A -> A \cup {NULL}] /\ m.prev \in [A -> A \cup {NULL}]
  BY <1>0 DEF Memory
<1>5. /\ r.next = [m.next EXCEPT ![h] = t, ![t] = NULL]
      /\ r.prev = [m.prev EXCEPT ![h] = NULL, ![t] = h]
      /\ r = [next |-> r.next, prev |-> r.prev]
  BY DEF queue_list_init
<1> HIDE DEF A, r, h, t
<1>6. r \in Memory(A)
  <2>1. r.next \in [A -> A \cup {NULL}] /\ r.prev \in [A -> A \cup {NULL}]
    BY <1>1, <1>4, <1>5
  <2> QED  BY <1>5, <2>1 DEF Memory
<1>7. h # t
  BY <1>2 DEF h
<1>8. \A a \in A : /\ r.next[a] = IF a = h THEN t ELSE IF a = t THEN NULL ELSE m.next[a]
                   /\ r.prev[a] = IF a = h THEN NULL ELSE IF a = t THEN h ELSE m.prev[a]
  BY <1>1, <1>4, <1>5, <1>7
<1>9. Chained(r, l, <<>>)
  BY <1>1, <1>3, <1>7, <1>8 DEF h, t
<1>10. ASSUME NEW k \in K, k # l PROVE Chained(r, k, <<>>)
  <2>1. /\ HeadOf(k) \in A /\ TailOf(k) \in A
        /\ HeadOf(k) # h /\ HeadOf(k) # t /\ TailOf(k) # h /\ TailOf(k) # t
    BY <1>2, <1>10
  <2>2. /\ m.prev[HeadOf(k)] = NULL /\ m.next[TailOf(k)] = NULL
        /\ m.next[HeadOf(k)] = TailOf(k) /\ m.prev[TailOf(k)] = HeadOf(k)
    BY <1>0, <1>3
  <2>3. /\ r.prev[HeadOf(k)] = NULL /\ r.next[TailOf(k)] = NULL
        /\ r.next[HeadOf(k)] = TailOf(k) /\ r.prev[TailOf(k)] = HeadOf(k)
    BY <1>8, <2>1, <2>2
  <2> QED  BY <1>3, <2>3
<1> QED  BY <1>6, <1>9, <1>10 DEF A, r

\* queue_list_enque is an insertion before the tail.
LEMMA EnqueIsInsert ==
  ASSUME NEW L, NEW Q, Distinguished(L, Q), NEW m, NEW f, Lists(L, Q, m, f),
         NEW l \in L, NEW q \in Q, \A k \in L : q \notin ToSet(f[k])
  PROVE  Lists(L, Q, queue_list_enque(m, l, q),
               [f EXCEPT ![l] = InsertAt(f[l], Len(f[l]) + 1, q)])
<1> DEFINE s == f[l]
           p == m.prev[TailOf(l)]
           A == Addresses(L, Q)
<1>0. /\ f \in [L -> Seq(Q)] /\ Disjoint(L, f) /\ Chained(m, l, s)
      /\ m \in Memory(A) /\ Distinguished(L, Q)
  BY DEF Lists
<1>1. s \in Seq(Q) /\ Len(s) \in Nat /\ \A i \in 1 .. Len(s) : s[i] \in ToSet(s)
  <2>1. s \in Seq(Q)
    BY <1>0
  <2> QED  BY <2>1, MembersOfList
<1>2. Along(l, s, Len(s) + 1) = TailOf(l)
  BY <1>1 DEF Along
<1>3. p = Along(l, s, Len(s)) /\ m.next[p] = TailOf(l)
  <2>1. Len(s) \in 0 .. Len(s)
    BY <1>1
  <2> QED  BY <1>0, <1>2, <2>1 DEF Chained
<1>4. TailOf(l) # q
  BY <1>0 DEF Distinguished
<1>5. p # q
  BY <1>0, <1>1, <1>3 DEF Along, Distinguished
<1>6. p \in A /\ q \in A /\ TailOf(l) \in A
  <2>1. Len(s) \in 0 .. Len(s) + 1
    BY <1>1
  <2>2. Along(l, s, Len(s)) \in A
    BY <1>0, <2>1, Places
  <2> QED  BY <1>3, <2>2 DEF Addresses
<1>7. m.next \in [A -> A \cup {NULL}] /\ m.prev \in [A -> A \cup {NULL}]
  BY <1>0 DEF Memory
<1> DEFINE t == TailOf(l)
<1>8. queue_list_enque(m, l, q) = queue_insert_prev(m, q, t)
  <2>1. queue_list_enque(m, l, q) = [next |-> [m.next EXCEPT ![q] = t, ![p] = q],
                                     prev |-> [m.prev EXCEPT ![t] = q, ![q] = p]]
    BY <1>3 DEF queue_list_enque, queue_insert
  <2>2. queue_insert_prev(m, q, t) = [next |-> [m.next EXCEPT ![p] = q, ![q] = t],
                                      prev |-> [m.prev EXCEPT ![q] = p, ![t] = q]]
    BY DEF queue_insert_prev
  <2> HIDE DEF p, t, A
  <2>3. [m.next EXCEPT ![q] = t, ![p] = q] = [m.next EXCEPT ![p] = q, ![q] = t]
    BY <1>5, <1>6, <1>7
  <2>4. [m.prev EXCEPT ![t] = q, ![q] = p] = [m.prev EXCEPT ![q] = p, ![t] = q]
    BY <1>4, <1>6, <1>7 DEF t
  <2> QED  BY <2>1, <2>2, <2>3, <2>4
<1>9. Lists(L, Q, queue_insert_prev(m, q, Along(l, f[l], Len(f[l]) + 1)),
            [f EXCEPT ![l] = InsertAt(f[l], Len(f[l]) + 1, q)])
  <2>1. Len(f[l]) + 1 \in 1 .. Len(f[l]) + 1
    BY <1>1
  <2> QED  BY <2>1, Inserted
<1> QED  BY <1>2, <1>8, <1>9

=============================================================================
