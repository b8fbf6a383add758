-------------------------- MODULE EdfScheduler_proof --------------------------
(***************************************************************************)
(* edf_scheduler.c keeps its lists exact and in order of deadlines, for    *)
(* any VMs, vCPUs, nodes, periods, budgets and first times, and while its  *)
(* counter runs through all of its 64 bits: the invariants of              *)
(* EdfScheduler, and its refinement of Lifecycle.                          *)
(***************************************************************************)
EXTENDS EdfScheduler, Queue_proof

-----------------------------------------------------------------------------
\* The inductive invariant.

\* The lists of the memory, as sequences.
Queues == [l \in List |-> Items(mem, l)]

\* In order of deadlines.
Ordered(s, jb) ==
  \A i, j \in 1 .. Len(s) : i < j => jb[s[i]].dead_line <= jb[s[j]].dead_line

\* The node of a vCPU, if it has one, is its own, and is on "ls" or "ws" if and
\* only if the vCPU waits.
Owned ==
  /\ \A v \in VCPU : /\ sched_state[v] # NULL => job[sched_state[v]].vcpu = v
                     /\ sched_state[v] \notin On("fl")
                     /\ state[v] = "start" <=> v = exec
                     /\ state[v] \in {"start", "sleep"} => sched_state[v] # NULL
  /\ On("ls") \cup On("ws") = {sched_state[v] : v \in Waiting}

\* The guest's budget is watched in a handler, too.
Watched ==
  exec # NULL /\ ~preempted =>
    LET end == Date(job[sched_state[exec]].start_time + exection_time[exec]) IN
    now < end => end_event = end

IInv ==
  /\ TypeOK
  /\ Lists(List, Node, mem, Queues)
  /\ Ordered(Items(mem, "ls"), job)
  /\ Owned
  /\ pc = "guest" => exec # NULL
  /\ Watched

-----------------------------------------------------------------------------
\* 64 bits.
LEMMA Dates ==
  /\ Long \in Nat \ {0} /\ Word \in Nat \ {0} /\ Never \in Nat /\ Never = Long
  /\ MaxTime \in 0 .. Long - 1 /\ Forever \in 0 .. Long - 1
  /\ \A n \in Nat : Date(n) \in 0 .. Long - 1
  /\ \A d \in 0 .. Long - 1 : d \in 0 .. Never
<1>1. Long \in Nat \ {0} /\ Word \in Nat \ {0} /\ MaxTime \in 0 .. Long - 1
  BY EdfAssumption
<1>2. \A n \in Nat : n % Long \in 0 .. Long - 1
  BY <1>1
<1> QED  BY <1>1, <1>2 DEF Never, Forever, Date

\* The lists of this scheduler.

LEMMA Apart ==
  /\ Distinguished(List, Node) /\ IsFiniteSet(List) /\ IsFiniteSet(Node)
  /\ List = {"ls", "ws", "fl"} /\ NULL \notin VCPU /\ NULL \notin Node
<1>1. IsFiniteSet({"ls", "ws", "fl"})
  <2>1. IsFiniteSet({"ls"})
    BY FS_Singleton
  <2>2. IsFiniteSet({"ls"} \cup {"ws"})
    BY <2>1, FS_AddElement
  <2>3. IsFiniteSet({"ls"} \cup {"ws"} \cup {"fl"})
    BY <2>2, FS_AddElement
  <2>4. {"ls"} \cup {"ws"} \cup {"fl"} = {"ls", "ws", "fl"}
    OBVIOUS
  <2> QED  BY <2>3, <2>4
<1> QED  BY <1>1, EdfAssumption, AddressAssumption DEF Distinguished, List

\* A memory represents at most one family of lists.
LEMMA QueuesAre ==
  ASSUME NEW m, NEW f, Lists(List, Node, m, f)
  PROVE  /\ f \in [List -> Seq(Node)] /\ Disjoint(List, f)
         /\ f = [l \in List |-> Items(m, l)]
         /\ \A l \in List : /\ Items(m, l) = f[l]
                            /\ queue_list_check(m, l)
                            /\ queue_list_is_empty(m, l) <=> f[l] = <<>>
                            /\ f[l] # <<>> => queue_list_top(m, l) = f[l][1]
         /\ DOMAIN m.next = DOMAIN m.prev
<1>1. f \in [List -> Seq(Node)] /\ Disjoint(List, f) /\ m \in Memory(Addresses(List, Node))
  BY DEF Lists
<1>2. \A l \in List : /\ Items(m, l) = f[l]
                      /\ queue_list_check(m, l)
                      /\ queue_list_is_empty(m, l) <=> f[l] = <<>>
                      /\ f[l] # <<>> => queue_list_top(m, l) = f[l][1]
  BY Apart, ListsAre
<1>3. f = [l \in List |-> Items(m, l)]
  BY <1>1, <1>2
<1>4. DOMAIN m.next = DOMAIN m.prev
  BY <1>1 DEF Memory
<1> QED  BY <1>1, <1>2, <1>3, <1>4

\* list_enque: the newcomer is on the list, which stays in order.
Enlisted(m, jb, l, q, f, g) ==
  /\ Lists(List, Node, list_enque(m, jb, l, q), g)
  /\ \A k \in List \ {l} : g[k] = f[k]
  /\ ToSet(g[l]) = ToSet(f[l]) \cup {q}
  /\ Len(g[l]) = Len(f[l]) + 1
  /\ Ordered(f[l], jb) => Ordered(g[l], jb)

LEMMA EnqueKeeps ==
  ASSUME NEW m, NEW f, Lists(List, Node, m, f), NEW jb \in [Node -> Job],
         NEW l \in List, NEW q \in Node, \A k \in List : q \notin ToSet(f[k])
  PROVE  \E g : Enlisted(m, jb, l, q, f, g)
<1> DEFINE s == f[l]
           d == jb[q].dead_line
           stop == {k \in 1 .. Len(s) : StopsAt(jb[s[k]].dead_line, d)}
           i == IF stop = {} THEN Len(s) + 1 ELSE Min(stop)
           t == InsertAt(s, i, q)
           g == [f EXCEPT ![l] = t]
<1>1. /\ f \in [List -> Seq(Node)] /\ Items(m, l) = s /\ s \in Seq(Node)
      /\ Len(s) \in Nat /\ DOMAIN s = 1 .. Len(s)
      /\ \A k \in 1 .. Len(s) : s[k] \in Node
  <2>1. f \in [List -> Seq(Node)] /\ Items(m, l) = s
    BY QueuesAre
  <2>2. s \in Seq(Node)
    BY <2>1
  <2> QED  BY <2>1, <2>2, MembersOfList
<1>2. d \in Nat /\ \A k \in 1 .. Len(s) : jb[s[k]].dead_line \in Nat
  <2>1. \A x \in Node : jb[x].dead_line \in Nat
    BY Dates DEF Job
  <2> QED  BY <1>1, <2>1
<1>3. stop # {} => Min(stop) \in stop /\ \A k \in stop : Min(stop) <= k
  <2>1. stop \in SUBSET Nat
    OBVIOUS
  <2> HIDE DEF stop
  <2>2. stop # {} => \E k \in stop : \A j \in stop : k <= j
    BY <2>1, Least
  <2> QED  BY <2>2 DEF Min
<1>4. i \in 1 .. Len(s) + 1
  BY <1>1, <1>3
<1>5. /\ \A k \in 1 .. Len(s) : k < i => jb[s[k]].dead_line <= d
      /\ i <= Len(s) => jb[s[i]].dead_line > d
  <2>1. \A k \in 1 .. Len(s) : k < i => k \notin stop
    <3> HIDE DEF stop
    <3>1. CASE stop = {}
      BY <3>1
    <3>2. CASE stop # {}
      <4>1. i = Min(stop) /\ \A k \in stop : i <= k
        BY <1>3, <3>2
      <4>2. \A k \in stop : k \in Nat
        BY DEF stop
      <4>3. i \in Nat
        BY <1>1, <1>4
      <4> HIDE DEF i
      <4> QED  BY <4>1, <4>2, <4>3
    <3> QED  BY <3>1, <3>2
  <2>2. i <= Len(s) => i \in stop
    <3>1. stop = {} => i = Len(s) + 1
      OBVIOUS
    <3>2. stop # {} => i = Min(stop)
      OBVIOUS
    <3> HIDE DEF stop, i
    <3>3. stop = {} => ~(i <= Len(s))
      BY <1>1, <3>1
    <3>4. stop # {} => i \in stop
      BY <1>3, <3>2
    <3> QED  BY <3>3, <3>4
  <2>3. \A k \in 1 .. Len(s) : k \in stop <=> jb[s[k]].dead_line > d
    BY DEF StopsAt
  <2> DEFINE e(k) == jb[s[k]].dead_line
  <2>4. \A k \in 1 .. Len(s) : e(k) \in Nat /\ (k \in stop <=> e(k) > d)
    BY <1>2, <2>3
  <2> HIDE DEF e, d, stop, i
  <2>5. \A k \in 1 .. Len(s) : k < i => e(k) <= d
    BY <1>2, <2>1, <2>4
  <2>6. i <= Len(s) => e(i) > d
    BY <1>1, <1>4, <2>2, <2>4
  <2> QED  BY <2>5, <2>6 DEF e, d
<1>6. list_enque(m, jb, l, q) = queue_insert_prev(m, q, Along(l, s, i))
  <2>1. stop = {k \in DOMAIN Items(m, l) : StopsAt(jb[Items(m, l)[k]].dead_line, d)}
    BY <1>1
  <2>2. list_enque(m, jb, l, q)
          = queue_insert_prev(m, q, IF stop = {} THEN TailOf(l) ELSE s[Min(stop)])
    BY <1>1, <2>1 DEF list_enque
  <2>3. stop = {} => Along(l, s, i) = TailOf(l)
    BY <1>1 DEF Along
  <2>4. stop # {} => Along(l, s, i) = s[Min(stop)]
    BY <1>1, <1>3 DEF Along
  <2> QED  BY <2>2, <2>3, <2>4
<1> HIDE DEF stop, i
<1>7. Lists(List, Node, queue_insert_prev(m, q, Along(l, f[l], i)),
            [f EXCEPT ![l] = InsertAt(f[l], i, q)])
  BY <1>4, Apart, Inserted
<1>8. /\ t \in Seq(Node) /\ Len(t) = Len(s) + 1
      /\ \A k \in 1 .. Len(s) + 1 :
           t[k] = IF k < i THEN s[k] ELSE IF k = i THEN q ELSE s[k - 1]
      /\ ToSet(t) = ToSet(s) \cup {q}
  <2> HIDE DEF s
  <2>1. s \in Seq(Node) /\ i \in 1 .. Len(s) + 1
    BY <1>1, <1>4
  <2>2. /\ t \in Seq(Node) /\ Len(t) = Len(s) + 1
        /\ \A k \in 1 .. Len(s) + 1 :
             t[k] = IF k < i THEN s[k] ELSE IF k = i THEN q ELSE s[k - 1]
    BY <2>1, InsertedAt
  <2>3. ToSet(t) = ToSet(s) \cup {q}
    BY <2>1, InsertedMember
  <2> QED  BY <2>2, <2>3
<1>9. g[l] = t /\ \A k \in List \ {l} : g[k] = f[k]
  BY <1>1
<1>10. ASSUME Ordered(s, jb) PROVE Ordered(t, jb)
  <2> DEFINE e(k) == jb[s[k]].dead_line
  <2>1. \A j, k \in 1 .. Len(s) : j < k => e(j) <= e(k)
    BY <1>10 DEF Ordered
  <2>2. /\ \A k \in 1 .. Len(s) : e(k) \in Nat /\ (k < i => e(k) <= d)
        /\ i <= Len(s) => e(i) > d
    BY <1>2, <1>5
  <2>3. \A k \in 1 .. Len(s) + 1 :
          jb[t[k]].dead_line = IF k < i THEN e(k) ELSE IF k = i THEN d ELSE e(k - 1)
    BY <1>8
  <2> HIDE DEF e, d, t, s
  <2>4. \A k \in 1 .. Len(s) : k >= i => e(k) > d
    BY <1>1, <1>2, <1>4, <2>1, <2>2
  <2> SUFFICES ASSUME NEW j \in 1 .. Len(s) + 1, NEW k \in 1 .. Len(s) + 1, j < k
               PROVE  jb[t[j]].dead_line <= jb[t[k]].dead_line
    BY <1>8 DEF Ordered
  <2>5. CASE k < i
    <3>1. j \in 1 .. Len(s) /\ k \in 1 .. Len(s) /\ j < i
      BY <1>1, <1>4, <2>5
    <3>2. e(j) <= e(k)
      BY <2>1, <3>1
    <3>3. jb[t[j]].dead_line = e(j) /\ jb[t[k]].dead_line = e(k)
      BY <2>3, <2>5, <3>1
    <3> QED  BY <3>2, <3>3
  <2>6. CASE k = i
    BY <1>1, <1>4, <2>2, <2>3, <2>6
  <2>7. CASE k > i /\ j < i
    <3>1. k - 1 \in 1 .. Len(s) /\ k - 1 >= i /\ j \in 1 .. Len(s)
      BY <1>1, <1>4, <2>7
    <3>2. e(j) <= d /\ e(k - 1) > d /\ e(j) \in Nat /\ e(k - 1) \in Nat
      BY <2>2, <2>4, <2>7, <3>1
    <3>3. jb[t[j]].dead_line = e(j) /\ jb[t[k]].dead_line = e(k - 1)
      BY <1>1, <1>4, <2>3, <2>7
    <3> QED  BY <1>2, <3>2, <3>3
  <2>8. CASE k > i /\ j = i
    <3>1. k - 1 \in 1 .. Len(s) /\ k - 1 >= i
      BY <1>1, <1>4, <2>8
    <3> QED  BY <1>1, <1>2, <1>4, <2>2, <2>3, <2>4, <2>8, <3>1
  <2>9. CASE k > i /\ j > i
    <3>1. k - 1 \in 1 .. Len(s) /\ j - 1 \in 1 .. Len(s) /\ j - 1 < k - 1
      BY <1>1, <1>4, <2>9
    <3>2. e(j - 1) <= e(k - 1)
      BY <2>1, <3>1
    <3> QED  BY <1>1, <1>4, <2>3, <2>9, <3>2
  <2> QED  BY <1>1, <1>4, <2>5, <2>6, <2>7, <2>8, <2>9
<1>11. Enlisted(m, jb, l, q, f, g)
  BY <1>6, <1>7, <1>8, <1>9, <1>10 DEF s, Enlisted
<1> QED  BY <1>11

\* queue_list_pop: the first is on no list any more; on a list in order, it has
\* the earliest deadline.
Popped(m, l, q, f, g) ==
  /\ q \in Node /\ q \in ToSet(f[l])
  /\ Lists(List, Node, queue_list_pop(m, l), g)
  /\ \A k \in List \ {l} : g[k] = f[k]
  /\ ToSet(g[l]) = ToSet(f[l]) \ {q}
  /\ Len(g[l]) = Len(f[l]) - 1
  /\ \A k \in List : q \notin ToSet(g[k])
  /\ \A jb \in [Node -> Job] : Ordered(f[l], jb) =>
       /\ Ordered(g[l], jb)
       /\ \A x \in ToSet(f[l]) : jb[q].dead_line <= jb[x].dead_line

LEMMA PopKeeps ==
  ASSUME NEW m, NEW f, Lists(List, Node, m, f), NEW l \in List, f[l] # <<>>,
         NEW q, q = queue_list_top(m, l)
  PROVE  \E g : Popped(m, l, q, f, g)
<1> DEFINE s == f[l]
           t == RemoveAt(s, 1)
           g == [f EXCEPT ![l] = t]
<1>1. /\ f \in [List -> Seq(Node)] /\ Disjoint(List, f) /\ q = s[1]
  BY QueuesAre
<1>2. /\ s \in Seq(Node) /\ Len(s) \in Nat /\ DOMAIN s = 1 .. Len(s) /\ Len(s) >= 1
      /\ \A k \in 1 .. Len(s) : s[k] \in Node /\ s[k] \in ToSet(s)
      /\ \A x \in ToSet(s) : \E k \in 1 .. Len(s) : s[k] = x
  <2>1. s \in Seq(Node)
    BY <1>1
  <2> QED  BY <2>1, MembersOfList
<1>3. 1 \in 1 .. Len(s) /\ q \in Node /\ q \in ToSet(s)
  BY <1>1, <1>2
<1>4. Lists(List, Node, queue_list_pop(m, l), g)
  <2>1. Lists(List, Node, queue_remove(m, f[l][1]), [f EXCEPT ![l] = RemoveAt(f[l], 1)])
    BY <1>3, Apart, Removed
  <2> QED  BY <1>1, <2>1 DEF queue_list_pop
<1>5. IsInjective(s)
  BY <1>1 DEF Disjoint
<1>6. /\ Len(t) = Len(s) - 1
      /\ \A k \in 1 .. Len(s) - 1 : t[k] = s[k + 1]
      /\ ToSet(t) = ToSet(s) \ {q}
  <2> HIDE DEF s
  <2>1. /\ Len(t) = Len(s) - 1
        /\ \A k \in 1 .. Len(s) - 1 : t[k] = IF k < 1 THEN s[k] ELSE s[k + 1]
    BY <1>2, <1>3, RemovedAt
  <2>2. ToSet(t) = ToSet(s) \ {s[1]}
    BY <1>2, <1>3, <1>5, RemovedMember
  <2>3. \A k \in 1 .. Len(s) - 1 : ~(k < 1)
    OBVIOUS
  <2> QED  BY <1>1, <2>1, <2>2, <2>3
<1>7. g[l] = t /\ \A k \in List \ {l} : g[k] = f[k]
  BY <1>1
<1>8. \A k \in List : q \notin ToSet(g[k])
  <2>1. \A k \in List \ {l} : ToSet(f[k]) \cap ToSet(f[l]) = {}
    BY <1>1 DEF Disjoint
  <2> QED  BY <1>3, <1>6, <1>7, <2>1
<1>9. ASSUME NEW jb, Ordered(s, jb) PROVE Ordered(t, jb)
  <2> HIDE DEF s, t
  <2> SUFFICES ASSUME NEW i \in 1 .. Len(t), NEW j \in 1 .. Len(t), i < j
               PROVE  jb[t[i]].dead_line <= jb[t[j]].dead_line
    BY DEF Ordered
  <2>1. /\ i + 1 \in 1 .. Len(s) /\ j + 1 \in 1 .. Len(s) /\ i + 1 < j + 1
        /\ t[i] = s[i + 1] /\ t[j] = s[j + 1]
    BY <1>2, <1>6
  <2> QED  BY <1>9, <2>1 DEF Ordered
<1>10. ASSUME NEW jb \in [Node -> Job], Ordered(s, jb), NEW x \in ToSet(s)
       PROVE  jb[q].dead_line <= jb[x].dead_line
  <2>1. PICK k \in 1 .. Len(s) : s[k] = x
    BY <1>2
  <2> DEFINE d(i) == jb[s[i]].dead_line
  <2>2. \A i, j \in 1 .. Len(s) : i < j => d(i) <= d(j)
    BY <1>10 DEF Ordered
  <2>3. d(1) \in Nat
    <3>1. \A y \in Node : jb[y].dead_line \in 0 .. Long - 1
      BY DEF Job
    <3>2. jb[q].dead_line \in 0 .. Long - 1
      BY <1>3, <3>1
    <3> QED  BY <1>1, <3>2
  <2> HIDE DEF d
  <2>4. d(1) <= d(k)
    <3>1. k = 1 \/ 1 < k
      OBVIOUS
    <3>2. 1 < k => d(1) <= d(k)
      BY <1>3, <2>2
    <3>3. k = 1 => d(1) <= d(k)
      BY <2>3
    <3> QED  BY <3>1, <3>2, <3>3
  <2> QED  BY <1>1, <2>1, <2>4 DEF d
<1> HIDE DEF g, t
<1>11. /\ \A jb : Ordered(s, jb) => Ordered(g[l], jb)
       /\ ToSet(g[l]) = ToSet(s) \ {q} /\ Len(g[l]) = Len(s) - 1
  BY <1>6, <1>7, <1>9
<1>12. Popped(m, l, q, f, g)
  BY <1>3, <1>4, <1>7, <1>8, <1>10, <1>11 DEF s, Popped
<1> QED  BY <1>12

\* The order depends on the deadlines of the members only.
LEMMA SameOrder ==
  ASSUME NEW s \in Seq(Node), NEW jb, NEW kb, Ordered(s, jb),
         \A x \in ToSet(s) : kb[x].dead_line = jb[x].dead_line
  PROVE  Ordered(s, kb)
<1>1. \A i \in 1 .. Len(s) : s[i] \in ToSet(s)
  BY MembersOfList
<1> QED  BY <1>1 DEF Ordered

-----------------------------------------------------------------------------
\* The release loop.

FreedStep(s) == IF Releasable(s) THEN MoveJob(s) ELSE s

IsFreed(n, r) ==
  r = [k \in 0 .. n |-> IF k = 0 THEN [mem |-> mem, job |-> job] ELSE FreedStep(r[k-1])]

LEMMA FreedExists ==
  ASSUME NEW n \in Nat
  PROVE  \E r : IsFreed(n, r)
<1> DEFINE Good == {k \in Nat : \E r : IsFreed(k, r)}
<1>1. 0 \in Good
  <2>1. IsFreed(0, [k \in 0 .. 0 |-> [mem |-> mem, job |-> job]])
    BY DEF IsFreed
  <2> QED  BY <2>1
<1>2. ASSUME NEW k \in Nat, k \in Good PROVE k + 1 \in Good
  <2>1. PICK r : IsFreed(k, r)
    BY <1>2
  <2> DEFINE u == [j \in 0 .. k + 1 |-> IF j = k + 1 THEN FreedStep(r[k]) ELSE r[j]]
  <2>2. \A j \in 0 .. k + 1 :
          u[j] = IF j = 0 THEN [mem |-> mem, job |-> job] ELSE FreedStep(u[j-1])
    BY <2>1 DEF IsFreed
  <2>3. IsFreed(k + 1, u)
    BY <2>2 DEF IsFreed
  <2> HIDE DEF u
  <2> QED  BY <2>3
<1> HIDE DEF Good
<1>3. n \in Good
  BY <1>1, <1>2, Induction
<1> QED  BY <1>3 DEF Good

LEMMA FreedRuns ==
  ASSUME NEW n \in Nat, n = Len(Items(mem, "ws"))
  PROVE  \E r : /\ r[0] = [mem |-> mem, job |-> job]
                /\ \A k \in 1 .. n : r[k] = FreedStep(r[k-1])
                /\ Released = r[n]
<1> DEFINE r == CHOOSE u : IsFreed(n, u)
<1>1. Released = r[n]
  BY DEF Released, IsFreed, FreedStep
<1>2. IsFreed(n, r)
  BY FreedExists
<1> HIDE DEF r
<1>3. \A k \in 0 .. n : r[k] = IF k = 0 THEN [mem |-> mem, job |-> job] ELSE FreedStep(r[k-1])
  BY <1>2 DEF IsFreed
<1>4. 0 \in 0 .. n /\ \A k \in 1 .. n : k \in 0 .. n /\ k # 0
  OBVIOUS
<1> QED  BY <1>1, <1>3, <1>4

\* What holds after k turns: nobody is lost, who is ready stays ready, the ready
\* list is in order, and "ws" is not exhausted before the loop is.
Freed(k, s, g) ==
  /\ Lists(List, Node, s.mem, g)
  /\ s.job \in [Node -> Job]
  /\ Ordered(g["ls"], s.job)
  /\ g["fl"] = Queues["fl"]
  /\ ToSet(g["ls"]) \cup ToSet(g["ws"]) = On("ls") \cup On("ws")
  /\ On("ls") \subseteq ToSet(g["ls"])
  /\ Len(g["ws"]) + k >= Len(Items(mem, "ws"))
  /\ \A x \in Node : /\ s.job[x].vcpu = job[x].vcpu
                     /\ s.job[x].start_time = job[x].start_time
  /\ ToSet(g["ws"]) \subseteq On("ws")
  /\ \A x \in Node \ On("ws") : s.job[x] = job[x]

\* The vCPU of a node on a list.
LEMMA Served ==
  ASSUME IInv
  PROVE  /\ On("ls") \cup On("ws") \subseteq Node
         /\ \A x \in On("ls") \cup On("ws") :
              /\ job[x].vcpu \in VCPU /\ sched_state[job[x].vcpu] = x
              /\ state[job[x].vcpu] = "wait"
         /\ \A u, v \in VCPU : sched_state[u] # NULL /\ sched_state[u] = sched_state[v] => u = v
         /\ \A v \in VCPU : /\ sched_state[v] \in Node \cup {NULL}
                            /\ sched_state[v] \in On("ls") \cup On("ws") <=> v \in Waiting
<1>1. sched_state \in [VCPU -> Node \cup {NULL}]
  BY DEF IInv, TypeOK
<1>2. /\ \A v \in VCPU : sched_state[v] # NULL => job[sched_state[v]].vcpu = v
      /\ On("ls") \cup On("ws") = {sched_state[v] : v \in Waiting}
  BY DEF IInv, Owned
<1>3. Waiting = {v \in VCPU : state[v] = "wait" /\ sched_state[v] # NULL}
  BY DEF Waiting
<1>4. \A x \in On("ls") \cup On("ws") :
        \E v \in VCPU : x = sched_state[v] /\ state[v] = "wait" /\ sched_state[v] # NULL
  BY <1>2, <1>3
<1>5. \A u, v \in VCPU : sched_state[u] # NULL /\ sched_state[u] = sched_state[v] => u = v
  BY <1>2
<1>6. \A v \in VCPU : sched_state[v] \in On("ls") \cup On("ws") <=> v \in Waiting
  <2> SUFFICES ASSUME NEW v \in VCPU
               PROVE  sched_state[v] \in On("ls") \cup On("ws") <=> v \in Waiting
    OBVIOUS
  <2>1. ASSUME sched_state[v] \in On("ls") \cup On("ws") PROVE v \in Waiting
    <3>1. PICK u \in VCPU : sched_state[v] = sched_state[u] /\ state[u] = "wait"
                            /\ sched_state[u] # NULL
      BY <1>4, <2>1
    <3>2. u = v
      BY <1>5, <3>1
    <3> QED  BY <1>3, <3>1, <3>2
  <2> QED  BY <1>2, <2>1
<1> QED  BY <1>1, <1>2, <1>4, <1>5, <1>6

\* A job for the next period.
LEMMA Renewed ==
  ASSUME NEW e \in Job, NEW a \in 0 .. Long - 1, NEW b \in 0 .. Word - 1
  PROVE  /\ [e EXCEPT !.dead_line = a, !.remained_time = b] \in Job
         /\ [e EXCEPT !.dead_line = a, !.remained_time = b].vcpu = e.vcpu
         /\ [e EXCEPT !.dead_line = a, !.remained_time = b].start_time = e.start_time
         /\ e.dead_line \in 0 .. Long - 1
<1>1. e = [vcpu |-> e.vcpu, remained_time |-> e.remained_time,
           dead_line |-> e.dead_line, start_time |-> e.start_time]
      /\ e.vcpu \in VCPU \cup {NULL} /\ e.dead_line \in 0 .. Long - 1
      /\ e.start_time \in 0 .. Long - 1
  BY DEF Job
<1>2. [e EXCEPT !.dead_line = a, !.remained_time = b]
        = [vcpu |-> e.vcpu, remained_time |-> b, dead_line |-> a, start_time |-> e.start_time]
  <2>1. PICK c, d, r, s : e = [vcpu |-> c, remained_time |-> r, dead_line |-> d, start_time |-> s]
    BY <1>1
  <2>2. e.vcpu = c /\ e.start_time = s
    BY <2>1
  <2>3. PICK f : f = [e EXCEPT !.dead_line = a]
    OBVIOUS
  <2>4. f = [vcpu |-> c, remained_time |-> r, dead_line |-> a, start_time |-> s]
    BY ONLY <2>1, <2>3
  <2>5. [f EXCEPT !.remained_time = b]
          = [vcpu |-> c, remained_time |-> b, dead_line |-> a, start_time |-> s]
    BY ONLY <2>4
  <2>6. [e EXCEPT !.dead_line = a, !.remained_time = b] = [f EXCEPT !.remained_time = b]
    BY <2>3
  <2> QED  BY <2>2, <2>5, <2>6
<1> QED  BY <1>1, <1>2 DEF Job

LEMMA MoveKeeps ==
  ASSUME IInv, NEW k \in Nat, NEW s, NEW g, Freed(k, s, g), k < Len(Items(mem, "ws"))
  PROVE  \E h : Freed(k + 1, MoveJob(s), h)
<1> DEFINE n == Len(Items(mem, "ws"))
           q == queue_list_top(s.mem, "ws")
           p == queue_list_pop(s.mem, "ws")
           v == s.job[q].vcpu
           j == [s.job EXCEPT ![q].dead_line = Date(@ + period[v]),
                              ![q].remained_time = exection_time[v]]
<1>0. Freed(k, s, g) /\ IInv
  OBVIOUS
<1>1. /\ Lists(List, Node, s.mem, g) /\ g \in [List -> Seq(Node)] /\ s.job \in [Node -> Job]
      /\ "ls" \in List /\ "ws" \in List /\ "fl" \in List
      /\ "ls" # "ws" /\ "fl" # "ws" /\ "fl" # "ls"
  BY <1>0, QueuesAre, Apart DEF Freed
<1>2. g["ws"] # <<>>
  <2>1. n \in Nat
    <3>1. Lists(List, Node, mem, Queues)
      BY <1>0 DEF IInv
    <3>2. Queues \in [List -> Seq(Node)] /\ Queues["ws"] = Items(mem, "ws")
      BY <1>1, <3>1, QueuesAre DEF Queues
    <3>3. Items(mem, "ws") \in Seq(Node)
      BY <1>1, <3>2
    <3> QED  BY <3>3, MembersOfList
  <2>2. g["ws"] = <<>> => Len(g["ws"]) = 0
    OBVIOUS
  <2>3. Len(g["ws"]) + k >= n
    BY <1>0 DEF Freed
  <2> QED  BY <2>1, <2>2, <2>3
<1>3. \E f : Popped(s.mem, "ws", q, g, f)
  BY <1>1, <1>2, PopKeeps
<1>4. PICK f : /\ Lists(List, Node, p, f) /\ q \in Node /\ q \in ToSet(g["ws"])
               /\ \A l \in List \ {"ws"} : f[l] = g[l]
               /\ ToSet(f["ws"]) = ToSet(g["ws"]) \ {q}
               /\ Len(f["ws"]) = Len(g["ws"]) - 1
               /\ \A l \in List : q \notin ToSet(f[l])
  BY <1>3 DEF Popped
<1>5. v \in VCPU
  <2>1. q \in On("ls") \cup On("ws") /\ v = job[q].vcpu
    BY <1>0, <1>4 DEF Freed
  <2> QED  BY <1>0, <2>1, Served
<1> HIDE DEF q, p
<1>6. /\ j \in [Node -> Job]
      /\ \A x \in Node : j[x].vcpu = s.job[x].vcpu /\ j[x].start_time = s.job[x].start_time
      /\ \A x \in Node \ {q} : j[x] = s.job[x]
  <2> DEFINE e == s.job[q]
             d == [e EXCEPT !.dead_line = Date(e.dead_line + period[v]),
                            !.remained_time = exection_time[v]]
  <2>1. e \in Job /\ period[v] \in Nat /\ exection_time[v] \in 0 .. Word - 1
    <3>1. e \in Job
      BY <1>1, <1>4
    <3>2. period[v] \in 0 .. Word - 1 /\ exection_time[v] \in 0 .. Word - 1
      <4> HIDE DEF v
      <4> QED  BY <1>5, EdfAssumption
    <3> QED  BY <3>1, <3>2
  <2>2. j = [s.job EXCEPT ![q] = d]
    BY <1>1, <1>4, <2>1 DEF Job
  <2> HIDE DEF j, v, e
  <2>3. d \in Job /\ d.vcpu = e.vcpu /\ d.start_time = e.start_time
    <3>1. e.dead_line \in 0 .. Long - 1 /\ period[v] \in Nat
      BY <2>1 DEF Job
    <3> HIDE DEF d
    <3>2. \A x \in 0 .. Long - 1, y \in Nat : x + y \in Nat
      BY Dates
    <3>3. e.dead_line + period[v] \in Nat
      BY <3>1, <3>2
    <3>4. Date(e.dead_line + period[v]) \in 0 .. Long - 1
      BY <3>3, Dates
    <3> USE DEF d
    <3> QED  BY <2>1, <3>4, Renewed
  <2> HIDE DEF d
  <2> QED  BY <1>1, <1>4, <2>2, <2>3 DEF e
<1> HIDE DEF j, v
<1>7. PICK h : Enlisted(p, j, "ls", q, f, h)
  BY <1>1, <1>4, <1>6, EnqueKeeps
<1>8. Ordered(f["ls"], j)
  <2>1. Ordered(f["ls"], s.job) /\ f["ls"] \in Seq(Node)
    BY <1>0, <1>1, <1>4 DEF Freed
  <2>2. ToSet(f["ls"]) \subseteq Node \ {q}
    BY <1>1, <1>4, <2>1, MembersOfList
  <2>3. \A x \in ToSet(f["ls"]) : j[x].dead_line = s.job[x].dead_line
    BY <1>6, <2>2
  <2> QED  BY <2>1, <2>3, SameOrder
<1>9. h["ws"] = f["ws"] /\ h["fl"] = g["fl"] /\ ToSet(h["ls"]) = ToSet(g["ls"]) \cup {q}
  BY <1>1, <1>4, <1>7 DEF Enlisted
<1>10. Len(h["ws"]) + (k + 1) >= n
  <2>1. f["ws"] \in Seq(Node) /\ g["ws"] \in Seq(Node)
    BY <1>1, <1>4, QueuesAre
  <2>2. Len(f["ws"]) \in Nat /\ Len(g["ws"]) \in Nat
    BY <2>1, MembersOfList
  <2>3. Len(g["ws"]) + k >= n
    BY <1>0 DEF Freed
  <2>4. n \in Nat
    <3>1. Lists(List, Node, mem, Queues)
      BY <1>0 DEF IInv
    <3>2. Queues \in [List -> Seq(Node)] /\ Queues["ws"] = Items(mem, "ws")
      BY <1>1, <3>1, QueuesAre DEF Queues
    <3>3. Items(mem, "ws") \in Seq(Node)
      BY <1>1, <3>2
    <3> QED  BY <3>3, MembersOfList
  <2> DEFINE a == Len(g["ws"])
             b == Len(h["ws"])
  <2>5. a \in Nat /\ b \in Nat /\ b = a - 1 /\ a + k >= n
    BY <1>4, <1>9, <2>2, <2>3
  <2> HIDE DEF n, a, b
  <2>6. b + (k + 1) >= n
    BY <2>4, <2>5
  <2> QED  BY <2>6 DEF b
<1>11. MoveJob(s) = [mem |-> list_enque(p, j, "ls", q), job |-> j]
  BY DEF MoveJob, p, j, q, v
<1>12. ToSet(h["ls"]) \cup ToSet(h["ws"]) = On("ls") \cup On("ws")
  <2>1. ToSet(g["ls"]) \cup ToSet(g["ws"]) = On("ls") \cup On("ws")
    BY <1>0 DEF Freed
  <2> QED  BY <1>4, <1>9, <2>1
<1>13. On("ls") \subseteq ToSet(h["ls"]) /\ h["fl"] = Queues["fl"]
  BY <1>0, <1>9 DEF Freed
<1>14. /\ \A x \in Node : j[x].vcpu = job[x].vcpu /\ j[x].start_time = job[x].start_time
       /\ ToSet(h["ws"]) \subseteq On("ws")
       /\ \A x \in Node \ On("ws") : j[x] = job[x]
  BY <1>0, <1>4, <1>6, <1>9 DEF Freed
<1> DEFINE z == MoveJob(s)
<1>15. z.mem = list_enque(p, j, "ls", q) /\ z.job = j
  BY <1>11
<1> HIDE DEF z
<1>16. Freed(k + 1, z, h)
  <2>1. Lists(List, Node, z.mem, h) /\ Ordered(h["ls"], z.job) /\ z.job \in [Node -> Job]
    BY <1>6, <1>7, <1>8, <1>15 DEF Enlisted
  <2> QED  BY <1>10, <1>12, <1>13, <1>14, <1>15, <2>1 DEF Freed
<1> QED  BY <1>16 DEF z

\* my_schedule's loop leaves exact lists behind.
LEMMA ReleasedKeeps ==
  ASSUME IInv
  PROVE  \E g : Freed(Len(Items(mem, "ws")), Released, g)
<1> DEFINE n == Len(Items(mem, "ws"))
<1>0. IInv /\ Lists(List, Node, mem, Queues) /\ "ws" \in List /\ "ls" \in List /\ "fl" \in List
  BY Apart DEF IInv
<1>1. /\ n \in Nat /\ Items(mem, "ws") \in Seq(Node)
      /\ \A l \in List : Queues[l] = Items(mem, l)
  <2>1. Queues \in [List -> Seq(Node)] /\ \A l \in List : Queues[l] = Items(mem, l)
    BY <1>0, QueuesAre DEF Queues
  <2>2. Items(mem, "ws") \in Seq(Node)
    BY <1>0, <2>1
  <2> QED  BY <2>1, <2>2, MembersOfList
<1>2. PICK r : /\ r[0] = [mem |-> mem, job |-> job]
               /\ \A k \in 1 .. n : r[k] = FreedStep(r[k-1])
               /\ Released = r[n]
  BY <1>1, FreedRuns
<1> DEFINE Good == {k \in Nat : k <= n => \E g : Freed(k, r[k], g)}
<1>3. 0 \in Good
  <2>1. job \in [Node -> Job] /\ Ordered(Items(mem, "ls"), job)
    BY <1>0 DEF IInv, TypeOK
  <2>2. Freed(0, r[0], Queues)
    BY <1>0, <1>1, <1>2, <2>1 DEF Freed, On
  <2> QED  BY <2>2
<1>4. ASSUME NEW k \in Nat, k \in Good PROVE k + 1 \in Good
  <2> SUFFICES ASSUME k + 1 <= n PROVE \E g : Freed(k + 1, r[k + 1], g)
    OBVIOUS
  <2>1. k < n /\ k <= n /\ k + 1 \in 1 .. n /\ k + 1 - 1 = k
    BY <1>1
  <2>2. PICK g : Freed(k, r[k], g)
    BY <1>4, <2>1
  <2>3. r[k + 1] = FreedStep(r[k])
    BY <1>2, <2>1
  <2>4. CASE Releasable(r[k])
    <3>1. r[k + 1] = MoveJob(r[k])
      BY <2>3, <2>4 DEF FreedStep
    <3> QED  BY <1>0, <2>1, <2>2, <3>1, MoveKeeps
  <2>5. CASE ~Releasable(r[k])
    <3>1. r[k + 1] = r[k]
      BY <2>3, <2>5 DEF FreedStep
    <3>2. Len(g["ws"]) \in Nat
      <4>1. Lists(List, Node, r[k].mem, g)
        BY <2>2 DEF Freed
      <4>2. g["ws"] \in Seq(Node)
        BY <1>0, <4>1, QueuesAre
      <4> QED  BY <4>2, MembersOfList
    <3>3. Len(g["ws"]) + k >= n
      BY <2>2 DEF Freed
    <3>4. Len(g["ws"]) + (k + 1) >= n
      <4> DEFINE a == Len(g["ws"])
      <4>1. a \in Nat /\ n \in Nat /\ a + k >= n
        BY <1>1, <3>2, <3>3
      <4> HIDE DEF a, n
      <4>2. a + (k + 1) >= n
        BY <4>1
      <4> QED  BY <4>2 DEF a, n
    <3>5. Freed(k + 1, r[k], g)
      BY <2>2, <3>4 DEF Freed
    <3> QED  BY <3>1, <3>5
  <2> QED  BY <2>4, <2>5
<1> HIDE DEF Good
<1>5. n \in Good
  BY <1>1, <1>3, <1>4, Induction
<1> QED  BY <1>1, <1>2, <1>5 DEF Good

\* The lists after a step, if the memory represents some.
LEMMA QueuesNext ==
  ASSUME NEW g, Lists(List, Node, mem', g)
  PROVE  /\ Lists(List, Node, mem', Queues')
         /\ \A l \in List : Items(mem, l)' = g[l] /\ On(l)' = ToSet(g[l])
         /\ (DOMAIN mem.next = DOMAIN mem.prev)'
<1>1. /\ g = [l \in List |-> Items(mem', l)]
      /\ \A l \in List : Items(mem', l) = g[l]
      /\ DOMAIN mem'.next = DOMAIN mem'.prev
  BY QueuesAre
<1>2. Queues' = g
  BY <1>1 DEF Queues
<1> QED  BY <1>1, <1>2 DEF On

\* The lists now.
LEMMA QueuesNow ==
  ASSUME IInv
  PROVE  /\ Lists(List, Node, mem, Queues)
         /\ \A l \in List : /\ Items(mem, l) = Queues[l] /\ On(l) = ToSet(Queues[l])
                            /\ Queues[l] \in Seq(Node)
         /\ "ls" \in List /\ "ws" \in List /\ "fl" \in List
         /\ \A l \in List : l = "ls" \/ l = "ws" \/ l = "fl"
<1>1. Lists(List, Node, mem, Queues)
  BY DEF IInv
<1>2. Queues \in [List -> Seq(Node)] /\ \A l \in List : Items(mem, l) = Queues[l]
  BY <1>1, QueuesAre
<1> QED  BY <1>1, <1>2, Apart DEF On

-----------------------------------------------------------------------------
\* my_schedule keeps the executing vCPU, or idles, or takes the first of "ls".

Same(r, g) ==
  /\ Lists(List, Node, r.mem, g)
  /\ r.job \in [Node -> Job]
  /\ Ordered(g["ls"], r.job)
  /\ g["fl"] = Queues["fl"]
  /\ \A x \in Node : r.job[x].vcpu = job[x].vcpu
  /\ r.ins \in 0 .. Never

Kept(r, g) ==
  /\ Same(r, g)
  /\ r.pick = exec /\ r.end = end_event
  /\ ToSet(g["ls"]) \cup ToSet(g["ws"]) = On("ls") \cup On("ws")
  /\ \A x \in Node : r.job[x].start_time = job[x].start_time

Taken(r, g) ==
  /\ Same(r, g)
  /\ r.pick \in Waiting /\ r.end = BudgetEnd(r.pick)
  /\ ToSet(g["ls"]) \cup ToSet(g["ws"])
       = (On("ls") \cup On("ws")) \ {sched_state[r.pick]}
  /\ r.job[sched_state[r.pick]].start_time = now
  /\ \A x \in ToSet(g["ls"]) : r.job[sched_state[r.pick]].dead_line <= r.job[x].dead_line
  /\ exec # NULL /\ WithinBudget =>
       r.job[sched_state[exec]].dead_line <= r.job[sched_state[r.pick]].dead_line

\* A job given the CPU.
LEMMA Started ==
  ASSUME NEW e \in Job, NEW a \in 0 .. Long - 1
  PROVE  /\ [e EXCEPT !.start_time = a] \in Job
         /\ [e EXCEPT !.start_time = a].vcpu = e.vcpu
         /\ [e EXCEPT !.start_time = a].dead_line = e.dead_line
         /\ [e EXCEPT !.start_time = a].start_time = a
<1>1. PICK c, d, r, s : e = [vcpu |-> c, remained_time |-> r, dead_line |-> d, start_time |-> s]
  BY DEF Job
<1>2. c \in VCPU \cup {NULL} /\ r \in 0 .. Word - 1 /\ d \in 0 .. Long - 1
  BY <1>1 DEF Job
<1>3. e.vcpu = c /\ e.dead_line = d
  BY <1>1
<1>4. [e EXCEPT !.start_time = a]
        = [vcpu |-> c, remained_time |-> r, dead_line |-> d, start_time |-> a]
  BY ONLY <1>1
<1> QED  BY <1>2, <1>3, <1>4 DEF Job

LEMMA Scheduled ==
  ASSUME IInv
  PROVE  \E g : Kept(Schedule, g) \/ Taken(Schedule, g)
<1> DEFINE n == Len(Items(mem, "ws"))
           s == Released
           r == Schedule
           q == queue_list_top(s.mem, "ls")
           ins == IF queue_list_is_empty(s.mem, "ws") THEN Never
                  ELSE s.job[queue_list_top(s.mem, "ws")].dead_line
<1>0. IInv /\ "ls" \in List /\ "ws" \in List /\ "fl" \in List
  BY Apart
<1>1. PICK g : Freed(n, s, g)
  BY <1>0, ReleasedKeeps
<1> HIDE DEF n, s
<1>2. /\ Lists(List, Node, s.mem, g) /\ s.job \in [Node -> Job]
      /\ Ordered(g["ls"], s.job) /\ g["fl"] = Queues["fl"]
      /\ ToSet(g["ls"]) \cup ToSet(g["ws"]) = On("ls") \cup On("ws")
      /\ On("ls") \subseteq ToSet(g["ls"])
      /\ \A x \in Node : /\ s.job[x].vcpu = job[x].vcpu
                         /\ s.job[x].start_time = job[x].start_time
      /\ \A x \in Node \ On("ws") : s.job[x] = job[x]
  BY <1>1 DEF Freed
<1>3. /\ \A l \in List : g[l] \in Seq(Node)
      /\ \A l \in List : /\ queue_list_is_empty(s.mem, l) <=> g[l] = <<>>
                         /\ g[l] # <<>> => queue_list_top(s.mem, l) = g[l][1]
  BY <1>2, QueuesAre
<1>4. now \in 0 .. Long - 1 /\ now \in Nat /\ Never \in 0 .. Never
  BY <1>0, Dates DEF IInv, TypeOK
<1>5. ins \in 0 .. Never
  <2>1. CASE g["ws"] = <<>>
    BY <1>0, <1>3, <1>4, <2>1
  <2>2. CASE g["ws"] # <<>>
    <3>1. g["ws"][1] \in Node
      <4>1. Len(g["ws"]) \in Nat /\ Len(g["ws"]) >= 1
        BY <1>0, <1>3, <2>2, MembersOfList
      <4>2. 1 \in 1 .. Len(g["ws"])
        BY <4>1
      <4> QED  BY <1>0, <1>3, <4>2, MembersOfList
    <3>2. ins = s.job[g["ws"][1]].dead_line
      BY <1>0, <1>3, <2>2
    <3>3. \A x \in Node : s.job[x].dead_line \in 0 .. Never
      BY <1>2, Dates DEF Job
    <3> QED  BY <3>1, <3>2, <3>3
  <2> QED  BY <2>1, <2>2
<1>6. r = IF queue_list_is_empty(s.mem, "ls") \/ KeepExec(s.job, q)
          THEN [pick |-> exec, mem |-> s.mem, job |-> s.job, ins |-> ins, end |-> end_event]
          ELSE [pick |-> s.job[q].vcpu,
                mem  |-> queue_list_pop(s.mem, "ls"),
                job  |-> [s.job EXCEPT ![q].start_time = now],
                ins  |-> ins,
                end  |-> BudgetEnd(s.job[q].vcpu)]
  BY DEF Schedule, s
<1> HIDE DEF r, ins
<1>7. CASE queue_list_is_empty(s.mem, "ls") \/ KeepExec(s.job, q)
  <2>1. /\ r.pick = exec /\ r.mem = s.mem /\ r.job = s.job /\ r.ins = ins
        /\ r.end = end_event
    BY <1>6, <1>7
  <2>2. Kept(r, g)
    BY <1>2, <1>5, <2>1 DEF Kept, Same
  <2> QED  BY <2>2 DEF r
<1>8. CASE ~(queue_list_is_empty(s.mem, "ls") \/ KeepExec(s.job, q))
  <2>1. g["ls"] # <<>>
    BY <1>0, <1>3, <1>8
  <2>2. PICK h : Popped(s.mem, "ls", q, g, h)
    BY <1>0, <1>2, <2>1, PopKeeps
  <2> DEFINE v == s.job[q].vcpu
             j == [s.job EXCEPT ![q].start_time = now]
  <2>3. /\ r.pick = v /\ r.mem = queue_list_pop(s.mem, "ls") /\ r.job = j
        /\ r.ins = ins /\ r.end = BudgetEnd(v)
    BY <1>6, <1>8
  <2>4. /\ q \in Node /\ q \in ToSet(g["ls"])
        /\ Lists(List, Node, queue_list_pop(s.mem, "ls"), h)
        /\ h["ws"] = g["ws"] /\ h["fl"] = g["fl"]
        /\ ToSet(h["ls"]) = ToSet(g["ls"]) \ {q}
        /\ \A k \in List : q \notin ToSet(h[k])
        /\ Ordered(h["ls"], s.job)
        /\ \A x \in ToSet(g["ls"]) : s.job[q].dead_line <= s.job[x].dead_line
    BY <1>0, <1>2, <2>2, "ls" # "ws", "ls" # "fl" DEF Popped
  <2>5. v \in Waiting /\ v \in VCPU /\ sched_state[v] = q
    <3>1. q \in On("ls") \cup On("ws") /\ v = job[q].vcpu
      BY <1>2, <2>4
    <3> QED  BY <1>0, <3>1, Served
  <2>12. ASSUME exec # NULL, WithinBudget
         PROVE  s.job[sched_state[exec]].dead_line <= s.job[q].dead_line
    <3> DEFINE x == sched_state[exec]
               e == job[x]
    <3>1. exec \in VCPU /\ x \in Node /\ x \notin On("ws")
      <4>1. exec \in VCPU /\ state[exec] = "start" /\ x # NULL
        BY <1>0, <2>12 DEF IInv, TypeOK, Owned
      <4>2. exec \notin Waiting
        BY <4>1 DEF Waiting
      <4> QED  BY <1>0, <4>1, <4>2, Served
    <3>2. s.job[x] = e /\ e \in Job /\ s.job[q] \in Job
      BY <1>0, <1>2, <2>4, <3>1
    <3>3. e.start_time < Word /\ e.remained_time > now - e.start_time
      BY <2>12 DEF WithinBudget
    <3>4. e.start_time \in Nat /\ e.dead_line \in Nat /\ s.job[q].dead_line \in Nat
      BY <3>2, Dates DEF Job
    <3>5. e.start_time % Word = e.start_time
      <4> DEFINE t == e.start_time
      <4>1. t \in Nat /\ t < Word /\ Word \in Nat \ {0}
        BY <3>3, <3>4, Dates
      <4> HIDE DEF t
      <4>2. t % Word = t
        BY <4>1
      <4> QED  BY <4>2 DEF t
    <3>6. ~(e.dead_line > s.job[q].dead_line)
      <4>1. e.remained_time > Used(e)
        BY <3>3, <3>5 DEF Used
      <4>2. ~KeepExec(s.job, q)
        BY <1>8
      <4> QED  BY <2>12, <3>2, <4>1, <4>2 DEF KeepExec
    <3> QED  BY <3>2, <3>4, <3>6
  <2> HIDE DEF q
  <2>6. /\ j \in [Node -> Job]
        /\ \A x \in Node : /\ j[x].vcpu = s.job[x].vcpu
                           /\ j[x].dead_line = s.job[x].dead_line
        /\ j[q].start_time = now
    <3> DEFINE e == s.job[q]
               d == [e EXCEPT !.start_time = now]
    <3>1. e \in Job
      BY <1>2, <2>4
    <3>2. j = [s.job EXCEPT ![q] = d]
      BY <1>2, <2>4
    <3>3. d \in Job /\ d.vcpu = e.vcpu /\ d.dead_line = e.dead_line /\ d.start_time = now
      BY <1>4, <3>1, Started
    <3> HIDE DEF d, j
    <3> QED  BY <1>2, <2>4, <3>2, <3>3
  <2> HIDE DEF j, v
  <2>7. Ordered(h["ls"], j)
    <3>1. h["ls"] \in Seq(Node)
      BY <1>0, <2>4, QueuesAre
    <3>2. \A x \in ToSet(h["ls"]) : j[x].dead_line = s.job[x].dead_line
      BY <2>6, <3>1, MembersOfList
    <3> QED  BY <2>4, <3>1, <3>2, SameOrder
  <2>8. ToSet(h["ls"]) \cup ToSet(h["ws"]) = (On("ls") \cup On("ws")) \ {q}
    BY <1>0, <1>2, <2>4
  <2>9. \A x \in ToSet(h["ls"]) : j[q].dead_line <= j[x].dead_line
    <3>1. ToSet(h["ls"]) \subseteq ToSet(g["ls"]) /\ ToSet(g["ls"]) \subseteq Node
      BY <1>0, <1>3, <2>4, MembersOfList
    <3> QED  BY <2>4, <2>6, <3>1
  <2>13. exec # NULL /\ WithinBudget => j[sched_state[exec]].dead_line <= j[q].dead_line
    <3>1. exec # NULL => sched_state[exec] \in Node
      BY <1>0, Served DEF IInv, TypeOK, Owned
    <3> QED  BY <2>4, <2>6, <2>12, <3>1
  <2>10. Same(r, h)
    BY <1>2, <1>5, <2>3, <2>4, <2>6, <2>7 DEF Same
  <2>11. Taken(r, h)
    BY <2>3, <2>5, <2>6, <2>8, <2>9, <2>10, <2>13 DEF Taken
  <2> QED  BY <2>11 DEF r
<1> QED  BY <1>7, <1>8

-----------------------------------------------------------------------------
\* The steps of Next.

\* What the lemmas on the steps need of the invariant, by name.
LEMMA Facts ==
  ASSUME IInv
  PROVE  /\ pc \in {"guest", "sched", "idle"}
         /\ state \in [VCPU -> {"init", "wait", "start", "sleep"}]
         /\ exec \in VCPU \cup {NULL} /\ flag \in BOOLEAN
         /\ job \in [Node -> Job] /\ sched_state \in [VCPU -> Node \cup {NULL}]
         /\ end_event \in 0 .. Never /\ insert_event \in 0 .. Never
         /\ now \in 0 .. MaxTime /\ now \in Nat /\ preempted \in BOOLEAN
         /\ MaxTime \in Nat /\ Never \in 0 .. Never /\ Never > now
         /\ \A v \in VCPU : /\ exection_time[v] \in Nat
                            /\ sched_state[v] # NULL => job[sched_state[v]].vcpu = v
                            /\ state[v] = "start" <=> v = exec
                            /\ sched_state[v] \notin On("fl")
                            /\ state[v] \in {"start", "sleep"} => sched_state[v] \in Node
         /\ pc = "guest" => exec # NULL
         /\ Ordered(Items(mem, "ls"), job)
         /\ \A x \in Node : job[x].start_time \in Nat
         /\ NULL \notin VCPU
<1>1. /\ MaxTime \in Nat /\ NULL \notin VCPU /\ Never \in 0 .. Never
      /\ \A n \in 0 .. MaxTime : Never > n /\ n \in Nat
  BY EdfAssumption, Dates
<1>2. \A v \in VCPU : exection_time[v] \in Nat
  BY EdfAssumption, Dates
<1>3. TypeOK /\ Owned /\ (pc = "guest" => exec # NULL) /\ Ordered(Items(mem, "ls"), job)
  BY DEF IInv
<1>4. \A x \in Node : job[x].start_time \in Nat
  BY <1>3, Dates DEF TypeOK, Job
<1> QED  BY <1>1, <1>2, <1>3, <1>4 DEF TypeOK, Owned

\* The conjuncts of the invariant that are about the lists and their order.
LEMMA ListsNext ==
  ASSUME NEW g, Lists(List, Node, mem', g), Ordered(g["ls"], job')
  PROVE  /\ Lists(List, Node, mem', Queues') /\ Ordered(Items(mem, "ls"), job)'
         /\ (DOMAIN mem.next = DOMAIN mem.prev)'
         /\ \A l \in List : On(l)' = ToSet(g[l])
<1>1. "ls" \in List
  BY Apart
<1>2. Items(mem, "ls")' = g["ls"]
  BY <1>1, QueuesNext
<1> QED  BY <1>2, QueuesNext DEF Ordered

\* Steps that leave the lists alone.
LEMMA ListsStay ==
  ASSUME IInv, UNCHANGED <<mem, job>>
  PROVE  /\ Lists(List, Node, mem', Queues') /\ Ordered(Items(mem, "ls"), job)'
         /\ (DOMAIN mem.next = DOMAIN mem.prev)'
         /\ \A l \in List : On(l)' = On(l)
<1>1. /\ Lists(List, Node, mem, Queues) /\ Ordered(Items(mem, "ls"), job)
      /\ DOMAIN mem.next = DOMAIN mem.prev
  BY DEF IInv, TypeOK
<1> QED  BY <1>1 DEF Ordered, Queues, On

\* Steps that also leave the nodes of the vCPUs and who waits alone.
LEMMA NodesStay ==
  ASSUME IInv, UNCHANGED <<mem, job, sched_state>>,
         \A v \in VCPU : state'[v] = "wait" <=> state[v] = "wait",
         \A v \in VCPU : state'[v] = "start" <=> v = exec',
         \A v \in VCPU : state'[v] \in {"start", "sleep"} => state[v] \in {"start", "sleep"}
  PROVE  Owned'
<1>1. \A l \in List : On(l)' = On(l)
  BY ListsStay
<1>2. Waiting' = Waiting
  BY DEF Waiting
<1>3. (On("ls") \cup On("ws"))' = On("ls") \cup On("ws") /\ On("fl")' = On("fl")
  BY <1>1, Apart
<1>4. (On("ls") \cup On("ws"))' = {sched_state'[v] : v \in Waiting'}
  BY <1>2, <1>3 DEF IInv, Owned
<1>5. \A v \in VCPU : /\ sched_state'[v] # NULL => job'[sched_state'[v]].vcpu = v
                      /\ sched_state'[v] \notin On("fl")'
                      /\ state'[v] \in {"start", "sleep"} => sched_state'[v] # NULL
  BY <1>3 DEF IInv, Owned
<1> QED  BY <1>4, <1>5 DEF Owned

LEMMA YieldKeeps ==
  ASSUME IInv, GuestYield \/ OtherHandler
  PROVE  IInv'
<1>0. IInv
  OBVIOUS
<1>1. /\ pc' = "sched" /\ flag' \in BOOLEAN
      /\ UNCHANGED <<state, exec, mem, job, sched_state, end_event, insert_event, now, preempted>>
  BY Facts DEF GuestYield, OtherHandler, nodeVars, evVars
<1>2. /\ Lists(List, Node, mem', Queues') /\ Ordered(Items(mem, "ls"), job)'
      /\ (DOMAIN mem.next = DOMAIN mem.prev)' /\ \A l \in List : On(l)' = On(l)
  BY <1>0, <1>1, ListsStay
<1>3. TypeOK'
  BY <1>0, <1>1, <1>2 DEF IInv, TypeOK
<1>4. Owned'
  BY <1>0, <1>1, NodesStay, Facts
<1>5. Watched'
  BY <1>0, <1>1 DEF IInv, Watched
<1> QED  BY <1>1, <1>2, <1>3, <1>4, <1>5 DEF IInv

LEMMA ElapseKeeps ==
  ASSUME IInv, Elapse
  PROVE  IInv'
<1>0. IInv /\ Elapse
  OBVIOUS
<1>1. /\ now < MaxTime /\ now' = now + 1
      /\ UNCHANGED <<pc, state, exec, flag, mem, job, sched_state, end_event,
                     insert_event, preempted>>
  BY <1>0 DEF Elapse, nodeVars, evVars
<1>2. /\ Lists(List, Node, mem', Queues') /\ Ordered(Items(mem, "ls"), job)'
      /\ (DOMAIN mem.next = DOMAIN mem.prev)' /\ \A l \in List : On(l)' = On(l)
  BY <1>0, <1>1, ListsStay
<1>3. now' \in 0 .. MaxTime
  BY <1>0, <1>1, Facts
<1>4. TypeOK'
  BY <1>0, <1>1, <1>2, <1>3 DEF IInv, TypeOK
<1>5. Owned'
  BY <1>0, <1>1, NodesStay, Facts
<1>6. Watched'
  <2> SUFFICES ASSUME exec # NULL, ~preempted,
                      now + 1 < Date(job[sched_state[exec]].start_time + exection_time[exec])
               PROVE  end_event = Date(job[sched_state[exec]].start_time + exection_time[exec])
    BY <1>1 DEF Watched
  <2> DEFINE end == Date(job[sched_state[exec]].start_time + exection_time[exec])
  <2>1. end \in Nat /\ now \in Nat
    <3>1. exec \in VCPU /\ sched_state[exec] \in Node
      BY <1>0, Facts
    <3>2. job[sched_state[exec]].start_time + exection_time[exec] \in Nat
      BY <1>0, <3>1, Facts
    <3>3. end \in 0 .. Long - 1
      BY <3>2, Dates
    <3> QED  BY <1>0, <3>3, Facts, Dates
  <2>2. now < end
    <3> HIDE DEF end
    <3>1. now + 1 < end
      BY DEF end
    <3> QED  BY <2>1, <3>1
  <2> QED  BY <1>0, <2>2 DEF IInv, Watched
<1> QED  BY <1>0, <1>1, <1>2, <1>4, <1>5, <1>6 DEF IInv

LEMMA FiresKeeps ==
  ASSUME IInv, EventFires
  PROVE  IInv'
<1>0. IInv /\ EventFires
  OBVIOUS
<1>1. /\ pc' = "sched" /\ flag' = TRUE
      /\ UNCHANGED <<state, exec, mem, job, sched_state, now, preempted>>
      /\ \/ end_event <= now /\ end_event' = Never /\ insert_event' = insert_event
         \/ insert_event' = Never /\ end_event' = end_event
  BY <1>0 DEF EventFires, nodeVars
<1>2. /\ Lists(List, Node, mem', Queues') /\ Ordered(Items(mem, "ls"), job)'
      /\ (DOMAIN mem.next = DOMAIN mem.prev)' /\ \A l \in List : On(l)' = On(l)
  BY <1>0, <1>1, ListsStay
<1>3. TypeOK'
  <2>1. end_event' \in 0 .. Never /\ insert_event' \in 0 .. Never
    BY <1>0, <1>1, Facts
  <2> QED  BY <1>0, <1>1, <1>2, <2>1 DEF IInv, TypeOK
<1>4. Owned'
  BY <1>0, <1>1, NodesStay, Facts
<1>5. Watched'
  <2> SUFFICES ASSUME exec # NULL, ~preempted,
                      now < Date(job[sched_state[exec]].start_time + exection_time[exec])
               PROVE  end_event' = Date(job[sched_state[exec]].start_time + exection_time[exec])
    BY <1>1 DEF Watched
  <2> DEFINE end == Date(job[sched_state[exec]].start_time + exection_time[exec])
  <2>1. end_event = end
    BY <1>0 DEF IInv, Watched
  <2>2. end \in Nat /\ now \in Nat
    <3>1. exec \in VCPU /\ sched_state[exec] \in Node
      BY <1>0, Facts
    <3>2. job[sched_state[exec]].start_time + exection_time[exec] \in Nat
      BY <1>0, <3>1, Facts
    <3>3. end \in 0 .. Long - 1
      BY <3>2, Dates
    <3> QED  BY <1>0, <3>3, Facts, Dates
  <2>3. ~(end_event <= now)
    <3> HIDE DEF end
    <3>1. now < end
      BY DEF end
    <3> QED  BY <2>1, <2>2, <3>1
  <2> QED  BY <1>1, <2>1, <2>3
<1> QED  BY <1>1, <1>2, <1>3, <1>4, <1>5 DEF IInv

LEMMA SleepKeeps ==
  ASSUME IInv, GuestWfi
  PROVE  /\ IInv'
         /\ exec \in VCPU /\ state[exec] = "start"
<1>0. IInv /\ GuestWfi
  OBVIOUS
<1>1. /\ pc = "guest" /\ pc' = "sched" /\ flag' = TRUE /\ end_event' = Never
      /\ state' = [state EXCEPT ![exec] = "sleep"] /\ exec' = NULL
      /\ UNCHANGED <<mem, job, sched_state, insert_event, now, preempted>>
  BY <1>0 DEF GuestWfi, Sleep, nodeVars
<1>2. /\ Lists(List, Node, mem', Queues') /\ Ordered(Items(mem, "ls"), job)'
      /\ (DOMAIN mem.next = DOMAIN mem.prev)'
  BY <1>0, <1>1, ListsStay
<1>3. exec \in VCPU /\ state[exec] = "start"
  BY <1>0, <1>1, Facts
<1>4. TypeOK'
  BY <1>0, <1>1, <1>2, Facts DEF TypeOK
<1>5. \A v \in VCPU : state'[v] = IF v = exec THEN "sleep" ELSE state[v]
  BY <1>0, <1>1, Facts
<1>6. Owned'
  <2>1. \A v \in VCPU : /\ state'[v] = "wait" <=> state[v] = "wait"
                        /\ state'[v] = "start" <=> v = exec'
                        /\ state'[v] \in {"start", "sleep"} => state[v] \in {"start", "sleep"}
    BY <1>0, <1>1, <1>3, <1>5, Facts
  <2> QED  BY <1>0, <1>1, <2>1, NodesStay
<1>7. Watched'
  BY <1>1 DEF Watched
<1> QED  BY <1>1, <1>2, <1>3, <1>4, <1>6, <1>7 DEF IInv

LEMMA OffKeeps ==
  ASSUME IInv, CpuOff
  PROVE  /\ IInv'
         /\ exec \in VCPU /\ state[exec] = "start"
<1>0. IInv /\ CpuOff
  OBVIOUS
<1>1. /\ pc = "guest" /\ pc' = "sched"
      /\ state' = [state EXCEPT ![exec] = "init"] /\ exec' = NULL
      /\ UNCHANGED <<flag, mem, job, sched_state, end_event, insert_event, now, preempted>>
  BY <1>0 DEF CpuOff, nodeVars, evVars
<1>2. /\ Lists(List, Node, mem', Queues') /\ Ordered(Items(mem, "ls"), job)'
      /\ (DOMAIN mem.next = DOMAIN mem.prev)'
  BY <1>0, <1>1, ListsStay
<1>3. exec \in VCPU /\ state[exec] = "start"
  BY <1>0, <1>1, Facts
<1>4. TypeOK'
  BY <1>0, <1>1, <1>2, Facts DEF TypeOK
<1>5. \A v \in VCPU : state'[v] = IF v = exec THEN "init" ELSE state[v]
  BY <1>0, <1>1, Facts
<1>6. Owned'
  <2>1. \A v \in VCPU : /\ state'[v] = "wait" <=> state[v] = "wait"
                        /\ state'[v] = "start" <=> v = exec'
                        /\ state'[v] \in {"start", "sleep"} => state[v] \in {"start", "sleep"}
    BY <1>0, <1>1, <1>3, <1>5, Facts
  <2> QED  BY <1>0, <1>1, <2>1, NodesStay
<1>7. Watched'
  BY <1>1 DEF Watched
<1> QED  BY <1>1, <1>2, <1>3, <1>4, <1>6, <1>7 DEF IInv

-----------------------------------------------------------------------------
\* What the lists, the jobs and the nodes of the vCPUs have in common when the
\* vCPUs of W wait, at boot and in a handler.
World(s, g, W) ==
  /\ s = [mem |-> s.mem, job |-> s.job, sched |-> s.sched]
  /\ Lists(List, Node, s.mem, g)
  /\ s.job \in [Node -> Job] /\ s.sched \in [VCPU -> Node \cup {NULL}]
  /\ Ordered(g["ls"], s.job)
  /\ \A v \in VCPU : s.sched[v] # NULL => /\ s.job[s.sched[v]].vcpu = v
                                          /\ s.sched[v] \notin ToSet(g["fl"])
  /\ ToSet(g["ls"]) \cup ToSet(g["ws"])
       = {s.sched[v] : v \in {u \in W : s.sched[u] # NULL}}

Here == [mem |-> mem, job |-> job, sched |-> sched_state]

LEMMA WorldNow ==
  ASSUME IInv
  PROVE  World(Here, Queues, {v \in VCPU : state[v] = "wait"})
<1>1. Here.mem = mem /\ Here.job = job /\ Here.sched = sched_state
      /\ Here = [mem |-> Here.mem, job |-> Here.job, sched |-> Here.sched]
  BY DEF Here
<1>2. /\ Lists(List, Node, mem, Queues) /\ Items(mem, "ls") = Queues["ls"]
      /\ \A l \in {"ls", "ws", "fl"} : On(l) = ToSet(Queues[l])
  BY QueuesNow
<1>3. /\ job \in [Node -> Job] /\ sched_state \in [VCPU -> Node \cup {NULL}]
      /\ Ordered(Queues["ls"], job)
  BY <1>2, Facts
<1>4. \A v \in VCPU : sched_state[v] # NULL => /\ job[sched_state[v]].vcpu = v
                                              /\ sched_state[v] \notin ToSet(Queues["fl"])
  BY <1>2, Facts
<1>5. ToSet(Queues["ls"]) \cup ToSet(Queues["ws"])
        = {sched_state[v] : v \in {u \in {w \in VCPU : state[w] = "wait"} : sched_state[u] # NULL}}
  <2>1. {u \in {w \in VCPU : state[w] = "wait"} : sched_state[u] # NULL} = Waiting
    BY DEF Waiting
  <2>2. On("ls") \cup On("ws") = {sched_state[v] : v \in Waiting}
    BY DEF IInv, Owned
  <2> QED  BY <1>2, <2>1, <2>2
<1> HIDE DEF Here
<1> QED  BY <1>1, <1>2, <1>3, <1>4, <1>5 DEF World

LEMMA WorldNext ==
  ASSUME NEW s, NEW g, World(s, g, {v \in VCPU : state'[v] = "wait"}),
         mem' = s.mem, job' = s.job, sched_state' = s.sched,
         \A v \in VCPU : state'[v] = "start" <=> v = exec',
         \A v \in VCPU : state'[v] \in {"start", "sleep"} => sched_state'[v] # NULL
  PROVE  /\ Lists(List, Node, mem', Queues') /\ Ordered(Items(mem, "ls"), job)'
         /\ (DOMAIN mem.next = DOMAIN mem.prev)' /\ Owned'
         /\ job' \in [Node -> Job] /\ sched_state' \in [VCPU -> Node \cup {NULL}]
<1>1. /\ Lists(List, Node, mem', g) /\ Ordered(g["ls"], job')
      /\ job' \in [Node -> Job] /\ sched_state' \in [VCPU -> Node \cup {NULL}]
      /\ \A v \in VCPU : sched_state'[v] # NULL => /\ job'[sched_state'[v]].vcpu = v
                                                  /\ sched_state'[v] \notin ToSet(g["fl"])
      /\ ToSet(g["ls"]) \cup ToSet(g["ws"])
           = {sched_state'[v] : v \in {u \in {w \in VCPU : state'[w] = "wait"} :
                                         sched_state'[u] # NULL}}
  BY DEF World
<1>2. /\ Lists(List, Node, mem', Queues') /\ Ordered(Items(mem, "ls"), job)'
      /\ (DOMAIN mem.next = DOMAIN mem.prev)' /\ \A l \in List : On(l)' = ToSet(g[l])
  BY <1>1, ListsNext
<1>3. Waiting' = {u \in {w \in VCPU : state'[w] = "wait"} : sched_state'[u] # NULL}
  BY DEF Waiting
<1>4. (On("ls") \cup On("ws"))' = {sched_state'[v] : v \in Waiting'}
  BY <1>1, <1>2, <1>3, Apart
<1>5. NULL \notin ToSet(g["fl"])
  <2>1. g["fl"] \in Seq(Node)
    BY <1>1, QueuesAre, Apart
  <2> QED  BY <2>1, MembersOfList, Apart
<1>6. \A v \in VCPU : /\ sched_state'[v] # NULL => job'[sched_state'[v]].vcpu = v
                      /\ sched_state'[v] \notin On("fl")'
  BY <1>1, <1>2, <1>5, Apart
<1>7. Owned'
  BY <1>4, <1>6 DEF Owned
<1> QED  BY <1>1, <1>2, <1>7

\* list_enque of the node of a vCPU that did not wait.
LEMMA Joins ==
  ASSUME NEW s, NEW g, NEW W \in SUBSET VCPU, World(s, g, W),
         NEW v \in VCPU, v \notin W, s.sched[v] # NULL,
         NEW l \in {"ls", "ws"},
         NEW m, m = list_enque(s.mem, s.job, l, s.sched[v])
  PROVE  \E h : World([mem |-> m, job |-> s.job, sched |-> s.sched], h, W \cup {v})
<1> DEFINE q == s.sched[v]
           z == [mem |-> m, job |-> s.job, sched |-> s.sched]
<1>1. /\ Lists(List, Node, s.mem, g)
      /\ s.job \in [Node -> Job] /\ s.sched \in [VCPU -> Node \cup {NULL}]
      /\ Ordered(g["ls"], s.job)
      /\ \A u \in VCPU : s.sched[u] # NULL => /\ s.job[s.sched[u]].vcpu = u
                                              /\ s.sched[u] \notin ToSet(g["fl"])
      /\ ToSet(g["ls"]) \cup ToSet(g["ws"])
           = {s.sched[u] : u \in {w \in W : s.sched[w] # NULL}}
  BY DEF World
<1>2. /\ "fl" \in List /\ "ls" \in List /\ "ws" \in List /\ "fl" # "ls" /\ "fl" # "ws"
      /\ "ls" # "ws" /\ l \in List /\ (l = "ls" \/ l = "ws")
      /\ \A k \in List : k = "ls" \/ k = "ws" \/ k = "fl"
  BY Apart
<1>3. q \in Node
  BY <1>1
<1>4. \A k \in List : q \notin ToSet(g[k])
  <2>1. q \notin ToSet(g["ls"]) \cup ToSet(g["ws"])
    <3> SUFFICES ASSUME q \in ToSet(g["ls"]) \cup ToSet(g["ws"]) PROVE FALSE
      OBVIOUS
    <3>1. PICK u \in W : s.sched[u] # NULL /\ q = s.sched[u]
      BY <1>1
    <3>2. s.job[q].vcpu = u /\ s.job[q].vcpu = v
      BY <1>1, <3>1
    <3> QED  BY <3>1, <3>2
  <2>2. q \notin ToSet(g["fl"])
    BY <1>1
  <2> QED  BY <1>2, <2>1, <2>2
<1> HIDE DEF q
<1>5. PICK h : Enlisted(s.mem, s.job, l, q, g, h)
  BY <1>1, <1>2, <1>3, <1>4, EnqueKeeps
<1>6. /\ Lists(List, Node, m, h)
      /\ \A k \in List \ {l} : h[k] = g[k]
      /\ ToSet(h[l]) = ToSet(g[l]) \cup {q}
      /\ Ordered(g[l], s.job) => Ordered(h[l], s.job)
  BY <1>5 DEF Enlisted, q
<1>7. /\ h["fl"] = g["fl"]
      /\ ToSet(h["ls"]) \cup ToSet(h["ws"]) = (ToSet(g["ls"]) \cup ToSet(g["ws"])) \cup {q}
  BY <1>2, <1>6
<1>8. Ordered(h["ls"], s.job)
  BY <1>1, <1>2, <1>6
<1>9. {s.sched[u] : u \in {w \in W \cup {v} : s.sched[w] # NULL}}
        = {s.sched[u] : u \in {w \in W : s.sched[w] # NULL}} \cup {q}
  <2>1. {w \in W \cup {v} : s.sched[w] # NULL} = {w \in W : s.sched[w] # NULL} \cup {v}
    OBVIOUS
  <2>2. {s.sched[u] : u \in {w \in W : s.sched[w] # NULL} \cup {v}}
          = {s.sched[u] : u \in {w \in W : s.sched[w] # NULL}} \cup {q}
    BY DEF q
  <2> QED  BY <2>1, <2>2
<1>10. ToSet(h["ls"]) \cup ToSet(h["ws"])
         = {s.sched[u] : u \in {w \in W \cup {v} : s.sched[w] # NULL}}
  BY <1>1, <1>7, <1>9
<1>11. z.mem = m /\ z.job = s.job /\ z.sched = s.sched
       /\ z = [mem |-> z.mem, job |-> z.job, sched |-> z.sched]
  OBVIOUS
<1> HIDE DEF z
<1>12. World(z, h, W \cup {v})
  BY <1>1, <1>6, <1>7, <1>8, <1>10, <1>11 DEF World
<1> QED  BY <1>12 DEF z

\* my_enque, of NULL too.
LEMMA EnquedKeeps ==
  ASSUME NEW s, NEW g, NEW W \in SUBSET VCPU, World(s, g, W), NEW v \in VCPU, v \notin W
  PROVE  /\ \E h : World(Enqued(s, v), h, W \cup {v})
         /\ Enqued(s, v).job = s.job /\ Enqued(s, v).sched = s.sched
<1>1. s = [mem |-> s.mem, job |-> s.job, sched |-> s.sched]
  BY DEF World
<1>2. CASE s.sched[v] = NULL
  <2>1. Enqued(s, v) = s
    BY <1>2 DEF Enqued
  <2>2. {u \in W \cup {v} : s.sched[u] # NULL} = {u \in W : s.sched[u] # NULL}
    BY <1>2
  <2>3. World(s, g, W \cup {v})
    BY <2>2 DEF World
  <2> QED  BY <2>1, <2>3
<1>3. CASE s.sched[v] # NULL
  <2> DEFINE m == list_enque(s.mem, s.job, "ls", s.sched[v])
             z == [mem |-> m, job |-> s.job, sched |-> s.sched]
  <2>1. \E h : World(z, h, W \cup {v})
    BY <1>3, Joins
  <2>2. Enqued(s, v) = [s EXCEPT !.mem = m]
    BY <1>3 DEF Enqued
  <2> HIDE DEF m
  <2>3. Enqued(s, v) = z
    BY ONLY <1>1, <2>2
  <2> QED  BY <2>1, <2>3
<1> QED  BY <1>2, <1>3

\* my_allocate for a vCPU that does not wait; the node it had is lost.
LEMMA AllocKeeps ==
  ASSUME NEW s, NEW g, NEW W \in SUBSET VCPU, World(s, g, W), NEW v \in VCPU, v \notin W
  PROVE  /\ \E h : World(Allocated(s, v), h, W)
         /\ \A u \in VCPU \ {v} : Allocated(s, v).sched[u] = s.sched[u]
         /\ \A x \in Node : Allocated(s, v).job[x].start_time = s.job[x].start_time
<1> DEFINE q == queue_list_top(s.mem, "fl")
           p == queue_list_pop(s.mem, "fl")
           first == IF period[v] # 0 THEN Date(first_time[v] + period[v]) ELSE Forever
           b == exection_time[v]
           j == [s.job EXCEPT ![q].vcpu = v, ![q].dead_line = first, ![q].remained_time = b]
           z == Allocated(s, v)
<1>0. /\ s = [mem |-> s.mem, job |-> s.job, sched |-> s.sched]
      /\ Lists(List, Node, s.mem, g)
      /\ s.job \in [Node -> Job] /\ s.sched \in [VCPU -> Node \cup {NULL}]
      /\ Ordered(g["ls"], s.job)
      /\ \A u \in VCPU : s.sched[u] # NULL => /\ s.job[s.sched[u]].vcpu = u
                                              /\ s.sched[u] \notin ToSet(g["fl"])
      /\ ToSet(g["ls"]) \cup ToSet(g["ws"])
           = {s.sched[u] : u \in {w \in W : s.sched[w] # NULL}}
  BY DEF World
<1>1. /\ "fl" \in List /\ "ls" \in List /\ "ws" \in List /\ "fl" # "ls" /\ "fl" # "ws"
      /\ "ls" # "ws"
  BY Apart
<1>2. queue_list_is_empty(s.mem, "fl") <=> g["fl"] = <<>>
  BY <1>0, <1>1, QueuesAre
<1>3. \A c \in [VCPU -> Node \cup {NULL}] :
        (\A u \in VCPU \ {v} : c[u] = s.sched[u]) =>
          {c[u] : u \in {w \in W : c[w] # NULL}}
            = {s.sched[u] : u \in {w \in W : s.sched[w] # NULL}}
  <2> SUFFICES ASSUME NEW c \in [VCPU -> Node \cup {NULL}],
                      \A u \in VCPU \ {v} : c[u] = s.sched[u]
               PROVE  {c[u] : u \in {w \in W : c[w] # NULL}}
                        = {s.sched[u] : u \in {w \in W : s.sched[w] # NULL}}
    OBVIOUS
  <2>1. \A u \in W : c[u] = s.sched[u]
    OBVIOUS
  <2> QED  BY <2>1
<1>4. CASE g["fl"] = <<>>
  <2> DEFINE c == [s.sched EXCEPT ![v] = NULL]
  <2>1. z = [s EXCEPT !.sched[v] = NULL]
    BY <1>2, <1>4 DEF Allocated
  <2>2. z = [mem |-> s.mem, job |-> s.job, sched |-> c]
    <3> HIDE DEF z
    <3> QED  BY ONLY <1>0, <2>1
  <2>3. /\ c \in [VCPU -> Node \cup {NULL}] /\ c[v] = NULL
        /\ \A u \in VCPU \ {v} : c[u] = s.sched[u]
    BY <1>0
  <2>4. {c[u] : u \in {w \in W : c[w] # NULL}}
          = {s.sched[u] : u \in {w \in W : s.sched[w] # NULL}}
    BY <1>3, <2>3
  <2> HIDE DEF c, z
  <2>5. z.mem = s.mem /\ z.job = s.job /\ z.sched = c
        /\ z = [mem |-> z.mem, job |-> z.job, sched |-> z.sched]
    BY <2>2
  <2>6. \A u \in VCPU : c[u] # NULL => s.job[c[u]].vcpu = u /\ c[u] \notin ToSet(g["fl"])
    BY <1>0, <2>3
  <2>7. World(z, g, W)
    BY <1>0, <2>3, <2>4, <2>5, <2>6 DEF World
  <2> QED  BY <2>3, <2>5, <2>7 DEF z
<1>5. CASE g["fl"] # <<>>
  <2> DEFINE c == [s.sched EXCEPT ![v] = q]
  <2>1. z = [mem |-> p, job |-> j, sched |-> c]
    BY <1>2, <1>5 DEF Allocated
  <2>2. PICK f : Popped(s.mem, "fl", q, g, f)
    BY <1>0, <1>1, <1>5, PopKeeps
  <2>3. /\ q \in Node /\ q \in ToSet(g["fl"]) /\ Lists(List, Node, p, f)
        /\ f["ls"] = g["ls"] /\ f["ws"] = g["ws"]
        /\ ToSet(f["fl"]) = ToSet(g["fl"]) \ {q}
        /\ \A l \in List : q \notin ToSet(f[l])
    BY <1>1, <2>2 DEF Popped
  <2> HIDE DEF q, p
  <2>4. first \in 0 .. Long - 1 /\ b \in 0 .. Word - 1
    <3>1. first_time[v] \in Nat /\ period[v] \in Nat /\ b \in 0 .. Word - 1
      BY EdfAssumption, Dates
    <3>2. Date(first_time[v] + period[v]) \in 0 .. Long - 1
      BY <3>1, Dates
    <3> QED  BY <3>1, <3>2, Dates
  <2> HIDE DEF first, b
  <2>5. /\ j \in [Node -> Job] /\ j[q].vcpu = v
        /\ \A x \in Node \ {q} : j[x] = s.job[x]
        /\ \A x \in Node : j[x].start_time = s.job[x].start_time
    <3> DEFINE e == s.job[q]
               d == [e EXCEPT !.vcpu = v, !.dead_line = first, !.remained_time = b]
    <3>1. e \in Job
      BY <1>0, <2>3
    <3>2. j = [s.job EXCEPT ![q] = d]
      BY <1>0, <2>3
    <3> HIDE DEF j, e
    <3>3. d \in Job /\ d.vcpu = v /\ d.start_time = e.start_time
      <4>2. d = [e EXCEPT !.vcpu = v, !.dead_line = first, !.remained_time = b]
        OBVIOUS
      <4> HIDE DEF d
      <4>3. PICK u, a, r, o : e = [vcpu |-> u, remained_time |-> r, dead_line |-> a, start_time |-> o]
        BY <3>1 DEF Job
      <4>4. o \in 0 .. Long - 1
        BY <3>1, <4>3 DEF Job
      <4>5. d = [vcpu |-> v, remained_time |-> b, dead_line |-> first, start_time |-> o]
        BY ONLY <4>2, <4>3
      <4>6. d.vcpu = v /\ d.start_time = o /\ e.start_time = o
        BY ONLY <4>3, <4>5
      <4>7. d \in Job
        BY <2>4, <4>4, <4>5 DEF Job
      <4> QED  BY <4>6, <4>7
    <3> HIDE DEF d
    <3> QED  BY <1>0, <2>3, <3>2, <3>3 DEF e
  <2> HIDE DEF j
  <2>6. /\ c \in [VCPU -> Node \cup {NULL}] /\ c[v] = q
        /\ \A u \in VCPU \ {v} : c[u] = s.sched[u]
    BY <1>0, <2>3
  <2>7. {c[u] : u \in {w \in W : c[w] # NULL}}
          = {s.sched[u] : u \in {w \in W : s.sched[w] # NULL}}
    BY <1>3, <2>6
  <2> HIDE DEF c, z
  <2>8. z.mem = p /\ z.job = j /\ z.sched = c
        /\ z = [mem |-> z.mem, job |-> z.job, sched |-> z.sched]
    BY <2>1
  <2>9. \A u \in VCPU : c[u] # NULL => j[c[u]].vcpu = u /\ c[u] \notin ToSet(f["fl"])
    <3> SUFFICES ASSUME NEW u \in VCPU, c[u] # NULL
                 PROVE  j[c[u]].vcpu = u /\ c[u] \notin ToSet(f["fl"])
      OBVIOUS
    <3>1. CASE u = v
      BY <1>1, <2>3, <2>5, <2>6, <3>1
    <3>2. CASE u # v
      <4>1. c[u] = s.sched[u] /\ c[u] \in Node /\ c[u] \notin ToSet(g["fl"])
            /\ s.job[c[u]].vcpu = u
        BY <1>0, <2>6, <3>2
      <4> QED  BY <2>3, <2>5, <4>1
    <3> QED  BY <3>1, <3>2
  <2>10. Ordered(f["ls"], j)
    <3>1. g["ls"] \in Seq(Node)
      BY <1>0, <1>1, QueuesAre
    <3>2. \A x \in ToSet(g["ls"]) : x \in Node \ {q}
      BY <1>1, <2>3, <3>1, MembersOfList
    <3>3. \A x \in ToSet(g["ls"]) : j[x].dead_line = s.job[x].dead_line
      BY <2>5, <3>2
    <3>4. Ordered(g["ls"], j)
      BY <1>0, <3>1, <3>3, SameOrder
    <3> QED  BY <2>3, <3>4
  <2>11. World(z, f, W)
    BY <1>0, <2>3, <2>5, <2>6, <2>7, <2>8, <2>9, <2>10 DEF World
  <2> QED  BY <2>5, <2>6, <2>8, <2>11 DEF z
<1> QED  BY <1>4, <1>5

\* Several vCPUs are woken one after the other.
WakeStep(m, k, W) ==
  IF k - 1 \in W
    THEN LET q == sched_state[k-1] IN list_enque(m, job, ListFor(job, q), q)
  ELSE m

IsWoken(n, W, r) == r = [k \in 0 .. n |-> IF k = 0 THEN mem ELSE WakeStep(r[k-1], k, W)]

LEMMA WokenExists ==
  ASSUME NEW n \in Nat, NEW W
  PROVE  \E r : IsWoken(n, W, r)
<1> DEFINE Good == {k \in Nat : \E r : IsWoken(k, W, r)}
<1>1. 0 \in Good
  <2>1. IsWoken(0, W, [k \in 0 .. 0 |-> mem])
    BY DEF IsWoken
  <2> QED  BY <2>1
<1>2. ASSUME NEW k \in Nat, k \in Good PROVE k + 1 \in Good
  <2>1. PICK r : IsWoken(k, W, r)
    BY <1>2
  <2> DEFINE u == [j \in 0 .. k + 1 |-> IF j = k + 1 THEN WakeStep(r[k], k + 1, W) ELSE r[j]]
  <2>2. \A j \in 0 .. k + 1 : u[j] = IF j = 0 THEN mem ELSE WakeStep(u[j-1], j, W)
    BY <2>1 DEF IsWoken
  <2>3. IsWoken(k + 1, W, u)
    BY <2>2 DEF IsWoken
  <2> HIDE DEF u
  <2> QED  BY <2>3
<1> HIDE DEF Good
<1>3. n \in Good
  BY <1>1, <1>2, Induction
<1> QED  BY <1>3 DEF Good

LEMMA WokenRuns ==
  ASSUME NEW n \in Nat, n = Cardinality(VCPU), NEW W
  PROVE  \E r : /\ r[0] = mem
                /\ \A k \in 1 .. n : r[k] = WakeStep(r[k-1], k, W)
                /\ Woken(W) = r[n]
<1> DEFINE r == CHOOSE u : IsWoken(n, W, u)
<1>1. Woken(W) = r[n]
  BY DEF Woken, IsWoken, WakeStep
<1>2. IsWoken(n, W, r)
  BY WokenExists
<1> HIDE DEF r
<1>3. \A k \in 0 .. n : r[k] = IF k = 0 THEN mem ELSE WakeStep(r[k-1], k, W)
  BY <1>2 DEF IsWoken
<1>4. 0 \in 0 .. n /\ \A k \in 1 .. n : k \in 0 .. n /\ k # 0
  OBVIOUS
<1> QED  BY <1>1, <1>3, <1>4

\* Those that wait after k turns.
WaitAfter(k, W) == {v \in VCPU : state[v] = "wait" \/ (v \in W /\ v < k)}

LEMMA WokenKeeps ==
  ASSUME IInv, NEW W \in SUBSET VCPU, \A v \in W : state[v] = "sleep"
  PROVE  \E g : World([mem |-> Woken(W), job |-> job, sched |-> sched_state], g,
                      {v \in VCPU : state[v] = "wait" \/ v \in W})
<1> DEFINE n == Cardinality(VCPU)
           at(m) == [mem |-> m, job |-> job, sched |-> sched_state]
<1>0. IInv
  OBVIOUS
<1>1. VCPU = 0 .. n - 1 /\ n \in Nat
  BY EdfAssumption, FS_CardinalityType
<1> HIDE DEF n
<1>2. PICK r : /\ r[0] = mem
               /\ \A k \in 1 .. n : r[k] = WakeStep(r[k-1], k, W)
               /\ Woken(W) = r[n]
  BY <1>1, WokenRuns DEF n
<1> DEFINE Good == {k \in Nat : k <= n => \E g : World(at(r[k]), g, WaitAfter(k, W))}
<1>3. 0 \in Good
  <2>1. \A v \in VCPU : ~(v < 0)
    BY <1>1
  <2>2. WaitAfter(0, W) = {v \in VCPU : state[v] = "wait"}
    BY <2>1 DEF WaitAfter
  <2>3. World(at(r[0]), Queues, WaitAfter(0, W))
    BY <1>0, <1>2, <2>2, WorldNow DEF Here
  <2> HIDE DEF at
  <2> QED  BY <2>3
<1>4. ASSUME NEW k \in Nat, k \in Good PROVE k + 1 \in Good
  <2> SUFFICES ASSUME k + 1 <= n PROVE \E g : World(at(r[k + 1]), g, WaitAfter(k + 1, W))
    OBVIOUS
  <2>1. k <= n /\ k + 1 \in 1 .. n /\ k + 1 - 1 = k /\ k \in VCPU
    BY <1>1
  <2>2. PICK g : World(at(r[k]), g, WaitAfter(k, W))
    BY <1>4, <2>1
  <2>3. r[k + 1] = WakeStep(r[k], k + 1, W)
    BY <1>2, <2>1
  <2>4. CASE k \notin W
    <3>1. r[k + 1] = r[k]
      BY <2>1, <2>3, <2>4 DEF WakeStep
    <3>2. \A v \in W : v < k + 1 <=> v < k
      BY <1>1, <2>4
    <3>3. WaitAfter(k + 1, W) = WaitAfter(k, W)
      BY <3>2 DEF WaitAfter
    <3> HIDE DEF at
    <3> QED  BY <2>2, <3>1, <3>3
  <2>5. CASE k \in W
    <3> DEFINE q == sched_state[k]
               l == ListFor(job, q)
               s == at(r[k])
    <3>1. r[k + 1] = list_enque(r[k], job, l, q)
      BY <2>1, <2>3, <2>5 DEF WakeStep
    <3>2. state[k] = "sleep" /\ q # NULL
      BY <1>0, <2>1, <2>5 DEF IInv, Owned
    <3>3. k \notin WaitAfter(k, W) /\ WaitAfter(k, W) \in SUBSET VCPU
      BY <3>2 DEF WaitAfter
    <3>4. s.mem = r[k] /\ s.job = job /\ s.sched = sched_state /\ l \in {"ls", "ws"}
      BY DEF ListFor
    <3>5. World(s, g, WaitAfter(k, W))
      BY <2>2
    <3> HIDE DEF s, l
    <3>6. \E h : World([mem |-> r[k + 1], job |-> s.job, sched |-> s.sched], h,
                       WaitAfter(k, W) \cup {k})
      BY <2>1, <3>1, <3>2, <3>3, <3>4, <3>5, Joins
    <3>7. \A v \in VCPU : v < k + 1 <=> v < k \/ v = k
      BY <1>1
    <3>8. WaitAfter(k + 1, W) = WaitAfter(k, W) \cup {k}
      BY <2>1, <2>5, <3>7 DEF WaitAfter
    <3> QED  BY <3>4, <3>6, <3>8
  <2> QED  BY <2>4, <2>5
<1> HIDE DEF Good
<1>5. n \in Good
  BY <1>1, <1>3, <1>4, Induction
<1>6. PICK g : World(at(r[n]), g, WaitAfter(n, W))
  BY <1>1, <1>5 DEF Good
<1>7. WaitAfter(n, W) = {v \in VCPU : state[v] = "wait" \/ v \in W}
  <2>1. \A v \in VCPU : v < n
    BY <1>1
  <2> QED  BY <2>1 DEF WaitAfter
<1> QED  BY <1>2, <1>6, <1>7

LEMMA WakeupKeeps ==
  ASSUME IInv, NEW W \in SUBSET VCPU, Wakeup(W)
  PROVE  IInv'
<1>0. IInv /\ Wakeup(W)
  OBVIOUS
<1>1. /\ pc \in {"guest", "idle"} /\ pc' = "sched" /\ flag' = TRUE
      /\ \A v \in W : state[v] = "sleep"
      /\ mem' = Woken(W)
      /\ state' = [v \in VCPU |-> IF v \in W THEN "wait" ELSE state[v]]
      /\ UNCHANGED <<exec, job, sched_state, end_event, insert_event, now, preempted>>
  BY <1>0 DEF Wakeup, evVars
<1> DEFINE s == [mem |-> Woken(W), job |-> job, sched |-> sched_state]
<1>2. s.mem = mem' /\ s.job = job' /\ s.sched = sched_state'
  BY <1>1
<1>3. \A v \in VCPU : state'[v] = IF v \in W THEN "wait" ELSE state[v]
  BY <1>1
<1>4. {v \in VCPU : state'[v] = "wait"} = {v \in VCPU : state[v] = "wait" \/ v \in W}
  BY <1>3
<1>5. PICK g : World(s, g, {v \in VCPU : state'[v] = "wait"})
  BY <1>0, <1>1, <1>4, WokenKeeps
<1> HIDE DEF s
<1>6. \A v \in VCPU : /\ state'[v] = "start" <=> v = exec'
                      /\ state'[v] \in {"start", "sleep"} => sched_state'[v] # NULL
  <2>1. \A v \in VCPU : /\ state[v] = "start" <=> v = exec
                        /\ state[v] \in {"start", "sleep"} => sched_state[v] # NULL
    BY <1>0 DEF IInv, Owned
  <2> QED  BY <1>1, <1>3, <2>1
<1>7. /\ Lists(List, Node, mem', Queues') /\ Ordered(Items(mem, "ls"), job)'
      /\ (DOMAIN mem.next = DOMAIN mem.prev)' /\ Owned'
  BY <1>2, <1>5, <1>6, WorldNext
<1>8. TypeOK'
  BY <1>0, <1>1, <1>7, Facts DEF TypeOK
<1>9. Watched'
  BY <1>0, <1>1 DEF IInv, Watched
<1> QED  BY <1>1, <1>7, <1>8, <1>9 DEF IInv

LEMMA OnKeeps ==
  ASSUME IInv, NEW v \in VCPU, CpuOn(v)
  PROVE  IInv'
<1>0. IInv /\ CpuOn(v)
  OBVIOUS
<1> DEFINE a == Allocated(Here, v)
           s == Enqued(a, v)
           W == {u \in VCPU : state[u] = "wait"}
<1>1. /\ pc = "guest" /\ pc' = "sched" /\ state[v] = "init"
      /\ mem' = s.mem /\ job' = s.job /\ sched_state' = s.sched
      /\ state' = [state EXCEPT ![v] = "wait"]
      /\ UNCHANGED <<exec, flag, end_event, insert_event, now, preempted>>
  BY <1>0 DEF CpuOn, Here, evVars
<1>2. World(Here, Queues, W) /\ v \notin W /\ W \in SUBSET VCPU
  BY <1>0, <1>1, WorldNow
<1>3. Here.sched = sched_state /\ Here.job = job
  BY DEF Here
<1> HIDE DEF W
<1>4. /\ \E g : World(a, g, W)
      /\ \A u \in VCPU \ {v} : a.sched[u] = sched_state[u]
      /\ \A x \in Node : a.job[x].start_time = job[x].start_time
  BY <1>2, <1>3, AllocKeeps
<1> HIDE DEF a
<1>5. (\E g : World(s, g, W \cup {v})) /\ s.job = a.job /\ s.sched = a.sched
  BY <1>2, <1>4, EnquedKeeps
<1> HIDE DEF s
<1>6. \A u \in VCPU : state'[u] = IF u = v THEN "wait" ELSE state[u]
  BY <1>0, <1>1, Facts
<1>7. W \cup {v} = {u \in VCPU : state'[u] = "wait"}
  BY <1>6 DEF W
<1>8. PICK g : World(s, g, {u \in VCPU : state'[u] = "wait"})
  BY <1>5, <1>7
<1>9. \A u \in VCPU : /\ state'[u] = "start" <=> u = exec'
                      /\ state'[u] \in {"start", "sleep"} => sched_state'[u] # NULL
  <2>1. \A u \in VCPU : /\ state[u] = "start" <=> u = exec
                        /\ state[u] \in {"start", "sleep"} => sched_state[u] # NULL
    BY <1>0 DEF IInv, Owned
  <2>2. \A u \in VCPU \ {v} : sched_state'[u] = sched_state[u]
    BY <1>1, <1>4, <1>5
  <2> QED  BY <1>1, <1>6, <2>1, <2>2
<1>10. /\ Lists(List, Node, mem', Queues') /\ Ordered(Items(mem, "ls"), job)'
       /\ (DOMAIN mem.next = DOMAIN mem.prev)' /\ Owned'
       /\ job' \in [Node -> Job] /\ sched_state' \in [VCPU -> Node \cup {NULL}]
  BY <1>1, <1>8, <1>9, WorldNext
<1>11. TypeOK'
  BY <1>0, <1>1, <1>10, Facts DEF TypeOK
<1>12. Watched'
  <2>1. exec # NULL => /\ exec \in VCPU \ {v} /\ sched_state[exec] \in Node
    BY <1>0, <1>1, Facts
  <2>2. exec # NULL => /\ sched_state'[exec] = sched_state[exec]
                       /\ job'[sched_state[exec]].start_time = job[sched_state[exec]].start_time
    BY <1>1, <1>4, <1>5, <2>1
  <2> QED  BY <1>0, <1>1, <2>2 DEF IInv, Watched
<1> QED  BY <1>1, <1>10, <1>11, <1>12 DEF IInv

-----------------------------------------------------------------------------
\* my_block charges the time used, modulo the width of the counter.
LEMMA Charge ==
  ASSUME NEW j \in [Node -> Job], NEW q \in Node, now \in Nat
  PROVE  /\ Charged(j, q) \in [Node -> Job]
         /\ \A x \in Node : /\ Charged(j, q)[x].vcpu = j[x].vcpu
                            /\ Charged(j, q)[x].dead_line = j[x].dead_line
<1> DEFINE e == j[q]
           left == (e.remained_time + Word - ((now - e.start_time) % Word)) % Word
           d == [e EXCEPT !.remained_time = left]
           c == Charged(j, q)
<1>1. e \in Job /\ e.remained_time \in Nat /\ e.start_time \in Nat
  BY Dates DEF Job
<1>2. left \in 0 .. Word - 1
  <2> DEFINE t == (now - e.start_time) % Word
             a == e.remained_time + Word - t
  <2>1. Word \in Nat \ {0}
    BY EdfAssumption
  <2>2. a \in Int
    <3>1. now - e.start_time \in Int
      BY <1>1
    <3>2. t \in 0 .. Word - 1
      BY <2>1, <3>1
    <3> HIDE DEF t
    <3> QED  BY <1>1, <2>1, <3>2
  <2> HIDE DEF a
  <2>3. a % Word \in 0 .. Word - 1
    BY <2>1, <2>2
  <2> QED  BY <2>3 DEF a
<1>3. c = [j EXCEPT ![q] = d]
  BY DEF Charged
<1> HIDE DEF left, e
<1>4. d \in Job /\ d.vcpu = e.vcpu /\ d.dead_line = e.dead_line
  <2>1. PICK u, b, r, s : e = [vcpu |-> u, remained_time |-> r, dead_line |-> b, start_time |-> s]
    BY <1>1 DEF Job
  <2>2. u \in VCPU \cup {NULL} /\ b \in 0 .. Long - 1 /\ s \in 0 .. Long - 1
    BY <1>1, <2>1 DEF Job
  <2>3. e.vcpu = u /\ e.dead_line = b
    BY <2>1
  <2>4. d = [vcpu |-> u, remained_time |-> left, dead_line |-> b, start_time |-> s]
    BY ONLY <2>1
  <2> QED  BY <1>2, <2>2, <2>3, <2>4 DEF Job
<1> HIDE DEF c, d
<1>5. /\ c \in [Node -> Job]
      /\ \A x \in Node : c[x].vcpu = j[x].vcpu /\ c[x].dead_line = j[x].dead_line
  BY <1>3, <1>4 DEF e
<1> QED  BY <1>5 DEF c

-----------------------------------------------------------------------------
\* Dispatch, seen from outside: nothing; a start from the idle loop; a switch.
Stays     == state' = state /\ exec' = exec
Starts(v) == /\ exec = NULL /\ exec' = v /\ sched_state' = sched_state
             /\ state[v] = "wait" /\ state' = [state EXCEPT ![v] = "start"]
Switches(v) == /\ exec \in VCPU /\ v # exec /\ exec' = v /\ sched_state' = sched_state
               /\ state[v] = "wait"
               /\ state' = [state EXCEPT ![exec] = "wait", ![v] = "start"]
Earliest(v) ==
  /\ \A u \in VCPU \ {exec, v} :
       sched_state[u] \in On("ls")' => job'[sched_state[v]].dead_line
                                        <= job'[sched_state[u]].dead_line
  /\ exec # NULL /\ WithinBudget =>
       job'[sched_state[exec]].dead_line <= job'[sched_state[v]].dead_line

Moves ==
  \/ Stays
  \/ \E v \in VCPU : (Starts(v) \/ Switches(v)) /\ Earliest(v)

\* The lists and the states after a dispatch, and so the invariant.
LEMMA DispatchOwned ==
  ASSUME IInv, NEW g, Lists(List, Node, mem', g), Ordered(g["ls"], job'),
         g["fl"] = Queues["fl"], job' \in [Node -> Job],
         \A x \in Node : job'[x].vcpu = job[x].vcpu,
         ToSet(g["ls"]) \cup ToSet(g["ws"])
           = {sched_state[v] : v \in {u \in VCPU : state'[u] = "wait" /\ sched_state[u] # NULL}},
         \A v \in VCPU : state'[v] = "start" <=> v = exec',
         \A v \in VCPU : state'[v] \in {"start", "sleep"} => sched_state[v] # NULL,
         state' \in [VCPU -> {"init", "wait", "start", "sleep"}], exec' \in VCPU \cup {NULL},
         flag' \in BOOLEAN, pc' = IF exec' = NULL THEN "idle" ELSE "guest",
         sched_state' = sched_state, now' = now, preempted' \in BOOLEAN,
         end_event' \in 0 .. Never, insert_event' \in 0 .. Never, Watched'
  PROVE  IInv'
<1>1. /\ Lists(List, Node, mem', Queues') /\ Ordered(Items(mem, "ls"), job)'
      /\ (DOMAIN mem.next = DOMAIN mem.prev)' /\ \A l \in List : On(l)' = ToSet(g[l])
  BY ListsNext
<1>2. \A l \in List : On(l) = ToSet(Queues[l])
  BY QueuesNow
<1>3. TypeOK'
  BY <1>1, Facts DEF TypeOK
<1>4. Owned'
  <2>1. On("fl")' = On("fl")
    BY <1>1, <1>2, Apart
  <2>2. (On("ls") \cup On("ws"))' = {sched_state'[v] : v \in Waiting'}
    BY <1>1, Apart DEF Waiting
  <2>3. \A v \in VCPU : /\ sched_state'[v] # NULL => job'[sched_state'[v]].vcpu = v
                        /\ sched_state'[v] \notin On("fl")'
    BY <2>1, Facts
  <2> QED  BY <2>2, <2>3 DEF Owned
<1> QED  BY <1>1, <1>3, <1>4 DEF IInv

\* The flag is clear.
LEMMA DispatchIdle ==
  ASSUME IInv, ~flag,
         UNCHANGED <<state, exec, flag, mem, job, evVars, preempted, sched_state, now>>,
         pc' = IF exec' = NULL THEN "idle" ELSE "guest"
  PROVE  IInv'
<1>0. /\ IInv /\ pc' = IF exec' = NULL THEN "idle" ELSE "guest"
      /\ UNCHANGED <<state, exec, flag, mem, job, end_event, insert_event, preempted,
                     sched_state, now>>
  BY DEF evVars
<1>1. /\ Lists(List, Node, mem', Queues') /\ Ordered(Items(mem, "ls"), job)'
      /\ (DOMAIN mem.next = DOMAIN mem.prev)' /\ \A l \in List : On(l)' = On(l)
  BY <1>0, ListsStay
<1>2. TypeOK'
  BY <1>0, <1>1 DEF IInv, TypeOK
<1>3. Owned'
  BY <1>0, NodesStay, Facts
<1>4. Watched'
  BY <1>0 DEF IInv, Watched
<1> QED  BY <1>0, <1>1, <1>2, <1>3, <1>4 DEF IInv

\* my_schedule's answer is the executing vCPU, or nobody.
LEMMA DispatchStays ==
  ASSUME IInv, NEW r, NEW g, Kept(r, g),
         mem' = r.mem, job' = r.job, end_event' = r.end, insert_event' = r.ins,
         UNCHANGED <<state, exec, flag, preempted, sched_state, now>>,
         pc' = IF exec' = NULL THEN "idle" ELSE "guest"
  PROVE  IInv'
<1>1. /\ Lists(List, Node, mem', g) /\ Ordered(g["ls"], job') /\ g["fl"] = Queues["fl"]
      /\ job' \in [Node -> Job] /\ insert_event' \in 0 .. Never /\ end_event' = end_event
      /\ \A x \in Node : job'[x].vcpu = job[x].vcpu /\ job'[x].start_time = job[x].start_time
      /\ ToSet(g["ls"]) \cup ToSet(g["ws"]) = On("ls") \cup On("ws")
  BY DEF Kept, Same
<1>2. On("ls") \cup On("ws")
        = {sched_state[v] : v \in {u \in VCPU : state'[u] = "wait" /\ sched_state[u] # NULL}}
  BY DEF IInv, Owned, Waiting
<1>3. Watched'
  <2>1. Watched
    BY DEF IInv
  <2>2. exec # NULL => job'[sched_state[exec]].start_time = job[sched_state[exec]].start_time
    BY <1>1, Facts
  <2> QED  BY <1>1, <2>1, <2>2 DEF Watched
<1>4. \A v \in VCPU : /\ state'[v] = "start" <=> v = exec'
                      /\ state'[v] \in {"start", "sleep"} => sched_state[v] # NULL
  BY DEF IInv, Owned
<1>5. /\ state' \in [VCPU -> {"init", "wait", "start", "sleep"}] /\ exec' \in VCPU \cup {NULL}
      /\ flag' \in BOOLEAN /\ preempted' \in BOOLEAN /\ end_event' \in 0 .. Never
  BY <1>1, Facts
<1> QED  BY <1>1, <1>2, <1>3, <1>4, <1>5, DispatchOwned

\* From the idle loop.
LEMMA DispatchStarts ==
  ASSUME IInv, NEW r, NEW g, Taken(r, g), exec = NULL,
         mem' = r.mem, job' = r.job, end_event' = r.end, insert_event' = r.ins,
         state' = [state EXCEPT ![r.pick] = "start"], exec' = r.pick,
         preempted' = FALSE,
         UNCHANGED <<flag, sched_state, now>>,
         pc' = IF exec' = NULL THEN "idle" ELSE "guest"
  PROVE  IInv' /\ Starts(r.pick) /\ Earliest(r.pick) /\ r.pick \in VCPU
<1> DEFINE v == r.pick
<1>1. /\ Lists(List, Node, mem', g) /\ Ordered(g["ls"], job') /\ g["fl"] = Queues["fl"]
      /\ job' \in [Node -> Job] /\ insert_event' \in 0 .. Never /\ end_event' = BudgetEnd(v)
      /\ \A x \in Node : job'[x].vcpu = job[x].vcpu
      /\ ToSet(g["ls"]) \cup ToSet(g["ws"]) = (On("ls") \cup On("ws")) \ {sched_state[v]}
      /\ v \in VCPU /\ state[v] = "wait" /\ sched_state[v] # NULL
      /\ job'[sched_state[v]].start_time = now
      /\ \A x \in ToSet(g["ls"]) : job'[sched_state[v]].dead_line <= job'[x].dead_line
  BY DEF Taken, Same, Waiting
<1>2. exec' = v /\ state' = [state EXCEPT ![v] = "start"] /\ sched_state' = sched_state
      /\ now' = now
  OBVIOUS
<1> HIDE DEF v
<1>3. \A u \in VCPU : state'[u] = IF u = v THEN "start" ELSE state[u]
  BY <1>2, Facts
<1>4. ToSet(g["ls"]) \cup ToSet(g["ws"])
        = {sched_state[u] : u \in {w \in VCPU : state'[w] = "wait" /\ sched_state[w] # NULL}}
  <2>1. On("ls") \cup On("ws") = {sched_state[u] : u \in Waiting}
    BY DEF IInv, Owned
  <2>2. {w \in VCPU : state'[w] = "wait" /\ sched_state[w] # NULL} = Waiting \ {v}
    BY <1>3 DEF Waiting
  <2>3. \A u \in VCPU : sched_state[u] = sched_state[v] => u = v
    BY <1>1, Served
  <2>4. Waiting \subseteq VCPU
    BY DEF Waiting
  <2> QED  BY <1>1, <2>1, <2>2, <2>3, <2>4
<1>5. \A u \in VCPU : /\ state'[u] = "start" <=> u = exec'
                      /\ state'[u] \in {"start", "sleep"} => sched_state[u] # NULL
  <2>1. \A u \in VCPU : /\ state[u] = "start" <=> u = exec
                        /\ state[u] \in {"start", "sleep"} => sched_state[u] # NULL
    BY DEF IInv, Owned
  <2> QED  BY <1>1, <1>2, <1>3, <2>1, Facts
<1>6. Watched'
  BY <1>1, <1>2 DEF Watched, BudgetEnd
<1>7. end_event' \in 0 .. Never
  <2>1. now + exection_time[v] \in Nat
    BY <1>1, Facts
  <2> QED  BY <1>1, <2>1, Dates DEF BudgetEnd
<1>8. /\ state' \in [VCPU -> {"init", "wait", "start", "sleep"}] /\ exec' \in VCPU \cup {NULL}
      /\ flag' \in BOOLEAN /\ preempted' \in BOOLEAN
  BY <1>1, <1>2, Facts
<1>9. IInv'
  BY <1>1, <1>2, <1>4, <1>5, <1>6, <1>7, <1>8, DispatchOwned
<1>10. Starts(v) /\ Earliest(v)
  <2>1. On("ls")' = ToSet(g["ls"])
    BY <1>1, ListsNext, Apart
  <2> QED  BY <1>1, <1>2, <2>1 DEF Starts, Earliest
<1> QED  BY <1>1, <1>9, <1>10 DEF v

\* vcpu_preemption: the vCPU that loses the CPU is charged and enqueued.
LEMMA DispatchSwitches ==
  ASSUME IInv, NEW r, NEW g, Taken(r, g), exec # NULL, r.pick # exec, Switch(r),
         insert_event' = r.ins, preempted' = TRUE,
         UNCHANGED <<sched_state, now>>,
         pc' = IF exec' = NULL THEN "idle" ELSE "guest"
  PROVE  IInv' /\ Switches(r.pick) /\ Earliest(r.pick) /\ r.pick \in VCPU
<1> DEFINE v == r.pick
           q == sched_state[exec]
           j == Charged(r.job, q)
           l == ListFor(j, q)
<1>1. /\ Lists(List, Node, r.mem, g) /\ Ordered(g["ls"], r.job) /\ g["fl"] = Queues["fl"]
      /\ r.job \in [Node -> Job] /\ insert_event' \in 0 .. Never
      /\ \A x \in Node : r.job[x].vcpu = job[x].vcpu
      /\ ToSet(g["ls"]) \cup ToSet(g["ws"]) = (On("ls") \cup On("ws")) \ {sched_state[v]}
      /\ v \in VCPU /\ state[v] = "wait" /\ sched_state[v] # NULL
      /\ \A x \in ToSet(g["ls"]) : r.job[sched_state[v]].dead_line <= r.job[x].dead_line
      /\ WithinBudget => r.job[sched_state[exec]].dead_line <= r.job[sched_state[v]].dead_line
  BY DEF Taken, Same, Waiting
<1>2. /\ job' = j /\ mem' = list_enque(r.mem, j, l, q) /\ end_event' = Never /\ flag' = FALSE
      /\ state' = [state EXCEPT ![exec] = "wait", ![v] = "start"] /\ exec' = v
      /\ sched_state' = sched_state /\ now' = now /\ preempted' = TRUE
  BY DEF Switch, Block
<1>3. exec \in VCPU /\ state[exec] = "start" /\ v # exec /\ q \in Node
  BY Facts
<1>4. j \in [Node -> Job] /\ \A x \in Node : /\ j[x].vcpu = r.job[x].vcpu
                                            /\ j[x].dead_line = r.job[x].dead_line
  <2>1. now \in Nat
    BY Facts
  <2> QED  BY <1>1, <1>3, <2>1, Charge
<1>5. l \in List /\ (l = "ls" \/ l = "ws") /\ "ls" \in List /\ "ws" \in List /\ "fl" \in List
      /\ \A k \in List : k = "ls" \/ k = "ws" \/ k = "fl"
  BY Apart DEF ListFor
<1> HIDE DEF v, l
<1>6. \A k \in List : q \notin ToSet(g[k])
  <2>1. q \notin On("ls") \cup On("ws") /\ q \notin On("fl")
    <3>1. exec \notin Waiting
      BY <1>3 DEF Waiting
    <3> QED  BY <1>3, <3>1, Served, Facts
  <2>2. On("fl") = ToSet(Queues["fl"])
    BY <1>5, QueuesNow
  <2> QED  BY <1>1, <1>5, <2>1, <2>2
<1> HIDE DEF j, q
<1>7. PICK h : Enlisted(r.mem, j, l, q, g, h)
  BY <1>1, <1>3, <1>4, <1>5, <1>6, EnqueKeeps
<1>8. /\ Lists(List, Node, mem', h)
      /\ \A k \in List \ {l} : h[k] = g[k]
      /\ ToSet(h[l]) = ToSet(g[l]) \cup {q}
      /\ Ordered(g[l], j) => Ordered(h[l], j)
  BY <1>2, <1>7 DEF Enlisted
<1>9. /\ h["fl"] = Queues["fl"]
      /\ ToSet(h["ls"]) \cup ToSet(h["ws"])
           = ((On("ls") \cup On("ws")) \ {sched_state[v]}) \cup {q}
  BY <1>1, <1>5, <1>8
<1>10. Ordered(h["ls"], job')
  <2>1. g["ls"] \in Seq(Node)
    BY <1>1, <1>5, QueuesAre
  <2>2. \A x \in ToSet(g["ls"]) : j[x].dead_line = r.job[x].dead_line
    BY <1>4, <2>1, MembersOfList
  <2>3. Ordered(g["ls"], j)
    <3>1. Ordered(g["ls"], r.job)
      BY <1>1
    <3> QED  BY ONLY <2>1, <2>2, <3>1, SameOrder
  <2>4. CASE l = "ls"
    BY <1>2, <1>8, <2>3, <2>4
  <2>5. CASE l # "ls"
    BY <1>2, <1>5, <1>8, <2>3, <2>5
  <2> QED  BY <2>4, <2>5
<1>11. \A u \in VCPU : state'[u] = IF u = v THEN "start" ELSE
                                   IF u = exec THEN "wait" ELSE state[u]
  BY <1>2, <1>3, Facts
<1>12. ToSet(h["ls"]) \cup ToSet(h["ws"])
         = {sched_state[u] : u \in {w \in VCPU : state'[w] = "wait" /\ sched_state[w] # NULL}}
  <2>1. On("ls") \cup On("ws") = {sched_state[u] : u \in Waiting}
    BY DEF IInv, Owned
  <2>2. {w \in VCPU : state'[w] = "wait" /\ sched_state[w] # NULL} = (Waiting \ {v}) \cup {exec}
    <3>1. sched_state[exec] # NULL
      BY <1>3, Apart DEF q
    <3> QED  BY <1>3, <1>11, <3>1 DEF Waiting
  <2>3. \A u \in VCPU : sched_state[u] = sched_state[v] => u = v
    BY <1>1, Served
  <2>4. {sched_state[u] : u \in Waiting \ {v}} = (On("ls") \cup On("ws")) \ {sched_state[v]}
    <3>1. Waiting \subseteq VCPU
      BY DEF Waiting
    <3> QED  BY <1>1, <2>1, <2>3, <3>1
  <2>5. {sched_state[u] : u \in (Waiting \ {v}) \cup {exec}}
          = {sched_state[u] : u \in Waiting \ {v}} \cup {q}
    BY DEF q
  <2> QED  BY <1>9, <2>2, <2>4, <2>5
<1>13. \A u \in VCPU : /\ state'[u] = "start" <=> u = exec'
                       /\ state'[u] \in {"start", "sleep"} => sched_state[u] # NULL
  <2>1. \A u \in VCPU : /\ state[u] = "start" <=> u = exec
                        /\ state[u] \in {"start", "sleep"} => sched_state[u] # NULL
    BY DEF IInv, Owned
  <2> QED  BY <1>1, <1>2, <1>3, <1>11, <2>1
<1>14. Watched'
  BY <1>2 DEF Watched
<1>15. /\ state' \in [VCPU -> {"init", "wait", "start", "sleep"}] /\ exec' \in VCPU \cup {NULL}
       /\ flag' \in BOOLEAN /\ preempted' \in BOOLEAN /\ end_event' \in 0 .. Never
  BY <1>1, <1>2, <1>3, Facts
<1>16. job' \in [Node -> Job] /\ \A x \in Node : job'[x].vcpu = job[x].vcpu
  BY <1>1, <1>2, <1>4
<1>17. IInv'
  BY <1>2, <1>8, <1>9, <1>10, <1>12, <1>13, <1>14, <1>15, <1>16, <1>1, DispatchOwned
<1>18. Switches(v)
  BY <1>1, <1>2, <1>3 DEF Switches
<1>19. Earliest(v)
  <2>1. sched_state[v] \in Node /\ g["ls"] \in Seq(Node) /\ ToSet(g["ls"]) \subseteq Node
    <3>1. g["ls"] \in Seq(Node)
      BY <1>1, <1>5, QueuesAre
    <3> QED  BY <1>1, <3>1, Served, MembersOfList
  <2>2. On("ls")' = ToSet(h["ls"]) /\ ToSet(h["ls"]) \subseteq ToSet(g["ls"]) \cup {q}
    BY <1>5, <1>8, <1>10, ListsNext
  <2>3. ASSUME NEW u \in VCPU \ {exec, v}, sched_state[u] \in On("ls")'
        PROVE  job'[sched_state[v]].dead_line <= job'[sched_state[u]].dead_line
    <3>1. sched_state[u] # q
      <4>1. sched_state[exec] # NULL
        BY <1>3, Apart DEF q
      <4> QED  BY <1>3, <2>3, <4>1, Served DEF q
    <3>2. sched_state[u] \in ToSet(g["ls"])
      BY <2>2, <2>3, <3>1
    <3> QED  BY <1>1, <1>2, <1>4, <2>1, <3>2
  <2>4. WithinBudget => job'[sched_state[exec]].dead_line <= job'[sched_state[v]].dead_line
    BY <1>1, <1>2, <1>3, <1>4, <2>1 DEF q
  <2> QED  BY <2>3, <2>4 DEF Earliest
<1> QED  BY <1>1, <1>17, <1>18, <1>19 DEF v

LEMMA DispatchKeeps ==
  ASSUME IInv, Dispatch
  PROVE  IInv' /\ Moves
<1>0. IInv /\ Dispatch
  OBVIOUS
<1>1. pc' = (IF exec' = NULL THEN "idle" ELSE "guest") /\ UNCHANGED <<sched_state, now>>
  BY <1>0 DEF Dispatch
<1>2. CASE ~flag
  <2>1. UNCHANGED <<state, exec, flag, mem, job, evVars, preempted>>
    BY <1>0, <1>2 DEF Dispatch
  <2>2. IInv'
    BY <1>0, <1>1, <1>2, <2>1, DispatchIdle
  <2> QED  BY <2>1, <2>2 DEF Moves, Stays
<1>3. CASE flag
  <2> DEFINE r == Schedule
  <2>1. /\ insert_event' = r.ins
        /\ \/ /\ r.pick = exec
              /\ mem' = r.mem /\ job' = r.job /\ end_event' = r.end
              /\ UNCHANGED <<state, exec, flag, preempted>>
           \/ /\ exec = NULL /\ r.pick # NULL
              /\ mem' = r.mem /\ job' = r.job /\ end_event' = r.end
              /\ state' = [state EXCEPT ![r.pick] = "start"]
              /\ exec' = r.pick
              /\ preempted' = FALSE
              /\ UNCHANGED flag
           \/ exec # NULL /\ r.pick # exec /\ Switch(r) /\ preempted' = TRUE
    BY <1>0, <1>3 DEF Dispatch
  <2>2. PICK g : Kept(r, g) \/ Taken(r, g)
    BY <1>0, Scheduled
  <2> HIDE DEF r
  <2>3. Kept(r, g) => r.pick = exec
    BY DEF Kept
  <2>4. Taken(r, g) => r.pick \in VCPU /\ r.pick # exec
    <3>1. \A v \in VCPU : state[v] = "wait" => v # exec
      BY <1>0, Facts
    <3> QED  BY <3>1 DEF Taken, Waiting
  <2>5. CASE r.pick = exec
    <3>1. /\ mem' = r.mem /\ job' = r.job /\ end_event' = r.end /\ insert_event' = r.ins
          /\ UNCHANGED <<state, exec, flag, preempted>>
      BY <2>1, <2>5
    <3>2. Kept(r, g)
      BY <2>2, <2>4, <2>5
    <3>3. IInv'
      BY <1>0, <1>1, <3>1, <3>2, DispatchStays
    <3> QED  BY <3>1, <3>3 DEF Moves, Stays
  <2>6. CASE r.pick # exec /\ exec = NULL
    <3>1. /\ mem' = r.mem /\ job' = r.job /\ end_event' = r.end /\ insert_event' = r.ins
          /\ state' = [state EXCEPT ![r.pick] = "start"] /\ exec' = r.pick
          /\ preempted' = FALSE /\ flag' = flag
      BY <2>1, <2>6
    <3>2. Taken(r, g)
      BY <2>2, <2>3, <2>6
    <3>3. IInv' /\ Starts(r.pick) /\ Earliest(r.pick) /\ r.pick \in VCPU
      BY <1>0, <1>1, <2>6, <3>1, <3>2, DispatchStarts
    <3> QED  BY <3>3 DEF Moves
  <2>7. CASE r.pick # exec /\ exec # NULL
    <3>1. Switch(r) /\ preempted' = TRUE /\ insert_event' = r.ins
      BY <2>1, <2>7
    <3>2. Taken(r, g)
      BY <2>2, <2>3, <2>7
    <3>3. IInv' /\ Switches(r.pick) /\ Earliest(r.pick) /\ r.pick \in VCPU
      BY <1>0, <1>1, <2>7, <3>1, <3>2, DispatchSwitches
    <3> QED  BY <3>3 DEF Moves
  <2> QED  BY <2>5, <2>6, <2>7
<1> QED  BY <1>0, <1>2, <1>3, Facts

LEMMA StutterKeeps ==
  ASSUME IInv, UNCHANGED vars
  PROVE  IInv'
<1>0. /\ IInv
      /\ UNCHANGED <<pc, state, exec, flag, mem, job, sched_state, end_event, insert_event,
                     now, preempted>>
  BY DEF vars, nodeVars, evVars
<1>1. /\ Lists(List, Node, mem', Queues') /\ Ordered(Items(mem, "ls"), job)'
      /\ (DOMAIN mem.next = DOMAIN mem.prev)' /\ \A l \in List : On(l)' = On(l)
  BY <1>0, ListsStay
<1>2. TypeOK'
  BY <1>0, <1>1 DEF IInv, TypeOK
<1>3. Owned'
  BY <1>0, NodesStay, Facts
<1>4. Watched'
  BY <1>0 DEF IInv, Watched
<1> QED  BY <1>0, <1>1, <1>2, <1>3, <1>4 DEF IInv

\* The invariant is inductive.
LEMMA StepKeeps == IInv /\ [Next]_vars => IInv'
<1> SUFFICES ASSUME IInv, [Next]_vars PROVE IInv'
  OBVIOUS
<1>1. CASE UNCHANGED vars
  BY <1>1, StutterKeeps
<1>2. CASE \E W \in SUBSET VCPU : Wakeup(W)
  BY <1>2, WakeupKeeps
<1>3. CASE Dispatch
  BY <1>3, DispatchKeeps
<1>4. CASE GuestYield \/ OtherHandler
  BY <1>4, YieldKeeps
<1>5. CASE GuestWfi
  BY <1>5, SleepKeeps
<1>6. CASE EventFires
  BY <1>6, FiresKeeps
<1>7. CASE Elapse
  BY <1>7, ElapseKeeps
<1>8. CASE \E v \in VCPU : CpuOn(v)
  BY <1>8, OnKeeps
<1>9. CASE CpuOff
  BY <1>9, OffKeeps
<1> QED  BY <1>1, <1>2, <1>3, <1>4, <1>5, <1>6, <1>7, <1>8, <1>9 DEF Next

-----------------------------------------------------------------------------
\* my_init: the free list is filled with the nodes.

\* The nodes in some order.
LEMMA NodesOnce ==
  /\ SetToSeq(Node) \in Seq(Node) /\ Len(SetToSeq(Node)) = Cardinality(Node)
  /\ IsInjective(SetToSeq(Node))
<1> DEFINE N == Cardinality(Node)
<1>1. N \in Nat /\ ExistsBijection(1 .. N, Node)
  BY Apart, FS_CardinalityType
<1>2. PICK f : f \in Bijection(1 .. N, Node)
  BY <1>1 DEF ExistsBijection
<1>3. f \in [1 .. N -> Node] /\ IsInjective(f)
  BY <1>2 DEF Bijection, Injection, IsInjective
<1>4. SetToSeq(Node) \in [1 .. N -> Node] /\ IsInjective(SetToSeq(Node))
  BY <1>3 DEF SetToSeq
<1> HIDE DEF N
<1>5. SetToSeq(Node) \in Seq(Node) /\ Len(SetToSeq(Node)) = N
  BY <1>1, <1>4
<1> QED  BY <1>4, <1>5 DEF N

NoList == queue_list_init(queue_list_init(queue_list_init(
            Unlinked(List, Node), "fl"), "ls"), "ws")

\* Three empty lists.
LEMMA NoListIsEmpty == Lists(List, Node, NoList, [l \in List |-> <<>>])
<1> DEFINE A == Addresses(List, Node)
           m0 == Unlinked(List, Node)
           m1 == queue_list_init(m0, "fl")
           m2 == queue_list_init(m1, "ls")
           m3 == queue_list_init(m2, "ws")
<1>1. Distinguished(List, Node) /\ "fl" \in List /\ "ls" \in List /\ "ws" \in List
      /\ List = {"ls", "ws", "fl"}
  BY Apart
<1>2. m0 \in Memory(A)
  BY DEF Unlinked, Memory, Addresses
<1> HIDE DEF m0, A
<1>3. m1 \in Memory(A) /\ \A k \in {} \cup {"fl"} : Chained(m1, k, <<>>)
  BY <1>1, <1>2, Initialised DEF A
<1> HIDE DEF m1
<1>4. m2 \in Memory(A) /\ \A k \in ({} \cup {"fl"}) \cup {"ls"} : Chained(m2, k, <<>>)
  <2>1. {} \cup {"fl"} \in SUBSET List
    BY <1>1
  <2> QED  BY <1>1, <1>3, <2>1, Initialised DEF A
<1> HIDE DEF m2
<1>5. m3 \in Memory(A)
      /\ \A k \in (({} \cup {"fl"}) \cup {"ls"}) \cup {"ws"} : Chained(m3, k, <<>>)
  <2>1. PICK K \in SUBSET List : K = ({} \cup {"fl"}) \cup {"ls"}
    BY <1>1
  <2>2. m2 \in Memory(Addresses(List, Node)) /\ \A k \in K : Chained(m2, k, <<>>)
    BY <1>4, <2>1 DEF A
  <2>3. /\ m3 \in Memory(Addresses(List, Node))
        /\ \A k \in K \cup {"ws"} : Chained(m3, k, <<>>)
    BY <1>1, <2>2, Initialised
  <2> HIDE DEF m3
  <2> QED  BY <2>1, <2>3 DEF A
<1> DEFINE e == [l \in List |-> <<>>]
<1>6. e \in [List -> Seq(Node)] /\ Disjoint(List, e)
  BY EmptyList DEF Disjoint
<1>7. \A l \in List : Chained(m3, l, e[l])
  BY <1>1, <1>5
<1>8. NoList = m3
  BY DEF NoList, m0, m1, m2
<1> HIDE DEF m3
<1> QED  BY <1>5, <1>6, <1>7, <1>8 DEF Lists, A

IsFilled(s, n, r) ==
  r = [k \in 0 .. n |-> IF k = 0 THEN NoList ELSE queue_list_enque(r[k-1], "fl", s[k])]

LEMMA FilledExists ==
  ASSUME NEW s, NEW n \in Nat
  PROVE  \E r : IsFilled(s, n, r)
<1> DEFINE Good == {k \in Nat : \E r : IsFilled(s, k, r)}
<1>1. 0 \in Good
  <2>1. IsFilled(s, 0, [k \in 0 .. 0 |-> NoList])
    BY DEF IsFilled
  <2> QED  BY <2>1
<1>2. ASSUME NEW k \in Nat, k \in Good PROVE k + 1 \in Good
  <2>1. PICK r : IsFilled(s, k, r)
    BY <1>2
  <2> DEFINE u == [j \in 0 .. k + 1 |->
                     IF j = k + 1 THEN queue_list_enque(r[k], "fl", s[k+1]) ELSE r[j]]
  <2>2. \A j \in 0 .. k + 1 :
          u[j] = IF j = 0 THEN NoList ELSE queue_list_enque(u[j-1], "fl", s[j])
    BY <2>1 DEF IsFilled
  <2>3. IsFilled(s, k + 1, u)
    BY <2>2 DEF IsFilled
  <2> HIDE DEF u
  <2> QED  BY <2>3
<1> HIDE DEF Good
<1>3. n \in Good
  BY <1>1, <1>2, Induction
<1> QED  BY <1>3 DEF Good

LEMMA FilledRuns ==
  ASSUME NEW s, s = SetToSeq(Node), NEW n \in Nat, n = Len(s)
  PROVE  \E r : /\ r[0] = NoList
                /\ \A k \in 1 .. n : r[k] = queue_list_enque(r[k-1], "fl", s[k])
                /\ EmptyLists = r[n]
<1> DEFINE r == CHOOSE u : IsFilled(s, n, u)
<1>1. EmptyLists = r[n]
  BY DEF EmptyLists, IsFilled, NoList
<1>2. IsFilled(s, n, r)
  BY FilledExists
<1> HIDE DEF r
<1>3. \A k \in 0 .. n : r[k] = IF k = 0 THEN NoList ELSE queue_list_enque(r[k-1], "fl", s[k])
  BY <1>2 DEF IsFilled
<1>4. 0 \in 0 .. n /\ \A k \in 1 .. n : k \in 0 .. n /\ k # 0
  OBVIOUS
<1> QED  BY <1>1, <1>3, <1>4

\* The first k nodes are free.
Filled(k, m, g) ==
  /\ Lists(List, Node, m, g)
  /\ g["ls"] = <<>> /\ g["ws"] = <<>>
  /\ Len(g["fl"]) = k
  /\ ToSet(g["fl"]) = {SetToSeq(Node)[i] : i \in 1 .. k}

LEMMA FillKeeps ==
  ASSUME NEW k \in Nat, k < Cardinality(Node), NEW m, NEW g, Filled(k, m, g)
  PROVE  \E h : Filled(k + 1, queue_list_enque(m, "fl", SetToSeq(Node)[k + 1]), h)
<1> DEFINE s == SetToSeq(Node)
           q == s[k + 1]
           f == g["fl"]
           t == InsertAt(f, Len(f) + 1, q)
           h == [g EXCEPT !["fl"] = t]
<1>0. /\ Lists(List, Node, m, g) /\ g["ls"] = <<>> /\ g["ws"] = <<>>
      /\ Len(f) = k /\ ToSet(f) = {s[i] : i \in 1 .. k}
  BY DEF Filled
<1>1. s \in Seq(Node) /\ IsInjective(s) /\ k + 1 \in 1 .. Len(s) /\ Len(s) \in Nat
      /\ DOMAIN s = 1 .. Len(s)
  <2>1. s \in Seq(Node) /\ Len(s) = Cardinality(Node) /\ IsInjective(s)
    BY NodesOnce
  <2>2. Cardinality(Node) \in Nat
    BY Apart, FS_CardinalityType
  <2> HIDE DEF s
  <2>3. DOMAIN s = 1 .. Len(s)
    BY <2>1, MembersOfList
  <2> QED  BY <2>1, <2>2, <2>3
<1> HIDE DEF s
<1>2. q \in Node
  BY <1>1, MembersOfList
<1>3. /\ "fl" \in List /\ "ls" \in List /\ "ws" \in List /\ "fl" # "ls" /\ "fl" # "ws"
      /\ \A l \in List : l = "ls" \/ l = "ws" \/ l = "fl"
      /\ Distinguished(List, Node)
  BY Apart
<1>4. q \notin ToSet(f)
  <2>1. \A i \in 1 .. k : i \in DOMAIN s /\ k + 1 \in DOMAIN s /\ i # k + 1
    BY <1>1
  <2>2. \A i \in 1 .. k : s[i] # s[k + 1]
    BY <1>1, <2>1 DEF IsInjective
  <2> QED  BY <1>0, <2>2
<1>5. \A l \in List : q \notin ToSet(g[l])
  BY <1>0, <1>3, <1>4, EmptyList
<1>6. g \in [List -> Seq(Node)] /\ f \in Seq(Node)
  BY <1>0, <1>3 DEF Lists
<1> HIDE DEF q
<1>7. Lists(List, Node, queue_list_enque(m, "fl", q), h)
  BY <1>0, <1>2, <1>3, <1>5, EnqueIsInsert
<1>8. Len(t) = k + 1 /\ ToSet(t) = ToSet(f) \cup {q}
  <2> HIDE DEF f
  <2>1. Len(f) + 1 \in 1 .. Len(f) + 1
    BY <1>0
  <2>2. Len(t) = Len(f) + 1 /\ ToSet(t) = ToSet(f) \cup {q}
    BY <1>2, <1>6, <2>1, InsertedAt, InsertedMember
  <2> QED  BY <1>0, <2>2
<1>9. ToSet(t) = {s[i] : i \in 1 .. k + 1}
  <2>1. 1 .. k + 1 = 1 .. k \cup {k + 1}
    OBVIOUS
  <2> QED  BY <1>0, <1>8, <2>1 DEF q
<1>10. h["fl"] = t /\ h["ls"] = <<>> /\ h["ws"] = <<>>
  BY <1>0, <1>3, <1>6
<1> HIDE DEF h, t
<1>11. Filled(k + 1, queue_list_enque(m, "fl", q), h)
  BY <1>7, <1>8, <1>9, <1>10 DEF Filled, s
<1> QED  BY <1>11 DEF q, s

LEMMA FreeAtFirst == \E g : Filled(Cardinality(Node), EmptyLists, g)
<1> DEFINE n == Cardinality(Node)
<1>1. n \in Nat /\ Len(SetToSeq(Node)) = n
  BY Apart, FS_CardinalityType, NodesOnce
<1>2. PICK r : /\ r[0] = NoList
               /\ \A k \in 1 .. n : r[k] = queue_list_enque(r[k-1], "fl", SetToSeq(Node)[k])
               /\ EmptyLists = r[n]
  BY <1>1, FilledRuns
<1> DEFINE Good == {k \in Nat : k <= n => \E g : Filled(k, r[k], g)}
<1>3. 0 \in Good
  <2> DEFINE e == [l \in List |-> <<>>]
  <2>1. e["ls"] = <<>> /\ e["ws"] = <<>> /\ e["fl"] = <<>>
    BY Apart
  <2>2. Len(<<>>) = 0 /\ ToSet(<<>>) = {} /\ 1 .. 0 = {}
    BY EmptyList
  <2>3. Lists(List, Node, r[0], e)
    BY <1>2, NoListIsEmpty
  <2> HIDE DEF e
  <2>4. Filled(0, r[0], e)
    BY <2>1, <2>2, <2>3 DEF Filled
  <2> QED  BY <2>4
<1>4. ASSUME NEW k \in Nat, k \in Good PROVE k + 1 \in Good
  <2> SUFFICES ASSUME k + 1 <= n PROVE \E g : Filled(k + 1, r[k + 1], g)
    OBVIOUS
  <2>1. k < n /\ k <= n /\ k + 1 \in 1 .. n /\ k + 1 - 1 = k
    BY <1>1
  <2>2. PICK g : Filled(k, r[k], g)
    BY <1>4, <2>1
  <2>3. r[k + 1] = queue_list_enque(r[k], "fl", SetToSeq(Node)[k + 1])
    BY <1>2, <2>1
  <2> QED  BY <2>1, <2>2, <2>3, FillKeeps
<1> HIDE DEF Good
<1>5. n \in Good
  BY <1>1, <1>3, <1>4, Induction
<1> QED  BY <1>1, <1>2, <1>5 DEF Good

-----------------------------------------------------------------------------
\* vm_create resets the vCPUs in the order of ids, vm_ready readies one of each VM.

IsReset(n, r) == r = [k \in 0 .. n |-> IF k = 0 THEN Fresh ELSE Allocated(r[k-1], k - 1)]

IsReadied(n, s, r) == r = [k \in 0 .. n |-> IF k = 0 THEN s ELSE Enqued(r[k-1], BootOrder[k])]

LEMMA ResetExists ==
  ASSUME NEW n \in Nat
  PROVE  \E r : IsReset(n, r)
<1> DEFINE Good == {k \in Nat : \E r : IsReset(k, r)}
<1>1. 0 \in Good
  <2>1. IsReset(0, [k \in 0 .. 0 |-> Fresh])
    BY DEF IsReset
  <2> QED  BY <2>1
<1>2. ASSUME NEW k \in Nat, k \in Good PROVE k + 1 \in Good
  <2>1. PICK r : IsReset(k, r)
    BY <1>2
  <2> DEFINE u == [j \in 0 .. k + 1 |-> IF j = k + 1 THEN Allocated(r[k], k) ELSE r[j]]
  <2>2. \A j \in 0 .. k + 1 : u[j] = IF j = 0 THEN Fresh ELSE Allocated(u[j-1], j - 1)
    BY <2>1 DEF IsReset
  <2>3. IsReset(k + 1, u)
    BY <2>2 DEF IsReset
  <2> HIDE DEF u
  <2> QED  BY <2>3
<1> HIDE DEF Good
<1>3. n \in Good
  BY <1>1, <1>2, Induction
<1> QED  BY <1>3 DEF Good

LEMMA ReadiedExists ==
  ASSUME NEW n \in Nat, NEW s
  PROVE  \E r : IsReadied(n, s, r)
<1> DEFINE Good == {k \in Nat : \E r : IsReadied(k, s, r)}
<1>1. 0 \in Good
  <2>1. IsReadied(0, s, [k \in 0 .. 0 |-> s])
    BY DEF IsReadied
  <2> QED  BY <2>1
<1>2. ASSUME NEW k \in Nat, k \in Good PROVE k + 1 \in Good
  <2>1. PICK r : IsReadied(k, s, r)
    BY <1>2
  <2> DEFINE u == [j \in 0 .. k + 1 |-> IF j = k + 1 THEN Enqued(r[k], BootOrder[k + 1]) ELSE r[j]]
  <2>2. \A j \in 0 .. k + 1 : u[j] = IF j = 0 THEN s ELSE Enqued(u[j-1], BootOrder[j])
    BY <2>1 DEF IsReadied
  <2>3. IsReadied(k + 1, s, u)
    BY <2>2 DEF IsReadied
  <2> HIDE DEF u
  <2> QED  BY <2>3
<1> HIDE DEF Good
<1>3. n \in Good
  BY <1>1, <1>2, Induction
<1> QED  BY <1>3 DEF Good

LEMMA BootRuns ==
  ASSUME NEW n \in Nat, n = Cardinality(VCPU), NEW l \in Nat, l = Len(BootOrder)
  PROVE  \E a, b : /\ a[0] = Fresh
                   /\ \A k \in 1 .. n : a[k] = Allocated(a[k-1], k - 1)
                   /\ b[0] = a[n]
                   /\ \A k \in 1 .. l : b[k] = Enqued(b[k-1], BootOrder[k])
                   /\ Booted = b[l]
<1> DEFINE a == CHOOSE u : IsReset(n, u)
           b == CHOOSE u : IsReadied(l, a[n], u)
<1>1. Booted = b[l]
  BY DEF Booted, IsReset, IsReadied
<1> HIDE DEF b
<1>2. IsReset(n, a)
  BY ResetExists
<1> HIDE DEF a
<1>3. IsReadied(l, a[n], b)
  BY ReadiedExists DEF b
<1>4. \A k \in 0 .. n : a[k] = IF k = 0 THEN Fresh ELSE Allocated(a[k-1], k - 1)
  BY <1>2 DEF IsReset
<1>5. \A k \in 0 .. l : b[k] = IF k = 0 THEN a[n] ELSE Enqued(b[k-1], BootOrder[k])
  BY <1>3 DEF IsReadied
<1>6. /\ 0 \in 0 .. n /\ \A k \in 1 .. n : k \in 0 .. n /\ k # 0
      /\ 0 \in 0 .. l /\ \A k \in 1 .. l : k \in 0 .. l /\ k # 0
  OBVIOUS
<1> QED  BY <1>1, <1>4, <1>5, <1>6

\* Nobody is ready before, and no vCPU has a node.
LEMMA BootStarts == \E g : World(Fresh, g, {})
<1>1. PICK g : Filled(Cardinality(Node), EmptyLists, g)
  BY FreeAtFirst
<1>2. /\ Lists(List, Node, EmptyLists, g) /\ g["ls"] = <<>> /\ g["ws"] = <<>>
  BY <1>1 DEF Filled
<1>3. Fresh.job \in [Node -> Job]
  <2>1. 0 \in 0 .. Word - 1 /\ 0 \in 0 .. Long - 1
    BY Dates
  <2>2. [vcpu |-> NULL, remained_time |-> 0, dead_line |-> 0, start_time |-> 0] \in Job
    BY <2>1 DEF Job
  <2> QED  BY <2>2 DEF Fresh
<1>4. /\ Fresh.mem = EmptyLists /\ Fresh.sched \in [VCPU -> Node \cup {NULL}]
      /\ \A v \in VCPU : Fresh.sched[v] = NULL
      /\ Fresh = [mem |-> Fresh.mem, job |-> Fresh.job, sched |-> Fresh.sched]
  BY DEF Fresh
<1>5. Ordered(<<>>, Fresh.job) /\ ToSet(<<>>) = {}
  BY EmptyList DEF Ordered
<1>6. {Fresh.sched[v] : v \in {u \in {} : Fresh.sched[u] # NULL}} = {}
  OBVIOUS
<1>7. World(Fresh, g, {})
  BY <1>2, <1>3, <1>4, <1>5, <1>6 DEF World
<1> QED  BY <1>7

LEMMA BootEnds == \E g : World(Booted, g, ToSet(BootOrder))
<1> DEFINE n == Cardinality(VCPU)
           l == Len(BootOrder)
           First(k) == {BootOrder[i] : i \in 1 .. k}
<1>1. /\ VCPU = 0 .. n - 1 /\ n \in Nat
      /\ BootOrder \in Seq(VCPU) /\ l \in Nat /\ IsInjective(BootOrder)
      /\ DOMAIN BootOrder = 1 .. l /\ \A i \in 1 .. l : BootOrder[i] \in VCPU
  <2>1. VCPU = 0 .. n - 1 /\ n \in Nat /\ BootOrder \in Seq(VCPU) /\ IsInjective(BootOrder)
    BY EdfAssumption, FS_CardinalityType
  <2> QED  BY <2>1
<1>2. \A i, j \in 1 .. l : BootOrder[i] = BootOrder[j] => i = j
  BY <1>1 DEF IsInjective
<1>3. PICK a, b : /\ a[0] = Fresh
                  /\ \A k \in 1 .. n : a[k] = Allocated(a[k-1], k - 1)
                  /\ b[0] = a[n]
                  /\ \A k \in 1 .. l : b[k] = Enqued(b[k-1], BootOrder[k])
                  /\ Booted = b[l]
  BY <1>1, BootRuns
<1> HIDE DEF n, l
<1> DEFINE Good == {k \in Nat : k <= n => \E g : World(a[k], g, {})}
<1>4. 0 \in Good
  BY <1>3, BootStarts
<1>5. ASSUME NEW k \in Nat, k \in Good PROVE k + 1 \in Good
  <2>0. k + 1 \in Nat
    OBVIOUS
  <2> SUFFICES ASSUME k + 1 <= n PROVE \E g : World(a[k + 1], g, {})
    BY <2>0, Zenon
  <2>1. k <= n /\ k + 1 \in 1 .. n /\ k + 1 - 1 = k /\ k \in VCPU
    BY <1>1
  <2>2. PICK g : World(a[k], g, {})
    BY <1>5, <2>1
  <2>3. a[k + 1] = Allocated(a[k], k)
    BY <1>3, <2>1
  <2>4. {} \in SUBSET VCPU /\ k \notin {}
    OBVIOUS
  <2>5. \E h : World(Allocated(a[k], k), h, {})
    BY <2>1, <2>2, <2>4, AllocKeeps
  <2> QED  BY <2>3, <2>5
<1> HIDE DEF Good
<1>6. n \in Good
  BY <1>1, <1>4, <1>5, Induction
<1>7. \E g : World(a[n], g, {})
  BY <1>1, <1>6 DEF Good
<1> DEFINE Ready == {k \in Nat : k <= l => \E g : World(b[k], g, First(k))}
<1>8. 0 \in Ready
  <2>1. First(0) = {}
    OBVIOUS
  <2> HIDE DEF First
  <2> QED  BY <1>3, <1>7, <2>1
<1>9. ASSUME NEW k \in Nat, k \in Ready PROVE k + 1 \in Ready
  <2>0. k + 1 \in Nat
    OBVIOUS
  <2> SUFFICES ASSUME k + 1 <= l PROVE \E g : World(b[k + 1], g, First(k + 1))
    BY <2>0, Zenon
  <2> DEFINE v == BootOrder[k + 1]
  <2>1. k <= l /\ k + 1 \in 1 .. l /\ k + 1 - 1 = k
        /\ \A i \in 1 .. k : i \in 1 .. l /\ i # k + 1
    BY <1>1
  <2>2. PICK g : World(b[k], g, First(k))
    BY <1>9, <2>1
  <2>3. b[k + 1] = Enqued(b[k], v)
    BY <1>3, <2>1
  <2>4. v \in VCPU /\ v \notin First(k) /\ First(k) \in SUBSET VCPU
    BY <1>1, <1>2, <2>1
  <2>5. First(k + 1) = First(k) \cup {v}
    <3>1. \A i : i \in 1 .. k + 1 <=> i \in 1 .. k \/ i = k + 1
      OBVIOUS
    <3> QED  BY <3>1
  <2> HIDE DEF v, First
  <2>6. \E h : World(Enqued(b[k], v), h, First(k) \cup {v})
    BY <2>2, <2>4, EnquedKeeps
  <2> QED  BY <2>3, <2>5, <2>6
<1> HIDE DEF Ready
<1>10. l \in Ready
  BY <1>1, <1>8, <1>9, Induction
<1>11. ToSet(BootOrder) = First(l)
  BY <1>1 DEF ToSet
<1> HIDE DEF First
<1>12. \E g : World(b[l], g, First(l))
  <2>1. l <= l
    BY <1>1
  <2>2. l \in {k \in Nat : k <= l => \E g : World(b[k], g, First(k))}
    BY <1>10 DEF Ready
  <2> QED  BY <2>1, <2>2
<1> QED  BY <1>3, <1>11, <1>12

LEMMA InitHolds == Init => IInv
<1> SUFFICES ASSUME Init PROVE IInv
  OBVIOUS
<1>0. Init
  OBVIOUS
<1>1. PICK g : World(Booted, g, ToSet(BootOrder))
  BY BootEnds
<1>2. /\ pc = "sched" /\ exec = NULL /\ flag = TRUE
      /\ state = [v \in VCPU |-> IF v \in ToSet(BootOrder) THEN "wait" ELSE "init"]
      /\ mem = Booted.mem /\ job = Booted.job /\ sched_state = Booted.sched
      /\ end_event = Never /\ insert_event = Never /\ now = 0 /\ preempted = FALSE
  BY <1>0 DEF Init
<1>3. /\ Lists(List, Node, mem, g) /\ Ordered(g["ls"], job)
      /\ job \in [Node -> Job] /\ sched_state \in [VCPU -> Node \cup {NULL}]
      /\ \A v \in VCPU : sched_state[v] # NULL => /\ job[sched_state[v]].vcpu = v
                                                  /\ sched_state[v] \notin ToSet(g["fl"])
      /\ ToSet(g["ls"]) \cup ToSet(g["ws"])
           = {sched_state[v] : v \in {u \in ToSet(BootOrder) : sched_state[u] # NULL}}
  BY <1>1, <1>2 DEF World
<1>4. /\ g = Queues /\ \A l \in List : Items(mem, l) = g[l] /\ On(l) = ToSet(g[l])
      /\ DOMAIN mem.next = DOMAIN mem.prev
  BY <1>3, QueuesAre DEF Queues, On
<1>5. /\ "ls" \in List /\ "ws" \in List /\ "fl" \in List /\ NULL \notin VCPU
      /\ ToSet(BootOrder) \in SUBSET VCPU
  <2>1. BootOrder \in Seq(VCPU)
    BY EdfAssumption
  <2>2. ToSet(BootOrder) \in SUBSET VCPU
    BY <2>1 DEF ToSet
  <2> QED  BY <2>2, Apart
<1>6. TypeOK
  <2>1. Never \in Nat /\ 0 \in 0 .. MaxTime /\ Never \in 0 .. Never
    BY Dates
  <2> QED  BY <1>2, <1>3, <1>4, <2>1 DEF TypeOK
<1>7. Owned
  <2>1. \A v \in VCPU : /\ state[v] = "wait" <=> v \in ToSet(BootOrder)
                        /\ state[v] \notin {"start", "sleep"}
    BY <1>2
  <2>2. Waiting = {u \in ToSet(BootOrder) : sched_state[u] # NULL}
    BY <1>5, <2>1 DEF Waiting
  <2>3. On("ls") \cup On("ws") = {sched_state[v] : v \in Waiting}
    BY <1>3, <1>4, <1>5, <2>2
  <2>4. \A v \in VCPU : state[v] = "start" <=> v = exec
    BY <1>2, <1>5, <2>1
  <2>5. NULL \notin ToSet(g["fl"])
    <3>1. g["fl"] \in Seq(Node)
      BY <1>3, <1>5, QueuesAre
    <3> QED  BY <3>1, MembersOfList, Apart
  <2>6. \A v \in VCPU : /\ sched_state[v] # NULL => job[sched_state[v]].vcpu = v
                        /\ sched_state[v] \notin On("fl")
    BY <1>3, <1>4, <1>5, <2>5
  <2> QED  BY <2>1, <2>3, <2>4, <2>6 DEF Owned
<1>8. Watched
  BY <1>2 DEF Watched
<1> QED  BY <1>2, <1>3, <1>4, <1>5, <1>6, <1>7, <1>8 DEF IInv

-----------------------------------------------------------------------------
\* The invariant holds in every state of every behaviour.
THEOREM InvAlways == Spec => []IInv
  BY InitHolds, StepKeeps, PTL DEF Spec

\* Every variable keeps its type, whatever is subtracted from a budget or added to
\* a deadline, and also when the 32-bit copy of a start time has lost its high half.
THEOREM TypeCorrect == Spec => []TypeOK
<1>1. IInv => TypeOK
  BY DEF IInv
<1> QED  BY <1>1, InvAlways, PTL

\* The three lists stay exact in memory: well formed, apart, and with the nodes of
\* the vCPUs that wait, for any number of vCPUs and nodes; also when vCPUs are
\* turned on again until no node is left.
THEOREM ListsExactAlways == Spec => []ListsExact
<1>1. IInv => ListsExact
  <2> SUFFICES ASSUME IInv PROVE ListsExact
    OBVIOUS
  <2>1. /\ Lists(List, Node, mem, Queues)
        /\ \A l \in List : On(l) = ToSet(Queues[l])
    BY QueuesNow, Apart
  <2>2. \A l \in List : queue_list_check(mem, l)
    BY <2>1, QueuesAre
  <2>3. \A l, k \in List : l # k => On(l) \cap On(k) = {}
    BY <2>1 DEF Lists, Disjoint
  <2> QED  BY <2>2, <2>3 DEF ListsExact, IInv, Owned
<1> QED  BY <1>1, InvAlways, PTL

\* The event that ends the budget of the running vCPU is armed for exactly that
\* date, unless the vCPU was given the CPU of another.
THEOREM BudgetWatchedAlways == Spec => []BudgetWatched
<1>1. IInv => BudgetWatched
  BY DEF IInv, Watched, BudgetWatched
<1> QED  BY <1>1, InvAlways, PTL

\* Only Dispatch gives the CPU to a vCPU: it has the earliest deadline of those
\* that waited, and a vCPU that loses it within its budget had an earlier one.
THEOREM EarliestOfWaitingAlways == Spec => EarliestOfWaiting
<1> DEFINE Given ==
      exec' \notin {NULL, exec} =>
        LET d == job'[sched_state[exec']].dead_line
        IN  /\ \A v \in VCPU \ {exec, exec'} :
                 sched_state[v] \in On("ls")' => d <= job'[sched_state[v]].dead_line
            /\ exec # NULL /\ WithinBudget => job'[sched_state[exec]].dead_line <= d
<1>1. ASSUME IInv, [Next]_vars PROVE Given
  <2>1. CASE Dispatch
    <3>1. Moves
      BY <1>1, <2>1, DispatchKeeps
    <3>2. CASE Stays
      BY <3>2 DEF Stays
    <3>3. ASSUME NEW v \in VCPU, exec' = v, Earliest(v) PROVE Given
      BY <3>3 DEF Earliest
    <3> QED  BY <3>1, <3>2, <3>3 DEF Moves, Starts, Switches
  <2>2. CASE ~Dispatch
    <3>1. exec' = exec \/ exec' = NULL
      BY <1>1, <2>2 DEF Next, vars, Wakeup, CpuOn, CpuOff, OtherHandler, GuestYield,
                        GuestWfi, Sleep, EventFires, Elapse
    <3> QED  BY <3>1
  <2> QED  BY <2>1, <2>2
<1>2. IInv /\ [Next]_vars => [Given]_vars
  BY <1>1
<1> QED  BY <1>2, InvAlways, PTL DEF Spec, EarliestOfWaiting

-----------------------------------------------------------------------------
\* The stage of a vCPU in its life.
Stage(x) == CASE x = "init"  -> "off"     [] x = "wait"  -> "ready"
              [] x = "start" -> "running" [] x = "sleep" -> "blocked"
stage    == [v \in VCPU |-> CASE state[v] = "init"  -> "off"
                              [] state[v] = "wait"  -> "ready"
                              [] state[v] = "start" -> "running"
                              [] state[v] = "sleep" -> "blocked"]
groups   == {VcpusOf(m) : m \in VM}

LEMMA StageValues ==
  /\ Stage("init") = "off" /\ Stage("wait") = "ready"
  /\ Stage("start") = "running" /\ Stage("sleep") = "blocked"
  BY DEF Stage

LEMMA StageOf ==
  /\ \A v \in VCPU : stage[v] = Stage(state[v])
  /\ stage' = [v \in VCPU |-> Stage(state'[v])]
  /\ stage = [v \in VCPU |-> Stage(state[v])]
  BY DEF stage, Stage

\* Each step is a move in the life of a vCPU, or none.
LEMMA LivesStep == IInv /\ [Next]_vars => [LC!LCNext]_stage
<1> SUFFICES ASSUME IInv, [Next]_vars PROVE LC!LCNext \/ stage' = stage
  OBVIOUS
<1>0. /\ state \in [VCPU -> {"init", "wait", "start", "sleep"}] /\ exec \in VCPU \cup {NULL}
      /\ \A v \in VCPU : state[v] = "start" <=> v = exec
      /\ pc = "guest" => exec # NULL
  BY Facts DEF IInv
<1>1. state' = state => stage' = stage
  BY DEF stage
<1>2. ASSUME NEW W \in SUBSET VCPU, Wakeup(W) PROVE LC!LCNext
  <2>1. /\ W # {} /\ \A v \in W : state[v] = "sleep"
        /\ \E m \in VM : W \subseteq VcpusOf(m)
        /\ state' = [v \in VCPU |-> IF v \in W THEN "wait" ELSE state[v]]
    BY <1>2 DEF Wakeup
  <2>2. \A u \in VCPU : state'[u] = IF u \in W THEN "wait" ELSE state[u]
    BY <2>1
  <2>3. stage' = [u \in VCPU |-> IF u \in W THEN "ready" ELSE stage[u]]
    BY <2>2, StageOf, StageValues
  <2>4. \A v \in W : stage[v] = "blocked"
    BY <2>1, StageOf, StageValues
  <2>5. \E G \in groups : W \subseteq G
    BY <2>1 DEF groups
  <2>6. LC!Unblock(W)
    BY <2>1, <2>3, <2>4, <2>5 DEF LC!Unblock, stage, groups
  <2> QED  BY <2>6 DEF LC!LCNext
<1>3. CASE Dispatch
  <2>1. Moves
    BY <1>3, DispatchKeeps
  <2>2. ASSUME NEW v \in VCPU, Starts(v) PROVE LC!LCNext
    <3>1. \A u \in VCPU : stage[u] # "running"
      <4>1. \A u \in VCPU : state[u] \in {"init", "wait", "sleep"}
        BY <1>0, <2>2, Apart DEF Starts
      <4> QED  BY <4>1, StageOf, StageValues
    <3>2. stage[v] = "ready"
      BY <2>2, StageOf, StageValues DEF Starts
    <3>3. stage' = [stage EXCEPT ![v] = "running"]
      BY <1>0, <2>2, StageOf, StageValues DEF Starts
    <3>4. LC!Run(v)
      BY <3>1, <3>2, <3>3 DEF LC!Run, LC!Nobody, stage
    <3> QED  BY <3>4 DEF LC!LCNext
  <2>3. ASSUME NEW v \in VCPU, Switches(v) PROVE LC!LCNext
    <3>1. exec \in VCPU /\ stage[exec] = "running" /\ stage[v] = "ready"
      BY <1>0, <2>3, StageOf, StageValues DEF Switches
    <3>2. stage' = [stage EXCEPT ![exec] = "ready", ![v] = "running"]
      BY <1>0, <2>3, StageOf, StageValues DEF Switches
    <3>3. LC!Switch(exec, v)
      BY <3>1, <3>2 DEF LC!Switch, stage
    <3> QED  BY <3>1, <3>3 DEF LC!LCNext
  <2> QED  BY <1>1, <2>1, <2>2, <2>3 DEF Moves, Stays
<1>4. CASE GuestWfi
  <2>1. exec \in VCPU /\ state[exec] = "start"
    BY <1>4, SleepKeeps
  <2>2. state' = [state EXCEPT ![exec] = "sleep"]
    BY <1>4 DEF GuestWfi, Sleep
  <2>3. stage[exec] = "running" /\ stage' = [stage EXCEPT ![exec] = "blocked"]
    BY <1>0, <2>1, <2>2, StageOf, StageValues
  <2>4. PICK v \in VCPU : v = exec
    BY <2>1
  <2>5. LC!Block(v)
    BY <2>3, <2>4 DEF LC!Block, stage
  <2> QED  BY <2>5 DEF LC!LCNext
<1>5. CASE CpuOff
  <2>1. exec \in VCPU /\ state[exec] = "start" /\ state' = [state EXCEPT ![exec] = "init"]
    BY <1>0, <1>5 DEF CpuOff
  <2>2. stage[exec] = "running" /\ stage' = [stage EXCEPT ![exec] = "off"]
    BY <1>0, <2>1, StageOf, StageValues
  <2>3. PICK v \in VCPU : v = exec
    BY <2>1
  <2>4. LC!TurnOff(v)
    BY <2>2, <2>3 DEF LC!TurnOff, stage
  <2> QED  BY <2>4 DEF LC!LCNext
<1>6. ASSUME NEW v \in VCPU, CpuOn(v) PROVE LC!LCNext
  <2>1. /\ exec \in VCPU /\ state[exec] = "start" /\ state[v] = "init"
        /\ state' = [state EXCEPT ![v] = "wait"]
    BY <1>0, <1>6 DEF CpuOn
  <2>2. /\ stage[exec] = "running" /\ stage[v] = "off"
        /\ stage' = [stage EXCEPT ![v] = "ready"]
    BY <1>0, <2>1, StageOf, StageValues
  <2>3. LC!TurnOn(exec, v)
    BY <2>2 DEF LC!TurnOn, stage
  <2> QED  BY <2>1, <2>3 DEF LC!LCNext
<1>7. CASE GuestYield \/ OtherHandler \/ EventFires \/ Elapse \/ UNCHANGED vars
  BY <1>1, <1>7 DEF GuestYield, OtherHandler, EventFires, Elapse, vars
<1> QED  BY <1>2, <1>3, <1>4, <1>5, <1>6, <1>7 DEF Next

\* edf_scheduler implements the life cycle: one vCPU at a time has the CPU, and
\* each goes its round, is turned off and on, and is woken alone or with others.
THEOREM LifecycleImplemented == Spec => ImplementsLifecycle
<1>1. Init => LC!LCInit
  <2> SUFFICES ASSUME Init PROVE LC!LCInit
    OBVIOUS
  <2>1. \A v \in VCPU : state[v] = "wait" \/ state[v] = "init"
    BY DEF Init
  <2>2. stage \in [VCPU -> {"off", "ready"}]
    BY <2>1 DEF stage
  <2> QED  BY <2>2 DEF LC!LCInit, stage
<1>2. IInv /\ [Next]_vars => [LC!LCNext]_stage
  BY LivesStep
<1> QED  BY <1>1, <1>2, InvAlways, PTL DEF Spec, ImplementsLifecycle, LC!LCSpec, stage

=============================================================================
