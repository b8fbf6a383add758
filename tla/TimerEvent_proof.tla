-------------------------- MODULE TimerEvent_proof --------------------------
(***************************************************************************)
(* Proofs about TimerEvent, for every pool and every bound: the lists are  *)
(* a sorted partition of the pool, the comparator is never late, and the   *)
(* module implements TimerService.                                         *)
(***************************************************************************)
EXTENDS TimerEvent, ListLemmas

\* The inductive invariant: the safety properties together.  The comparator needs
\* the order of the list, the order needs the lists to be disjoint.
IInv == TypeOK /\ PoolPartition /\ Sorted /\ NoLostTimer

\* What follows from it about the armed list.
LEMMA ArmedList ==
  ASSUME IInv
  PROVE  /\ el \in Seq(TNode) /\ DOMAIN el = 1 .. Len(el) /\ Len(el) \in Nat
         /\ \A i \in 1 .. Len(el) : el[i] \in TNode /\ el[i] \in ToSet(el)
         /\ \A n \in ToSet(el) : \E i \in 1 .. Len(el) : el[i] = n
         /\ \A n \in TNode : evTime[n] \in Nat
         /\ ht \in Nat /\ now \in Nat
         /\ el # <<>> => Head(el) = el[1]
         /\ \A i, j \in 1 .. Len(el) : i <= j => evTime[el[i]] <= evTime[el[j]]
<1>1. el \in Seq(TNode)
  BY DEF IInv, TypeOK
<1>2. (\A n \in TNode : evTime[n] \in Nat) /\ ht \in Nat /\ now \in Nat
  BY MaxTimeAssumption DEF IInv, TypeOK, Time, Never
<1>3. el # <<>> => Head(el) = el[1]
  BY <1>1, PoppedHead
<1>4. \A i, j \in 1 .. Len(el) : i <= j => evTime[el[i]] <= evTime[el[j]]
  BY DEF IInv, Sorted
<1>5. QED
  BY <1>1, <1>2, <1>3, <1>4, MembersOfList

-----------------------------------------------------------------------------
\* Arming.  n is the node taken from the free list and i its place.

LEMMA InsertFacts ==
  ASSUME IInv, NEW t \in Time, NEW a \in Arg, InsertEvent(t, a),
         NEW i \in 1 .. Len(el) + 1, ScanStopsAt(el, evTime, i, t),
         el' = InsertAt(el, i, Head(fl))
  PROVE  /\ Head(fl) \in TNode /\ Head(fl) \notin ToSet(el)
         /\ fl' = Tail(fl) /\ fl' \in Seq(TNode) /\ IsInjective(fl')
         /\ ToSet(fl) = {Head(fl)} \cup ToSet(fl') /\ Head(fl) \notin ToSet(fl')
         /\ el' \in Seq(TNode) /\ Len(el') = Len(el) + 1 /\ IsInjective(el')
         /\ ToSet(el') = ToSet(el) \cup {Head(fl)}
         /\ \A k \in 1 .. Len(el) + 1 : el'[k] =
              IF k < i THEN el[k] ELSE IF k = i THEN Head(fl) ELSE el[k - 1]
         /\ \A k \in 1 .. Len(el) : evTime[el[k]] <= t <=> k < i
         /\ evTime' = [evTime EXCEPT ![Head(fl)] = t]
         /\ evArg' = [evArg EXCEPT ![Head(fl)] = a]
<1>1. fl \in Seq(TNode) /\ fl # <<>> /\ fl' = Tail(fl)
  BY DEF IInv, TypeOK, InsertEvent
<1>2. /\ Head(fl) \in TNode /\ fl' \in Seq(TNode) /\ IsInjective(fl')
      /\ ToSet(fl) = {Head(fl)} \cup ToSet(fl') /\ Head(fl) \notin ToSet(fl')
  BY <1>1, PoppedHead DEF IInv, PoolPartition
<1>3. Head(fl) \notin ToSet(el)
  BY <1>2 DEF IInv, PoolPartition
<1>4. el \in Seq(TNode) /\ IsInjective(el)
  BY DEF IInv, TypeOK, PoolPartition
<1>5. /\ el' \in Seq(TNode) /\ Len(el') = Len(el) + 1
      /\ \A k \in 1 .. Len(el) + 1 : el'[k] =
           IF k < i THEN el[k] ELSE IF k = i THEN Head(fl) ELSE el[k - 1]
  <2>1. PICK e \in TNode : e = Head(fl)
    BY <1>2
  <2>2. /\ InsertAt(el, i, e) \in Seq(TNode) /\ Len(InsertAt(el, i, e)) = Len(el) + 1
        /\ \A k \in 1 .. Len(el) + 1 : InsertAt(el, i, e)[k] =
             IF k < i THEN el[k] ELSE IF k = i THEN e ELSE el[k - 1]
    BY ONLY <1>4, InsertedAt, e \in TNode, i \in 1 .. Len(el) + 1
  <2>3. el' = InsertAt(el, i, e)
    BY <2>1
  <2>4. QED
    BY <2>1, <2>2, <2>3
<1>6. ToSet(el') = ToSet(el) \cup {Head(fl)} /\ IsInjective(el')
  BY <1>2, <1>3, <1>4, InsertedMember
<1>7. ASSUME NEW k \in 1 .. Len(el) PROVE evTime[el[k]] <= t <=> k < i
  <2>1. k \in Nat /\ i \in Nat /\ Len(el) \in Nat /\ t \in Nat
    BY ArmedList, MaxTimeAssumption DEF Time
  <2>2. CASE k < i
    <3>1. k \in 1 .. i - 1
      BY <2>1, <2>2
    <3>2. QED
      BY <2>2, <3>1 DEF ScanStopsAt
  <2>3. CASE ~(k < i)
    <3>1. i \in 1 .. Len(el) /\ i <= k
      BY <2>1, <2>3
    <3>2. evTime[el[i]] > t /\ evTime[el[i]] <= evTime[el[k]]
      BY <3>1, ArmedList DEF ScanStopsAt
    <3>3. evTime[el[i]] \in Nat /\ evTime[el[k]] \in Nat
      BY <3>1, ArmedList
    <3>4. QED
      BY <2>1, <2>3, <3>2, <3>3
  <2>4. QED
    BY <2>2, <2>3
<1>8. QED
  BY <1>1, <1>2, <1>3, <1>5, <1>6, <1>7 DEF InsertEvent

LEMMA InsertStep ==
  ASSUME IInv, NEW t \in Time, NEW a \in Arg, InsertEvent(t, a)
  PROVE  IInv' /\ TS!Arm(Head(fl), t, a)
<1> DEFINE n == Head(fl)
<1>1. PICK i \in 1 .. Len(el) + 1 : /\ ScanStopsAt(el, evTime, i, t)
                                    /\ el' = InsertAt(el, i, n)
                                    /\ SetTimerIfHead(i, t)
  BY DEF InsertEvent
<1>2. /\ n \in TNode /\ n \notin ToSet(el)
      /\ fl' = Tail(fl) /\ fl' \in Seq(TNode) /\ IsInjective(fl')
      /\ ToSet(fl) = {n} \cup ToSet(fl') /\ n \notin ToSet(fl')
      /\ el' \in Seq(TNode) /\ Len(el') = Len(el) + 1 /\ IsInjective(el')
      /\ ToSet(el') = ToSet(el) \cup {n}
      /\ \A k \in 1 .. Len(el) + 1 : el'[k] =
           IF k < i THEN el[k] ELSE IF k = i THEN n ELSE el[k - 1]
      /\ \A k \in 1 .. Len(el) : evTime[el[k]] <= t <=> k < i
      /\ evTime' = [evTime EXCEPT ![n] = t]
      /\ evArg' = [evArg EXCEPT ![n] = a]
  BY <1>1, InsertFacts
<1>3. t \in Nat /\ i \in Nat /\ Len(el) \in Nat /\ i >= 1 /\ i <= Len(el) + 1
  BY ArmedList, MaxTimeAssumption DEF Time
<1>4. ht' = IF i = 1 THEN t ELSE ht
  BY <1>1 DEF SetTimerIfHead
<1>5. TypeOK'
  BY <1>2, <1>4 DEF IInv, TypeOK, InsertEvent
<1>6. PoolPartition'
  BY <1>2 DEF IInv, PoolPartition
<1>7. \A k \in 1 .. Len(el) : evTime'[el[k]] = evTime[el[k]] /\ evTime[el[k]] \in Nat
  BY <1>2, ArmedList DEF IInv, TypeOK
<1>8. evTime'[n] = t
  BY <1>2 DEF IInv, TypeOK
<1>9. Sorted'
  <2>1. SUFFICES ASSUME NEW j \in 1 .. Len(el'), NEW k \in 1 .. Len(el'), j <= k
                 PROVE  evTime'[el'[j]] <= evTime'[el'[k]]
    BY DEF Sorted
  <2>2. ASSUME NEW m \in 1 .. Len(el')
        PROVE  \/ m < i /\ m \in 1 .. Len(el) /\ el'[m] = el[m]
               \/ m = i /\ el'[m] = n
               \/ m > i /\ m - 1 \in 1 .. Len(el) /\ el'[m] = el[m - 1] /\ ~(m - 1 < i)
    BY <1>2, <1>3
  <2>3. CASE j < i /\ k < i
    <3>1. /\ j \in 1 .. Len(el) /\ k \in 1 .. Len(el)
          /\ el'[j] = el[j] /\ el'[k] = el[k]
      BY <2>2, <2>3, <1>3
    <3>2. evTime[el[j]] <= evTime[el[k]]
      BY <2>1, <3>1, ArmedList
    <3>3. QED
      BY <3>1, <3>2, <1>7
  <2>4. CASE j < i /\ k = i
    <3>1. j \in 1 .. Len(el) /\ el'[j] = el[j] /\ el'[k] = n
      BY <2>2, <2>4, <1>3
    <3>2. evTime[el[j]] <= t
      BY <3>1, <2>4, <1>2
    <3>3. QED
      BY <3>1, <3>2, <1>7, <1>8
  <2>5. CASE j < i /\ k > i
    <3>1. /\ j \in 1 .. Len(el) /\ k - 1 \in 1 .. Len(el)
          /\ el'[j] = el[j] /\ el'[k] = el[k - 1] /\ j <= k - 1
      BY <2>2, <2>5, <1>3
    <3>2. evTime[el[j]] <= evTime[el[k - 1]]
      BY <3>1, ArmedList
    <3>3. QED
      BY <3>1, <3>2, <1>7
  <2>6. CASE j = i /\ k = i
    BY <2>2, <2>6, <1>3, <1>8
  <2>7. CASE j = i /\ k > i
    <3>1. k - 1 \in 1 .. Len(el) /\ el'[k] = el[k - 1] /\ ~(k - 1 < i) /\ el'[j] = n
      BY <2>2, <2>7, <1>3
    <3>2. ~(evTime[el[k - 1]] <= t) /\ evTime[el[k - 1]] \in Nat
      BY <3>1, <1>2, <1>7
    <3>3. QED
      BY <3>1, <3>2, <1>3, <1>7, <1>8
  <2>8. CASE j > i /\ k > i
    <3>1. /\ j - 1 \in 1 .. Len(el) /\ k - 1 \in 1 .. Len(el)
          /\ el'[j] = el[j - 1] /\ el'[k] = el[k - 1] /\ j - 1 <= k - 1
      BY <2>1, <2>2, <2>8, <1>3
    <3>2. evTime[el[j - 1]] <= evTime[el[k - 1]]
      BY <3>1, ArmedList
    <3>3. QED
      BY <3>1, <3>2, <1>7
  <2>9. j \in Nat /\ k \in Nat /\ i \in Nat
    BY <1>2, <1>3
  <2>10. QED
    BY ONLY <2>1, <2>3, <2>4, <2>5, <2>6, <2>7, <2>8, <2>9
<1>10. NoLostTimer'
  <2>1. el' # <<>> => Head(el') = el'[1]
    BY <1>2, PoppedHead
  <2>2. CASE i = 1
    BY <2>1, <2>2, <1>2, <1>3, <1>4, <1>8 DEF NoLostTimer
  <2>3. CASE i > 1
    <3>0. 1 \in 1 .. Len(el) /\ 1 \in 1 .. Len(el) + 1
      BY <2>3, <1>3
    <3>1. 1 \in 1 .. Len(el) /\ el'[1] = el[1] /\ el # <<>>
      BY <2>3, <3>0, <1>2
    <3>2. ht <= evTime[el[1]]
      BY <3>1, ArmedList DEF IInv, NoLostTimer
    <3>3. QED
      BY <2>1, <2>3, <3>1, <3>2, <1>4, <1>7 DEF NoLostTimer
  <2>4. QED
    BY <2>2, <2>3, <1>3
<1>11. TS!Arm(n, t, a)
  <2> DEFINE pend == [m \in ToSet(el) |-> [time |-> evTime[m], arg |-> evArg[m]]]
  <2>1. \A m \in ToSet(el) : evTime'[m] = evTime[m] /\ evArg'[m] = evArg[m] /\ m # n
    BY <1>2, MembersOfList DEF IInv, TypeOK
  <2>2. evTime'[n] = t /\ evArg'[n] = a
    BY <1>2 DEF IInv, TypeOK
  <2>3. [m \in ToSet(el') |-> [time |-> evTime'[m], arg |-> evArg'[m]]]
          = [m \in ToSet(el) \cup {n} |-> IF m = n THEN [time |-> t, arg |-> a] ELSE pend[m]]
    BY <1>2, <2>1, <2>2
  <2>4. i = 1 <=> \A m \in ToSet(el) : evTime[m] > t
    <3>1. ASSUME i = 1, NEW m \in ToSet(el) PROVE evTime[m] > t
      <4>1. PICK k \in 1 .. Len(el) : el[k] = m
        BY ArmedList
      <4>2. ~(evTime[el[k]] <= t) /\ evTime[el[k]] \in Nat
        BY <3>1, <1>2, <1>7, <1>3
      <4>3. QED
        BY <4>1, <4>2, <1>3
    <3>2. ASSUME i > 1 PROVE \E m \in ToSet(el) : ~(evTime[m] > t)
      <4>1. 1 \in 1 .. Len(el)
        BY <3>2, <1>3
      <4>2. evTime[el[1]] <= t /\ evTime[el[1]] \in Nat /\ el[1] \in ToSet(el)
        BY <3>2, <4>1, <1>2, <1>7, ArmedList
      <4>3. QED
        BY <4>2, <1>3
    <3>3. QED
      BY <3>1, <3>2, <1>3
  <2>5. \A m \in ToSet(el) : pend[m].time = evTime[m]
    OBVIOUS
  <2>6. ht' = IF \A m \in DOMAIN pend : pend[m].time > t THEN t ELSE ht
    BY <1>4, <2>4, <2>5
  <2>7. n \in TNode \ DOMAIN pend
    BY <1>2
  <2>8. now' = now
    BY DEF InsertEvent
  <2>9. QED
    BY <2>3, <2>6, <2>7, <2>8 DEF TS!Arm, TS!Armed
<1>12. QED
  BY <1>5, <1>6, <1>9, <1>10, <1>11 DEF IInv

-----------------------------------------------------------------------------
\* Removing the i-th armed event, as timer_event_remove and the tick do.

LEMMA UnlinkFacts ==
  ASSUME IInv, NEW i \in 1 .. Len(el), el' = RemoveAt(el, i),
         fl' = Append(fl, el[i]), UNCHANGED <<evTime, evArg>>
  PROVE  /\ el' \in Seq(TNode) /\ fl' \in Seq(TNode)
         /\ ToSet(el') = ToSet(el) \ {el[i]}
         /\ PoolPartition' /\ Sorted'
         /\ el' # <<>> => /\ Head(el') \in ToSet(el)
                          /\ Head(el') = IF i = 1 THEN el[2] ELSE el[1]
                          /\ i = 1 => Len(el) >= 2
<1>1. /\ el \in Seq(TNode) /\ fl \in Seq(TNode) /\ IsInjective(el) /\ IsInjective(fl)
      /\ Len(el) \in Nat
  BY ArmedList DEF IInv, TypeOK, PoolPartition
<1>2. el[i] \in TNode /\ el[i] \in ToSet(el) /\ el[i] \notin ToSet(fl)
  BY ArmedList DEF IInv, PoolPartition
<1>3. /\ el' \in Seq(TNode) /\ Len(el') = Len(el) - 1
      /\ \A k \in 1 .. Len(el) - 1 : el'[k] = IF k < i THEN el[k] ELSE el[k + 1]
  BY <1>1, RemovedAt
<1>4. IsInjective(el') /\ ToSet(el') = ToSet(el) \ {el[i]}
  BY <1>1, RemovedMember
<1>5. fl' \in Seq(TNode) /\ IsInjective(fl') /\ ToSet(fl') = ToSet(fl) \cup {el[i]}
  BY <1>1, <1>2, AppendedMember
<1>6. PoolPartition'
  BY <1>2, <1>4, <1>5 DEF IInv, PoolPartition
<1>7. Sorted'
  <2>1. SUFFICES ASSUME NEW j \in 1 .. Len(el'), NEW k \in 1 .. Len(el'), j <= k
                 PROVE  evTime[el'[j]] <= evTime[el'[k]]
    BY DEF Sorted
  <2>2. PICK x \in 1 .. Len(el), y \in 1 .. Len(el) :
               x <= y /\ el'[j] = el[x] /\ el'[k] = el[y]
    <3> DEFINE at(m) == IF m < i THEN m ELSE m + 1
    <3>0. j \in 1 .. Len(el) - 1 /\ k \in 1 .. Len(el) - 1
      BY <1>3
    <3>1. at(j) \in 1 .. Len(el) /\ at(k) \in 1 .. Len(el) /\ at(j) <= at(k)
      BY <2>1, <3>0, <1>1
    <3>2. el'[j] = el[at(j)] /\ el'[k] = el[at(k)]
      BY <3>0, <1>3
    <3>3. QED
      BY <3>1, <3>2
  <2>3. QED
    BY <2>2, ArmedList
<1>8. ASSUME el' # <<>>
      PROVE  /\ Head(el') \in ToSet(el)
             /\ Head(el') = IF i = 1 THEN el[2] ELSE el[1]
             /\ i = 1 => Len(el) >= 2
  <2>1. Head(el') = el'[1] /\ Head(el') \in ToSet(el')
    BY <1>3, <1>8, PoppedHead
  <2>2. 1 \in 1 .. Len(el) - 1
    BY <1>1, <1>3, <1>8, MembersOfList
  <2>3. el'[1] = IF i = 1 THEN el[2] ELSE el[1]
    BY <1>3, <2>2, <1>1
  <2>4. QED
    BY <2>1, <2>2, <2>3, <1>1, <1>4
<1>9. QED
  BY <1>3, <1>4, <1>5, <1>6, <1>7, <1>8

\* What the mapped events become.
LEMMA MappedWithout ==
  ASSUME IInv, NEW i \in 1 .. Len(el), el' = RemoveAt(el, i),
         fl' = Append(fl, el[i]), UNCHANGED <<evTime, evArg>>
  PROVE  [n \in ToSet(el) |-> [time |-> evTime[n], arg |-> evArg[n]]]'
           = TS!Without([n \in ToSet(el) |-> [time |-> evTime[n], arg |-> evArg[n]]],
                        {el[i]})
BY UnlinkFacts DEF TS!Without

LEMMA RemoveStep ==
  ASSUME IInv, NEW n \in TNode, RemoveEvent(n)
  PROVE  IInv' /\ TS!Disarm({n})
<1>1. PICK i \in 1 .. Len(el) : el[i] = n /\ el' = RemoveAt(el, i)
  BY DEF RemoveEvent
<1>2. fl' = Append(fl, el[i]) /\ UNCHANGED <<evTime, evArg, ht, now>>
  BY <1>1 DEF RemoveEvent
<1>3. /\ el' \in Seq(TNode) /\ fl' \in Seq(TNode) /\ PoolPartition' /\ Sorted'
      /\ el' # <<>> => /\ Head(el') = IF i = 1 THEN el[2] ELSE el[1]
                       /\ i = 1 => Len(el) >= 2
  BY <1>1, <1>2, UnlinkFacts
<1>4. TypeOK'
  BY <1>2, <1>3 DEF IInv, TypeOK
<1>5. NoLostTimer'
  <2>1. SUFFICES ASSUME el' # <<>> PROVE ht <= evTime[Head(el')]
    BY <1>2 DEF NoLostTimer
  <2>2. el # <<>> /\ Len(el) \in Nat /\ 1 \in 1 .. Len(el)
    BY ArmedList, MembersOfList
  <2>3. ht <= evTime[el[1]] /\ ht \in Nat
    BY <2>2, ArmedList DEF IInv, NoLostTimer
  <2>4. CASE i = 1
    <3>1. 2 \in 1 .. Len(el) /\ Head(el') = el[2]
      BY <1>3, <2>1, <2>2, <2>4
    <3>2. evTime[el[1]] <= evTime[el[2]] /\ evTime[el[1]] \in Nat /\ evTime[el[2]] \in Nat
      BY <2>2, <3>1, ArmedList
    <3>3. QED
      BY <2>3, <3>1, <3>2
  <2>5. CASE i # 1
    BY <1>3, <2>1, <2>3, <2>5
  <2>6. QED
    BY <2>4, <2>5
<1>6. TS!Disarm({n})
  BY <1>1, <1>2, MappedWithout DEF TS!Disarm
<1>7. QED
  BY <1>3, <1>4, <1>5, <1>6 DEF IInv

-----------------------------------------------------------------------------
\* The timer interrupt.

LEMMA HtStep ==
  ASSUME IInv, HtIrq, NEW h \in TNode, h = Head(el)
  PROVE  IInv' /\ TS!Fire(h)
<1> DEFINE pend == [n \in ToSet(el) |-> [time |-> evTime[n], arg |-> evArg[n]]]
<1>1. el \in Seq(TNode) /\ el # <<>> /\ 1 \in 1 .. Len(el) /\ h = el[1]
  BY ArmedList, MembersOfList DEF HtIrq
<1>2. el' = RemoveAt(el, 1)
  BY <1>1, TailIsRemoved DEF HtIrq
<1>3. fl' = Append(fl, el[1]) /\ UNCHANGED <<evTime, evArg, now>>
  BY <1>1 DEF HtIrq
<1>4. /\ el' \in Seq(TNode) /\ fl' \in Seq(TNode) /\ PoolPartition' /\ Sorted'
      /\ ToSet(el') = ToSet(el) \ {h}
      /\ el' # <<>> => Head(el') = el'[1] /\ Head(el') \in ToSet(el')
  <2>1. /\ el' \in Seq(TNode) /\ fl' \in Seq(TNode) /\ PoolPartition' /\ Sorted'
        /\ ToSet(el') = ToSet(el) \ {h}
    BY <1>1, <1>2, <1>3, UnlinkFacts
  <2>2. el' # <<>> => Head(el') = el'[1] /\ Head(el') \in ToSet(el')
    BY <2>1, PoppedHead
  <2>3. QED
    BY <2>1, <2>2
<1>5. ht' = IF el' = <<>> THEN Never ELSE evTime[Head(el')]
  BY DEF HtIrq, RearmForHead
<1>6. \A n \in TNode : evTime[n] \in Time
  BY DEF IInv, TypeOK
<1>7. TypeOK'
  <2>1. ht' \in Time \cup {Never}
    BY <1>4, <1>5, <1>6, MembersOfList
  <2>2. QED
    BY <1>3, <1>4, <2>1 DEF IInv, TypeOK
<1>8. NoLostTimer'
  <2>1. SUFFICES ASSUME el' # <<>> PROVE ht' <= evTime[Head(el')]
    BY <1>3 DEF NoLostTimer
  <2>2. ht' = evTime[Head(el')] /\ evTime[Head(el')] \in Nat
    BY <1>4, <1>5, <2>1, ArmedList, MembersOfList
  <2>3. QED
    BY <2>2
<1>9. TS!Earliest(h, pend)
  <2>1. ASSUME NEW m \in ToSet(el) PROVE evTime[h] <= evTime[m]
    <3>1. PICK k \in 1 .. Len(el) : el[k] = m
      BY ArmedList
    <3>2. QED
      BY <1>1, <3>1, ArmedList
  <2>2. h \in ToSet(el)
    BY <1>1, ArmedList
  <2>3. QED
    BY <2>1, <2>2 DEF TS!Earliest
<1>10. TS!SetToEarliest([n \in ToSet(el') |-> [time |-> evTime'[n], arg |-> evArg'[n]]])
  <2> DEFINE pend2 == [n \in ToSet(el') |-> [time |-> evTime[n], arg |-> evArg[n]]]
  <2>1. CASE el' = <<>>
    <3>1. ToSet(el') = {}
      BY <1>4, <2>1, MembersOfList
    <3>2. ht' = TS!Never
      BY <1>5, <2>1 DEF Never, TS!Never
    <3>3. QED
      BY <3>1, <3>2 DEF TS!SetToEarliest
  <2>2. CASE el' # <<>>
    <3>1. Head(el') \in ToSet(el') /\ Head(el') = el'[1] /\ ht' = evTime[Head(el')]
      BY <1>4, <1>5, <2>2
    <3>2. ASSUME NEW m \in ToSet(el') PROVE evTime[Head(el')] <= evTime[m]
      <4>1. PICK k \in 1 .. Len(el') : el'[k] = m
        BY <1>4, MembersOfList
      <4>2. 1 \in 1 .. Len(el') /\ 1 <= k
        BY <1>4, <2>2, MembersOfList
      <4>3. evTime[el'[1]] <= evTime[el'[k]]
        BY <1>3, <1>4, <4>2 DEF Sorted
      <4>4. QED
        BY <3>1, <4>1, <4>3
    <3>3. TS!Earliest(Head(el'), pend2) /\ ht' = pend2[Head(el')].time
      BY <3>1, <3>2 DEF TS!Earliest
    <3>4. QED
      BY <1>3, <3>1, <3>3 DEF TS!SetToEarliest
  <2>3. QED
    BY <2>1, <2>2
<1>11. TS!Fire(h)
  <2>1. ht <= now
    BY DEF HtIrq
  <2>2. pend' = TS!Without(pend, {h})
    BY <1>1, <1>2, <1>3, MappedWithout
  <2>3. QED
    BY <1>3, <1>9, <1>10, <2>1, <2>2 DEF TS!Fire, TS!HtExpired
<1>12. QED
  BY <1>1, <1>4, <1>7, <1>8, <1>11, ArmedList DEF IInv

-----------------------------------------------------------------------------
\* The three facts about the invariant, with what each step is for TimerService.

LEMMA InvInit == Init => IInv /\ TS!TSInit
<1> SUFFICES ASSUME Init PROVE IInv /\ TS!TSInit
  OBVIOUS
<1>1. ToSet(el) = {} /\ el \in Seq(TNode) /\ IsInjective(el)
  BY EmptyList DEF Init
<1>2. TypeOK
  BY <1>1, PoolAssumption, MaxTimeAssumption DEF Init, TypeOK, Time
<1>3. PoolPartition
  BY <1>1, PoolAssumption DEF Init, PoolPartition
<1>4. Sorted
  <2>1. Len(el) = 0
    BY DEF Init
  <2>2. QED
    BY <2>1 DEF Sorted
<1>5. NoLostTimer
  BY DEF Init, NoLostTimer
<1>6. TS!TSInit
  BY <1>1 DEF Init, TS!TSInit, Never, TS!Never
<1>7. QED
  BY <1>2, <1>3, <1>4, <1>5, <1>6 DEF IInv

LEMMA Step ==
  ASSUME IInv, [Next]_vars
  PROVE  IInv' /\ [TS!TSNext]_(TS!tsVars)
<1>t. Time = TS!Time /\ Never = TS!Never
  BY DEF Time, TS!Time, Never, TS!Never
<1>1. ASSUME NEW t \in Time, NEW a \in Arg, InsertEvent(t, a)
      PROVE  IInv' /\ TS!TSNext
  <2>1. IInv' /\ TS!Arm(Head(fl), t, a)
    BY <1>1, InsertStep
  <2>2. Head(fl) \in TNode
    BY <2>1 DEF TS!Arm
  <2>3. QED
    BY <1>t, <2>1, <2>2 DEF TS!TSNext
<1>2. ASSUME NEW n \in TNode, RemoveEvent(n)
      PROVE  IInv' /\ TS!TSNext
  BY <1>2, RemoveStep DEF TS!TSNext
<1>3. CASE HtIrq
  <2>1. PICK h \in TNode : h = Head(el)
    BY <1>3, PoppedHead DEF HtIrq, IInv, TypeOK
  <2>2. IInv' /\ TS!Fire(h)
    BY <1>3, <2>1, HtStep
  <2>3. QED
    BY <2>2 DEF TS!TSNext
<1>4. ASSUME UNCHANGED <<el, fl, evTime, evArg>>, TypeOK', NoLostTimer'
      PROVE  IInv'
  <2>1. PoolPartition' /\ Sorted'
    BY <1>4 DEF IInv, PoolPartition, Sorted
  <2>2. QED
    BY <1>4, <2>1 DEF IInv
<1>5. CASE HtIrqEmpty
  <2>1. ToSet(el) = {}
    BY <1>5, EmptyList DEF HtIrqEmpty
  <2>2. TypeOK' /\ NoLostTimer'
    BY <1>5 DEF HtIrqEmpty, IInv, TypeOK, NoLostTimer
  <2>3. TS!FireNothing
    BY <1>5, <1>t, <2>1 DEF HtIrqEmpty, TS!FireNothing, TS!HtExpired, TS!Armed
  <2>4. QED
    BY <1>4, <1>5, <2>2, <2>3 DEF HtIrqEmpty, TS!TSNext
<1>6. CASE Elapse
  <2>1. TypeOK' /\ NoLostTimer'
    BY <1>6, MaxTimeAssumption DEF Elapse, IInv, TypeOK, NoLostTimer, Time
  <2>2. TS!Elapse
    BY <1>6 DEF Elapse, TS!Elapse
  <2>3. QED
    BY <1>4, <1>6, <2>1, <2>2 DEF Elapse, TS!TSNext
<1>7. CASE UNCHANGED vars
  <2>1. TypeOK' /\ NoLostTimer'
    BY <1>7 DEF vars, IInv, TypeOK, NoLostTimer
  <2>2. UNCHANGED TS!tsVars
    BY <1>7 DEF vars, TS!tsVars
  <2>3. QED
    BY <1>4, <1>7, <2>1, <2>2 DEF vars
<1>8. QED
  BY <1>1, <1>2, <1>3, <1>5, <1>6, <1>7 DEF Next

LEMMA InvAlways == Spec => []IInv
<1>1. Init => IInv
  BY InvInit
<1>2. IInv /\ [Next]_vars => IInv'
  BY Step
<1>3. QED
  BY <1>1, <1>2, PTL DEF Spec

\* The lists hold nodes of the pool only, and the comparator a date or nothing.
THEOREM TypeCorrect == Spec => []TypeOK
<1>1. IInv => TypeOK
  BY DEF IInv
<1>2. QED
  BY <1>1, InvAlways, PTL

\* No node of the pool is lost, duplicated or on both lists.
THEOREM PoolPartitionAlways == Spec => []PoolPartition
<1>1. IInv => PoolPartition
  BY DEF IInv
<1>2. QED
  BY <1>1, InvAlways, PTL

\* The armed list stays sorted, so the tick may take its head unseen.
THEOREM SortedAlways == Spec => []Sorted
<1>1. IInv => Sorted
  BY DEF IInv
<1>2. QED
  BY <1>1, InvAlways, PTL

\* The comparator is never later than the first armed event, although removal
\* leaves it alone.
THEOREM NoLostTimerAlways == Spec => []NoLostTimer
<1>1. IInv => NoLostTimer
  BY DEF IInv
<1>2. QED
  BY <1>1, InvAlways, PTL

\* Refinement: what Hypervisor assumes of the timer events is what timer_event.c
\* does with its two lists.
THEOREM ServiceImplemented == Spec => ImplementsService
<1>1. Init => TS!TSInit
  BY InvInit
<1>2. IInv /\ [Next]_vars => [TS!TSNext]_(TS!tsVars)
  BY Step
<1>3. QED
  BY <1>1, <1>2, InvAlways, PTL DEF Spec, ImplementsService, TS!TSSpec
=============================================================================
