----------------------------- MODULE TimerEvent -----------------------------
(***************************************************************************)
(* timer_event.c: the event pool as the code keeps it.  Two lists of       *)
(* nodes, _el (armed, sorted by time) and _fl (free, first in first out),  *)
(* and the fields time and arg of each node, which a free node keeps.  The *)
(* handle a caller holds is the node itself and may be stale.              *)
(*                                                                         *)
(* Every operation runs with interrupts masked, so each is one step.       *)
(***************************************************************************)
EXTENDS Naturals, Sequences, FiniteSets, SequencesExt

CONSTANTS TNode,    \* the nodes of _que
          FirstFree,\* the order in which timer_event_init frees them
          Arg,      \* the arguments of the callbacks
          MaxTime,  \* bound: the counter stops there
          Slack     \* how far in the past an event may be armed

ASSUME MaxTimeAssumption == MaxTime \in Nat
ASSUME SlackAssumption   == Slack \in Nat
ASSUME PoolAssumption    ==
  /\ FirstFree \in Seq(TNode)
  /\ TNode = ToSet(FirstFree)
  /\ IsInjective(FirstFree)

VARIABLES el,       \* the armed nodes, earliest first
          fl,       \* the free nodes
          evTime,   \* node -> its time field
          evArg,    \* node -> its arg field
          ht,       \* the comparator of the hypervisor timer
          now       \* the physical counter

vars == <<el, fl, evTime, evArg, ht, now>>

Time  == 0 .. MaxTime
Never == MaxTime + 1     \* htimer_clear: disabled and masked

TypeOK ==
  /\ el \in Seq(TNode)
  /\ fl \in Seq(TNode)
  /\ evTime \in [TNode -> Time]
  /\ evArg \in [TNode -> Arg]
  /\ ht \in Time \cup {Never}
  /\ now \in Time

Init ==
  /\ el = <<>>
  /\ fl = FirstFree
  /\ evTime = [n \in TNode |-> 0]
  /\ evArg \in [TNode -> Arg]     \* zero in the code; unread until the node is armed
  /\ ht = Never
  /\ now = 0

-----------------------------------------------------------------------------
\* Faulty variants, one step away from the code; no action uses them.

ScanStopsAtTie(s, time, i, t) ==
  /\ i \in 1 .. Len(s) + 1
  /\ \A j \in 1 .. i - 1 : time[s[j]] < t
  /\ i <= Len(s) => time[s[i]] >= t

ScanStopsAtEnd(s, time, i, t) == i = Len(s) + 1

InsertWithoutTimer(i, t) == UNCHANGED ht

SetTimerOneEarly(i, t) == ht' = IF i = 1 THEN t - 1 ELSE ht

RemoveWithoutFree(n) ==
  /\ n \in ToSet(el)
  /\ \E i \in 1 .. Len(el) : el[i] = n /\ el' = RemoveAt(el, i)
  /\ UNCHANGED <<fl, evTime, evArg, ht, now>>

RearmAtFired(s) == ht' = IF s = <<>> THEN Never ELSE evTime[Head(el)]

RearmAtLast(s) == ht' = IF s = <<>> THEN Never ELSE evTime[Last(s)]

-----------------------------------------------------------------------------

\* The scan of timer_event_insert: i is the first position whose event is
\* strictly later than t, so that events of equal time stay in arming order.
ScanStopsAt(s, time, i, t) ==
  /\ i \in 1 .. Len(s) + 1
  /\ \A j \in 1 .. i - 1 : time[s[j]] <= t
  /\ i <= Len(s) => time[s[i]] > t

\* Only an event that becomes the head moves the comparator.
SetTimerIfHead(i, t) == ht' = IF i = 1 THEN t ELSE ht

\* timer_event_insert.  A caller that finds the pool empty has broken the
\* contract (alloc then returns NULL, which the code dereferences); Hypervisor
\* shows that its callers never do.
InsertEvent(t, a) ==
  /\ fl # <<>>
  /\ now <= t + Slack
  /\ fl' = Tail(fl)
  /\ evTime' = [evTime EXCEPT ![Head(fl)] = t]
  /\ evArg' = [evArg EXCEPT ![Head(fl)] = a]
  /\ \E i \in 1 .. Len(el) + 1 :
        /\ ScanStopsAt(el, evTime, i, t)
        /\ el' = InsertAt(el, i, Head(fl))
        /\ SetTimerIfHead(i, t)
  /\ UNCHANGED now

\* timer_event_remove(n).  For NULL and for a stale handle, whose node is not in
\* _el, it returns at once: a stuttering step.  The test that should move the
\* comparator off a removed head comes after queue_remove has unlinked it, so it
\* never holds and the comparator is left alone.
RemoveEvent(n) ==
  /\ n \in ToSet(el)
  /\ \E i \in 1 .. Len(el) : el[i] = n /\ el' = RemoveAt(el, i)
  /\ fl' = Append(fl, n)
  /\ UNCHANGED <<evTime, evArg, ht, now>>

RearmForHead(s) == ht' = IF s = <<>> THEN Never ELSE evTime[Head(s)]

\* The timer interrupt: ht_handle clears the timer, timer_event_tick takes the
\* head whatever its time, frees its node, calls it back and re-arms.  The
\* callbacks in use (wake a vCPU, set the scheduler's flag) arm nothing.
HtIrq ==
  /\ ht <= now
  /\ el # <<>>
  /\ el' = Tail(el)
  /\ fl' = Append(fl, Head(el))
  /\ RearmForHead(Tail(el))
  /\ UNCHANGED <<evTime, evArg, now>>

\* The timer interrupt after its event was removed: the timer is only cleared.
HtIrqEmpty ==
  /\ ht <= now
  /\ el = <<>>
  /\ ht' = Never
  /\ UNCHANGED <<el, fl, evTime, evArg, now>>

Elapse ==
  /\ now < MaxTime
  /\ now' = now + 1
  /\ UNCHANGED <<el, fl, evTime, evArg, ht>>

Next ==
  \/ \E t \in Time, a \in Arg : InsertEvent(t, a)
  \/ \E n \in TNode : RemoveEvent(n)
  \/ HtIrq
  \/ HtIrqEmpty
  \/ Elapse

Spec == Init /\ [][Next]_vars

\* Time passes, and an asserted timer interrupt is taken: the hypervisor masks
\* interrupts only while it handles one trap.
FairSpec == Spec /\ WF_vars(Elapse) /\ WF_vars(HtIrq)

-----------------------------------------------------------------------------

\* No node is lost, duplicated or on both lists, whatever stale handles callers
\* pass to timer_event_remove.
PoolPartition ==
  /\ ToSet(el) \cup ToSet(fl) = TNode
  /\ ToSet(el) \cap ToSet(fl) = {}
  /\ IsInjective(el)
  /\ IsInjective(fl)

\* _el stays sorted by time, which timer_event_tick relies on when it takes the
\* head without looking at its time.
Sorted == \A i, j \in 1 .. Len(el) : i <= j => evTime[el[i]] <= evTime[el[j]]

\* The comparator is never later than the first armed event, although removal
\* never re-arms it.
NoLostTimer == el # <<>> => ht <= evTime[Head(el)]

\* Refinement: the lists implement the service the rest of the hypervisor uses.
TS == INSTANCE TimerService WITH
        pending <- [n \in ToSet(el) |-> [time |-> evTime[n], arg |-> evArg[n]]]

ImplementsService == TS!TSSpec

\* The step arms an event for an earlier date than that of the armed node n.
Overtakes(n) == \E m \in ToSet(el') \ ToSet(el) : evTime'[m] < evTime[n]

\* Liveness: the only thing that keeps an armed event waiting for ever is a
\* caller that arms earlier dates for ever, which in the end are past dates.
\* Events armed for the same date do not, nor do stale handles or the comparator
\* that removal leaves behind.  edf_scheduler.c is such a caller: at each
\* reschedule it arms the deadline of the first job of _ws, passed or not.
EventuallyLeaves ==
  \A n \in TNode : <>[](n \in ToSet(el)) => []<><<Overtakes(n)>>_vars
=============================================================================
