---------------------------- MODULE TimerService ----------------------------
(***************************************************************************)
(* What timer_event.c promises to its callers: a pool of one-shot events   *)
(* multiplexed on the hypervisor's physical timer (CNTHP).  An event is    *)
(* armed with timer_event_insert, disarmed with timer_event_remove and     *)
(* leaves on its own when the timer interrupt finds it the earliest.       *)
(*                                                                         *)
(* The module says which events are armed and what the hardware comparator *)
(* holds; how the lists are kept is the business of TimerEvent, which      *)
(* implements it.  Hypervisor is built on this module.                     *)
(***************************************************************************)
EXTENDS Naturals, FiniteSets

CONSTANTS TNode,    \* the nodes of the pool, which are also the callers' handles
          Arg,      \* what the callbacks are called with
          MaxTime   \* bound: the counter stops there

VARIABLES pending,  \* the armed events: handle -> [time, arg]
          ht,       \* the comparator of the hypervisor timer
          now       \* the physical counter (CNTPCT)

tsVars == <<pending, ht, now>>

Time  == 0 .. MaxTime

\* htimer_clear disables and masks the timer: a date the counter does not reach.
\* (What it leaves in the comparator register is unspecified, its assembly names
\* the values as outputs, but nothing reads them.)
Never == MaxTime + 1

Event == [time : Time, arg : Arg]
Armed == DOMAIN pending

TSTypeOK ==
  /\ Armed \subseteq TNode
  /\ pending \in [Armed -> Event]
  /\ ht \in Time \cup {Never}
  /\ now \in Time

TSInit ==
  /\ pending = [n \in {} |-> [time |-> 0, arg |-> 0]]
  /\ ht = Never
  /\ now = 0

-----------------------------------------------------------------------------

\* The timer interrupt is level-triggered: it stays asserted as long as the
\* counter is at or past the comparator.
HtExpired == ht <= now

Without(ev, H) == [n \in DOMAIN ev \ H |-> ev[n]]

Earliest(n, ev) ==
  /\ n \in DOMAIN ev
  /\ \A m \in DOMAIN ev : ev[n].time <= ev[m].time

\* A faulty variant: the tick clears the timer and arms it for nobody.
ClearOnly(ev) == ht' = Never

\* The comparator is set to the earliest event of ev, or cleared.
SetToEarliest(ev) ==
  \/ DOMAIN ev = {} /\ ht' = Never
  \/ \E m \in DOMAIN ev : Earliest(m, ev) /\ ht' = ev[m].time

\* A caller arms a free node.  The comparator moves only if the new event is
\* the first of all.
Arm(n, t, a) ==
  /\ n \in TNode \ Armed
  /\ pending' = [m \in Armed \cup {n} |->
                   IF m = n THEN [time |-> t, arg |-> a] ELSE pending[m]]
  /\ ht' = IF \A m \in Armed : pending[m].time > t THEN t ELSE ht
  /\ UNCHANGED now

\* A caller gives back the events H.  The comparator stays where it was, so it
\* may then be earlier than every armed event, never later.
Disarm(H) ==
  /\ pending' = Without(pending, H)
  /\ UNCHANGED <<ht, now>>

\* The timer interrupt: the earliest event leaves, whatever its time, and the
\* comparator is set for the next one.
Fire(n) ==
  /\ HtExpired
  /\ Earliest(n, pending)
  /\ pending' = Without(pending, {n})
  /\ SetToEarliest(pending')
  /\ UNCHANGED now

FireNothing ==
  /\ HtExpired
  /\ Armed = {}
  /\ ht' = Never
  /\ UNCHANGED <<pending, now>>

Elapse ==
  /\ now < MaxTime
  /\ now' = now + 1
  /\ UNCHANGED <<pending, ht>>

TSNext ==
  \/ \E n \in TNode, t \in Time, a \in Arg : Arm(n, t, a)
  \/ \E n \in TNode : Disarm({n}) \/ Fire(n)
  \/ FireNothing
  \/ Elapse

TSSpec == TSInit /\ [][TSNext]_tsVars

-----------------------------------------------------------------------------

\* Safety: the comparator is never later than an armed event, so no armed event
\* is slept through.  timer_event.c keeps it by touching the comparator only
\* when an event becomes the head of the list and after a tick.
NoLostTimer == \A n \in Armed : ht <= pending[n].time
=============================================================================
