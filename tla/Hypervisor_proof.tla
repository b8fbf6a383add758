-------------------------- MODULE Hypervisor_proof --------------------------
(***************************************************************************)
(* Proofs about Hypervisor, for every set of vCPUs, both schedulers and    *)
(* every bound.                                                            *)
(***************************************************************************)
EXTENDS Hypervisor, ListLemmas

-----------------------------------------------------------------------------
\* What the operations of the timer service do to the armed events.

LEMMA TSDisarm ==
  ASSUME TS!TSTypeOK, NEW H, TS!Disarm(H)
  PROVE  /\ TS!TSTypeOK'
         /\ DOMAIN pending' = DOMAIN pending \ H
         /\ \A n \in DOMAIN pending \ H : pending'[n] = pending[n]
         /\ ht' = ht /\ now' = now
BY DEF TS!TSTypeOK, TS!Disarm, TS!Without, TS!Armed, TS!Event

LEMMA TSArm ==
  ASSUME TS!TSTypeOK, NEW n \in TNode, NEW t \in Time, NEW a \in VCPU, TS!Arm(n, t, a)
  PROVE  /\ TS!TSTypeOK'
         /\ n \notin DOMAIN pending
         /\ DOMAIN pending' = DOMAIN pending \cup {n}
         /\ pending'[n] = [time |-> t, arg |-> a]
         /\ \A m \in DOMAIN pending : pending'[m] = pending[m]
         /\ now' = now
BY DEF TS!TSTypeOK, TS!Arm, TS!Armed, TS!Event, Time

LEMMA TSFire ==
  ASSUME TS!TSTypeOK, NEW n \in TNode, TS!Fire(n)
  PROVE  /\ TS!TSTypeOK'
         /\ n \in DOMAIN pending
         /\ pending[n].arg \in VCPU
         /\ DOMAIN pending' = DOMAIN pending \ {n}
         /\ \A m \in DOMAIN pending \ {n} : pending'[m] = pending[m]
         /\ now' = now
<1>1. /\ n \in DOMAIN pending
      /\ pending' = [m \in DOMAIN pending \ {n} |-> pending[m]]
      /\ now' = now
  BY DEF TS!Fire, TS!Earliest, TS!Without
<1>2. DOMAIN pending \subseteq TNode /\ pending \in [DOMAIN pending -> TS!Event]
  BY DEF TS!TSTypeOK, TS!Armed
<1>3. pending' \in [DOMAIN pending' -> TS!Event]
  BY <1>1, <1>2
<1>4. ht' \in TS!Time \cup {TS!Never}
  <2>1. CASE ht' = TS!Never
    BY <2>1
  <2>2. CASE \E m \in DOMAIN pending' : ht' = pending'[m].time
    BY <2>2, <1>3 DEF TS!Event
  <2>3. QED
    BY <2>1, <2>2 DEF TS!Fire, TS!SetToEarliest
<1>5. QED
  BY <1>1, <1>2, <1>3, <1>4 DEF TS!TSTypeOK, TS!Armed, TS!Event

LEMMA TSKept ==
  ASSUME TS!TSTypeOK, UNCHANGED <<pending, ht, now>>
  PROVE  TS!TSTypeOK'
BY DEF TS!TSTypeOK, TS!Armed

LEMMA TSTick ==
  ASSUME TS!TSTypeOK, TS!FireNothing \/ TS!Elapse
  PROVE  TS!TSTypeOK' /\ pending' = pending
BY TimeAssumption
   DEF TS!TSTypeOK, TS!Armed, TS!FireNothing, TS!Elapse, TS!Time, TS!Never

-----------------------------------------------------------------------------
\* The comparator stays no later than the armed events.

LEMMA TSArmInTime ==
  ASSUME TS!TSTypeOK, TS!NoLostTimer, NEW n \in TNode, NEW t \in Time,
         NEW a \in VCPU, TS!Arm(n, t, a)
  PROVE  TS!NoLostTimer'
<1>1. /\ DOMAIN pending' = DOMAIN pending \cup {n}
      /\ pending'[n] = [time |-> t, arg |-> a]
      /\ \A m \in DOMAIN pending : pending'[m] = pending[m]
  BY TSArm
<1>2. \A m \in DOMAIN pending : pending[m].time \in Nat /\ ht <= pending[m].time
  BY TimeAssumption DEF TS!TSTypeOK, TS!Armed, TS!Event, TS!Time, TS!NoLostTimer
<1>3. t \in Nat /\ ht \in Nat
  BY TimeAssumption DEF TS!TSTypeOK, TS!Time, TS!Never, Time
<1>4. ht' = IF \A m \in DOMAIN pending : pending[m].time > t THEN t ELSE ht
  BY DEF TS!Arm, TS!Armed
<1>5. ht' <= t /\ \A m \in DOMAIN pending : ht' <= pending[m].time
  BY <1>2, <1>3, <1>4
<1>6. QED
  BY <1>1, <1>5 DEF TS!NoLostTimer, TS!Armed

LEMMA TSFireInTime ==
  ASSUME TS!TSTypeOK, NEW n \in TNode, TS!Fire(n)
  PROVE  TS!NoLostTimer'
<1>1. CASE DOMAIN pending' = {}
  BY <1>1 DEF TS!NoLostTimer, TS!Armed
<1>2. CASE \E m \in DOMAIN pending' : TS!Earliest(m, pending') /\ ht' = pending'[m].time
  BY <1>2 DEF TS!NoLostTimer, TS!Armed, TS!Earliest
<1>3. QED
  BY <1>1, <1>2 DEF TS!Fire, TS!SetToEarliest

LEMMA TSTickInTime ==
  ASSUME TS!NoLostTimer, TS!FireNothing \/ TS!Elapse
  PROVE  TS!NoLostTimer'
BY DEF TS!NoLostTimer, TS!Armed, TS!FireNothing, TS!Elapse

-----------------------------------------------------------------------------
\* What the list operations do here.

\* One wake-up appends the sleeping vCPUs of W to the lists, each once.
LEMMA WakeReady ==
  ASSUME ready \in Seq(VCPU), NEW W \in SUBSET VCPU, Wake(W)
  PROVE  /\ ready' \in Seq(VCPU)
         /\ ToSet(ready') = ToSet(ready) \cup W
         /\ IsInjective(ready) /\ ToSet(ready) \cap W = {} => IsInjective(ready')
         /\ W = {} => ready' = ready
<1>1. IsFiniteSet(W)
  BY VcpuAssumption, FS_Subset
<1>2. PICK s \in SetToSeqs(W) : ready' = ready \o s
  BY DEF Wake
<1>3. s \in Seq(VCPU) /\ ToSet(s) = W /\ IsInjective(s)
  BY <1>1, Enumerated
<1>4. W = {} => s = <<>>
  BY <1>3, MembersOfList
<1>5. W = {} => ready' = ready
  BY <1>2, <1>4, ConcatEmptySeq
<1>6. QED
  BY <1>2, <1>3, <1>5, JoinedLists

\* A pick takes one vCPU off the lists.
LEMMA PickedReady ==
  ASSUME ready \in Seq(VCPU), NEW k \in 1 .. Len(ready)
  PROVE  /\ ready[k] \in VCPU
         /\ ready[k] \in ToSet(ready)
         /\ Taken(k) \in Seq(VCPU)
         /\ IsInjective(ready) => /\ IsInjective(Taken(k))
                                 /\ ToSet(Taken(k)) = ToSet(ready) \ {ready[k]}
BY MembersOfList, RemovedAt, RemovedMember DEF Taken

-----------------------------------------------------------------------------
\* Type correctness.  It needs SingleRunning, which says that exec is a vCPU
\* whenever the guest runs.

LEMMA TypeReschedule ==
  ASSUME TypeOK, Reschedule
  PROVE  TypeOK' \/ ~(pc' \in {"boot", "guest", "sched", "idle"})
<1> USE DEF TypeOK, schedVars, timerVars
<1>1. ASSUME NEW k \in 1 .. Len(ready), StartFromIdle(k) \/ Switch(k)
      PROVE  TypeOK' \/ ~(pc' \in {"boot", "guest", "sched", "idle"})
  <2>1. ready[k] \in VCPU /\ Taken(k) \in Seq(VCPU)
    BY PickedReady
  <2>2. TS!TSTypeOK'
    BY <1>1, TSDisarm DEF StartFromIdle, Switch, Load, DropEvents
  <2>3. VmOf[ready[k]] \in VM
    BY <2>1, VcpuAssumption
  <2>4. CASE StartFromIdle(k)
    BY <2>1, <2>2, <2>3, <2>4 DEF StartFromIdle, Load
  <2>5. CASE Switch(k)
    <3>1. exec \in VCPU
      BY <2>5 DEF Switch
    <3>2. ready' \in Seq(VCPU)
      BY <2>1, <2>5, <3>1, AppendedMember DEF Switch, Requeue
    <3>3. QED
      BY <2>1, <2>2, <2>3, <2>5, <3>1, <3>2 DEF Switch, Load, SavedBy, HcrForSwitch
  <2>6. QED
    BY <1>1, <2>4, <2>5
<1>2. ASSUME KeepCpu
      PROVE  TypeOK' \/ ~(pc' \in {"boot", "guest", "sched", "idle"})
  <2>1. free' \in 0 .. SchedNodes
    BY <1>2, PoolAssumption DEF KeepCpu, ReadPastLevels
  <2>2. TS!TSTypeOK'
    BY <1>2, TSKept DEF KeepCpu
  <2>3. QED
    BY <1>2, <2>1, <2>2 DEF KeepCpu
<1>3. QED
  BY <1>1, <1>2 DEF Reschedule

\* What every path into the common tail of the handlers has in common.
LEMMA TypeWake ==
  ASSUME TypeOK, NEW W \in SUBSET VCPU, Wake(W), pc' \in {"guest", "sched"},
         vtirq' \in VCPU \cup {NULL, Lost}
  PROVE  TypeOK'
<1> USE DEF TypeOK
<1>1. ready' \in Seq(VCPU)
  BY WakeReady
<1>2. TS!TSTypeOK'
  BY TSDisarm DEF Wake, DropEvents
<1>3. flag' \in BOOLEAN
  BY DEF Wake, FlagAfterUnblock
<1>4. QED
  BY <1>1, <1>2, <1>3 DEF Wake

LEMMA TypeStep ==
  ASSUME TypeOK, SingleRunning, Next
  PROVE  TypeOK'
<1> USE DEF TypeOK, schedVars, timerVars, Trap, Interrupt
<1>g. pc = "guest" => exec \in VCPU
  BY DEF SingleRunning
<1>k. UNCHANGED <<pending, ht, now>> => TS!TSTypeOK'
  BY TSKept
<1>1. CASE Boot
  BY <1>1, TypeReschedule DEF Boot
<1>2. CASE Dispatch
  <2>1. pc' \in {"guest", "idle"}
    BY <1>2 DEF Dispatch, Leave
  <2>2. CASE flag /\ Reschedule
    BY <2>1, <2>2, TypeReschedule
  <2>3. CASE ~flag
    BY <1>2, <1>k, <2>1, <2>3 DEF Dispatch
  <2>4. QED
    BY <1>2, <2>2, <2>3 DEF Dispatch
<1>3. CASE GuestWfi
  <2>1. exec \in VCPU
    BY <1>3, <1>g DEF GuestWfi
  <2>2. vt[exec] <= now => vt[exec] \in Time
    BY <2>1, TimeAssumption DEF TS!TSTypeOK, Time, Never, TS!Time, TS!Never
  <2>3. TS!TSTypeOK' /\ tev' \in [VCPU -> TNode \cup {NULL}]
    <3>1. CASE UNCHANGED timerVars
      BY <3>1, <1>k
    <3>2. ASSUME NEW n \in TNode, vt[exec] <= now, TS!Arm(n, vt[exec], exec),
                 tev' = [tev EXCEPT ![exec] = n]
          PROVE  TS!TSTypeOK' /\ tev' \in [VCPU -> TNode \cup {NULL}]
      BY <2>1, <2>2, <3>2, TSArm
    <3>3. QED
      BY <1>3, <3>1, <3>2 DEF GuestWfi
  <2>4. QED
    BY <1>3, <2>1, <2>3 DEF GuestWfi, SavedBy
<1>4. CASE GuestYield
  BY <1>4, <1>k DEF GuestYield
<1>5. CASE GuestTrap
  BY <1>5, <1>k DEF GuestTrap
<1>6. ASSUME NEW W \in SUBSET VCPU, GuestSgi(W) PROVE TypeOK'
  BY <1>6, TypeWake DEF GuestSgi
<1>7. ASSUME NEW v \in VCPU, GuestVint(v) PROVE TypeOK'
  BY <1>7, TypeWake DEF GuestVint
<1>8. ASSUME NEW v \in VCPU, CpuOn(v) PROVE TypeOK'
  <2>1. ready' \in Seq(VCPU)
    BY <1>8, AppendedMember DEF CpuOn
  <2>2. free' \in 0 .. SchedNodes
    BY <1>8, PoolAssumption DEF CpuOn
  <2>3. hasNode' \in [VCPU -> BOOLEAN]
    BY <1>8 DEF CpuOn
  <2>4. QED
    BY <1>8, <1>k, <2>1, <2>2, <2>3 DEF CpuOn
<1>9. CASE CpuOff
  BY <1>9, <1>k DEF CpuOff
<1>10. ASSUME NEW t \in Time \cup {Never}, GuestSetTimer(t) PROVE TypeOK'
  BY <1>10, <1>k DEF GuestSetTimer
<1>11. CASE GuestEoi
  BY <1>11, <1>k DEF GuestEoi
<1>12. ASSUME NEW m \in VM, NEW W \in SUBSET VCPU, DeviceIrq(m, W) PROVE TypeOK'
  BY <1>12, TypeWake DEF DeviceIrq
<1>13. CASE VtimerIrq
  <2>1. \E W \in SUBSET VCPU : Wake(W)
    BY <1>13 DEF VtimerIrq, Sleeping
  <2>2. pc' = "sched" /\ vtirq' \in VCPU \cup {NULL, Lost}
    BY <1>13 DEF VtimerIrq
  <2>3. QED
    BY <2>1, <2>2, TypeWake
<1>14. ASSUME NEW n \in TNode, HtIrq(n) PROVE TypeOK'
  <2> DEFINE v == pending[n].arg
  <2>1. v \in VCPU /\ TS!TSTypeOK'
    BY <1>14, TSFire DEF HtIrq
  <2>2. Append(ready, v) \in Seq(VCPU)
    BY <2>1, AppendedMember
  <2>3. \/ ready' = Append(ready, v) /\ flag' = FlagAfterUnblock
        \/ ready' = ready /\ flag' = flag
    BY <1>14 DEF HtIrq
  <2>4. ready' \in Seq(VCPU) /\ flag' \in BOOLEAN
    BY <2>2, <2>3 DEF FlagAfterUnblock
  <2>5. QED
    BY <1>14, <2>1, <2>4 DEF HtIrq
<1>15. CASE HtIrqEmpty
  BY <1>15, TSTick DEF HtIrqEmpty
<1>16. CASE Elapse
  BY <1>16, TSTick DEF Elapse
<1>17. QED
  BY <1>1, <1>2, <1>3, <1>4, <1>5, <1>6, <1>7, <1>8, <1>9, <1>10, <1>11, <1>12,
     <1>13, <1>14, <1>15, <1>16 DEF Next

-----------------------------------------------------------------------------
\* The inductive invariant.  None of its parts is inductive alone: a timer tick
\* keeps the lists exact only because its event belongs to a sleeping vCPU
\* (TimerHandles), a pick keeps the handles exact only because a listed vCPU does
\* not sleep (ReadyExact), and every trap needs the vCPU that executes to be the
\* one that is started (SingleRunning).

IInv ==
  /\ TypeOK
  /\ SingleRunning
  /\ ReadyExact
  /\ TimerHandles
  /\ ContextSaved
  /\ HcrMatches
  /\ TS!NoLostTimer

\* An armed event belongs to a vCPU.
LEMMA ArmedEvent ==
  ASSUME TS!TSTypeOK, NEW n \in DOMAIN pending
  PROVE  n \in TNode /\ n # NULL /\ pending[n].arg \in VCPU
BY NullAssumption DEF TS!TSTypeOK, TS!Armed, TS!Event

\* Disarming never makes the comparator late.
LEMMA TSDisarmInTime ==
  ASSUME TS!TSTypeOK, TS!NoLostTimer, NEW H, TS!Disarm(H)
  PROVE  TS!NoLostTimer'
BY TSDisarm DEF TS!NoLostTimer, TS!Armed

\* A step that moves no vCPU, no handle and no event.
LEMMA QuietStep ==
  ASSUME IInv, TypeOK', TS!NoLostTimer',
         UNCHANGED <<state, exec, last, ready, hasNode, tev, pending, saved, hcr>>,
         pc' = "guest" => exec # NULL,
         pc' \in {"boot", "idle"} => exec = NULL
  PROVE  IInv'
<1>1. SingleRunning'
  BY DEF IInv, SingleRunning
<1>2. ReadyExact'
  BY DEF IInv, ReadyExact
<1>3. TimerHandles'
  BY DEF IInv, TimerHandles
<1>4. ContextSaved' /\ HcrMatches'
  BY DEF IInv, ContextSaved, HcrMatches
<1>5. QED
  BY <1>1, <1>2, <1>3, <1>4 DEF IInv

\* Loading a vCPU from the lists leaves every event armed: it has none.
LEMMA LoadStep ==
  ASSUME IInv, NEW k \in 1 .. Len(ready), NEW S, Load(ready[k], S)
  PROVE  /\ ready[k] \in VCPU /\ state[ready[k]] = "wait" /\ hasNode[ready[k]]
         /\ DOMAIN pending' = DOMAIN pending
         /\ \A n \in DOMAIN pending : pending'[n] = pending[n]
         /\ tev' = tev
         /\ TS!NoLostTimer'
<1> DEFINE v == ready[k]
<1>1. TypeOK /\ TS!TSTypeOK
  BY DEF IInv, TypeOK
<1>2. v \in VCPU /\ state[v] = "wait" /\ hasNode[v]
  BY <1>1, PickedReady DEF IInv, TypeOK, ReadyExact
<1>3. tev[v] = NULL
  BY <1>2 DEF IInv, TimerHandles
<1>4. {tev[u] : u \in {v}} = {NULL}
  BY <1>3
<1>5. TS!Disarm({NULL})
  BY <1>4 DEF Load, DropEvents
<1>6. NULL \notin DOMAIN pending
  BY <1>1, ArmedEvent
<1>7. /\ DOMAIN pending' = DOMAIN pending
      /\ \A n \in DOMAIN pending : pending'[n] = pending[n]
  <2>1. /\ DOMAIN pending' = DOMAIN pending \ {NULL}
        /\ \A n \in DOMAIN pending \ {NULL} : pending'[n] = pending[n]
    BY <1>1, <1>5, TSDisarm
  <2>2. DOMAIN pending \ {NULL} = DOMAIN pending
    BY <1>6
  <2>3. QED
    BY <2>1, <2>2
<1>8. tev' = tev
  BY <1>1, <1>2, <1>3 DEF Load, TypeOK
<1>9. TS!NoLostTimer'
  BY <1>1, <1>5, TSDisarmInTime DEF IInv
<1>10. QED
  BY <1>2, <1>7, <1>8, <1>9

\* vcpu_preemption of an idle CPU.
LEMMA StartStep ==
  ASSUME IInv, TypeOK', NEW k \in 1 .. Len(ready), StartFromIdle(k),
         pc' \in {"guest", "sched"}
  PROVE  IInv'
<1> DEFINE v == ready[k]
<1>1. TypeOK
  BY DEF IInv
<1>2. Load(v, saved) /\ exec = NULL
  BY DEF StartFromIdle
<1>3. v \in VCPU /\ state[v] = "wait" /\ hasNode[v]
  BY <1>2, LoadStep
<1>4. /\ DOMAIN pending' = DOMAIN pending
      /\ \A n \in DOMAIN pending : pending'[n] = pending[n]
      /\ tev' = tev
      /\ TS!NoLostTimer'
  BY <1>2, LoadStep
<1>5. state' = [state EXCEPT ![v] = "start"] /\ exec' = v /\ last' = v
      /\ saved' = saved \ {v} /\ hcr' = VmOf[v] /\ hasNode' = hasNode
  BY DEF StartFromIdle, Load
<1>6. SingleRunning'
  BY <1>1, <1>2, <1>3, <1>5, NullAssumption DEF IInv, SingleRunning, TypeOK
<1>7. ReadyExact'
  <2>1. ready' = Taken(k) /\ IsInjective(ready)
    BY DEF StartFromIdle, IInv, ReadyExact
  <2>2. IsInjective(ready') /\ ToSet(ready') = ToSet(ready) \ {v}
    BY <1>1, <2>1, PickedReady DEF TypeOK
  <2>3. QED
    BY <1>1, <1>3, <1>5, <2>2 DEF IInv, ReadyExact, TypeOK
<1>8. TimerHandles'
  BY <1>1, <1>3, <1>4, <1>5 DEF IInv, TimerHandles, TypeOK
<1>9. ContextSaved'
  BY <1>1, <1>3, <1>5 DEF IInv, ContextSaved, TypeOK
<1>10. HcrMatches'
  BY <1>5 DEF HcrMatches
<1>11. QED
  BY <1>4, <1>6, <1>7, <1>8, <1>9, <1>10 DEF IInv

\* vcpu_preemption of a running vCPU.
LEMMA SwitchStep ==
  ASSUME IInv, TypeOK', NEW k \in 1 .. Len(ready), Switch(k),
         pc' \in {"guest", "sched"}
  PROVE  IInv'
<1> DEFINE v == ready[k]
<1>1. TypeOK
  BY DEF IInv
<1>2. Load(v, SavedBy(exec)) /\ exec \in VCPU
  BY <1>1 DEF Switch, TypeOK
<1>3. v \in VCPU /\ state[v] = "wait" /\ hasNode[v]
  BY <1>2, LoadStep
<1>4. /\ DOMAIN pending' = DOMAIN pending
      /\ \A n \in DOMAIN pending : pending'[n] = pending[n]
      /\ tev' = tev
      /\ TS!NoLostTimer'
  BY <1>2, LoadStep
<1>5. /\ state' = [state EXCEPT ![exec] = "wait", ![v] = "start"]
      /\ exec' = v /\ last' = v
      /\ saved' = (saved \cup {exec}) \ {v} /\ hasNode' = hasNode
  BY DEF Switch, Load, SavedBy
<1>6. state[exec] = "start" /\ exec # v /\ hasNode[exec]
  BY <1>2, <1>3 DEF IInv, SingleRunning, ReadyExact
<1>7. SingleRunning'
  BY <1>1, <1>2, <1>3, <1>5, <1>6, NullAssumption DEF IInv, SingleRunning, TypeOK
<1>8. ReadyExact'
  <2>1. ready' = Append(Taken(k), exec) /\ IsInjective(ready) /\ exec \notin ToSet(ready)
    BY <1>2, <1>6 DEF Switch, Requeue, IInv, ReadyExact
  <2>2. Taken(k) \in Seq(VCPU) /\ IsInjective(Taken(k)) /\ ToSet(Taken(k)) = ToSet(ready) \ {v}
    BY <1>1, <2>1, PickedReady DEF TypeOK
  <2>3. IsInjective(ready') /\ ToSet(ready') = (ToSet(ready) \ {v}) \cup {exec}
    BY <1>2, <2>1, <2>2, AppendedMember
  <2>4. QED
    BY <1>1, <1>2, <1>3, <1>5, <1>6, <2>3 DEF IInv, ReadyExact, TypeOK
<1>9. TimerHandles'
  BY <1>1, <1>2, <1>3, <1>4, <1>5, <1>6 DEF IInv, TimerHandles, TypeOK
<1>10. ContextSaved'
  BY <1>1, <1>2, <1>3, <1>5, <1>6 DEF IInv, ContextSaved, TypeOK
<1>11. HcrMatches'
  BY <1>2, <1>5 DEF IInv, HcrMatches, Switch, HcrForSwitch
<1>12. QED
  BY <1>4, <1>7, <1>8, <1>9, <1>10, <1>11 DEF IInv

\* Any wake-up of sleeping vCPUs, whoever calls it.
LEMMA WakeStep ==
  ASSUME IInv, TypeOK', NEW W \in SUBSET VCPU, W \subseteq Sleeping(VCPU), Wake(W),
         pc' = "sched"
  PROVE  IInv'
<1> DEFINE H == {tev[v] : v \in W}
<1>1. TypeOK /\ TS!TSTypeOK
  BY DEF IInv, TypeOK
<1>2. \A v \in W : v \in VCPU /\ state[v] = "sleep"
  BY DEF Sleeping
<1>3. /\ state' = [v \in VCPU |-> IF v \in W THEN "wait" ELSE state[v]]
      /\ tev' = [v \in VCPU |-> IF v \in W THEN NULL ELSE tev[v]]
      /\ TS!Disarm(H)
      /\ UNCHANGED <<exec, last, hasNode, saved, hcr>>
  BY DEF Wake, DropEvents
<1>4. SingleRunning'
  BY <1>1, <1>2, <1>3 DEF IInv, SingleRunning, TypeOK
<1>5. ReadyExact'
  <2>1. ToSet(ready) \cap W = {}
    BY <1>2 DEF IInv, ReadyExact
  <2>2. IsInjective(ready') /\ ToSet(ready') = ToSet(ready) \cup W
    BY <1>1, <2>1, WakeReady DEF IInv, ReadyExact, TypeOK
  <2>3. QED
    BY <1>1, <1>2, <1>3, <2>2 DEF IInv, ReadyExact, TypeOK
<1>6. TimerHandles'
  <2>1. /\ DOMAIN pending' = DOMAIN pending \ H
        /\ \A n \in DOMAIN pending \ H : pending'[n] = pending[n]
    BY <1>1, <1>3, TSDisarm
  <2>2. ASSUME NEW n \in DOMAIN pending'
        PROVE  tev'[pending'[n].arg] = n
    <3>1. pending[n].arg \in VCPU /\ tev[pending[n].arg] = n /\ n \notin H
      BY <1>1, <2>1, ArmedEvent DEF IInv, TimerHandles
    <3>2. pending[n].arg \notin W
      BY <3>1
    <3>3. QED
      BY <1>3, <2>1, <3>1, <3>2
  <2>3. ASSUME NEW v \in VCPU, tev'[v] # NULL
        PROVE  /\ tev'[v] \in DOMAIN pending'
               /\ pending'[tev'[v]].arg = v
               /\ state'[v] = "sleep"
    <3>1. v \notin W /\ tev'[v] = tev[v] /\ tev[v] # NULL
      BY <1>3, <2>3
    <3>2. tev[v] \in DOMAIN pending /\ pending[tev[v]].arg = v /\ state[v] = "sleep"
      BY <3>1 DEF IInv, TimerHandles
    <3>3. tev[v] \notin H
      <4>1. SUFFICES ASSUME NEW w \in W, tev[w] = tev[v] PROVE FALSE
        OBVIOUS
      <4>2. pending[tev[w]].arg = w
        BY <1>2, <3>1, <4>1 DEF IInv, TimerHandles
      <4>3. QED
        BY <3>1, <3>2, <4>1, <4>2
    <3>4. QED
      BY <1>3, <2>1, <3>1, <3>2, <3>3
  <2>4. QED
    BY <2>2, <2>3 DEF TimerHandles
<1>7. ContextSaved' /\ HcrMatches'
  BY <1>1, <1>2, <1>3 DEF IInv, ContextSaved, HcrMatches, TypeOK
<1>8. TS!NoLostTimer'
  BY <1>1, <1>3, TSDisarmInTime DEF IInv
<1>9. QED
  BY <1>4, <1>5, <1>6, <1>7, <1>8 DEF IInv

\* vcpu_sleep.
LEMMA WfiStep ==
  ASSUME IInv, TypeOK', GuestWfi
  PROVE  IInv'
<1>1. TypeOK /\ TS!TSTypeOK /\ pc' = "sched"
  BY DEF IInv, TypeOK, GuestWfi, Trap
<1>2. exec \in VCPU /\ state[exec] = "start" /\ hasNode[exec]
  BY <1>1 DEF IInv, SingleRunning, ReadyExact, TypeOK, GuestWfi, Trap
<1>3. tev[exec] = NULL
  BY <1>2 DEF IInv, TimerHandles
<1>4. /\ state' = [state EXCEPT ![exec] = "sleep"] /\ exec' = NULL
      /\ saved' = saved \cup {exec} /\ UNCHANGED <<last, ready, hasNode, hcr>>
  BY DEF GuestWfi, SavedBy
<1>5. SingleRunning'
  BY <1>1, <1>2, <1>4, NullAssumption DEF IInv, SingleRunning, TypeOK
<1>6. ReadyExact'
  BY <1>1, <1>2, <1>4 DEF IInv, ReadyExact, TypeOK
<1>7. ContextSaved' /\ HcrMatches'
  BY <1>1, <1>2, <1>4 DEF IInv, ContextSaved, HcrMatches, TypeOK
<1>8. TimerHandles' /\ TS!NoLostTimer'
  <2>1. CASE UNCHANGED timerVars
    <3>1. TimerHandles'
      BY <1>1, <1>2, <1>3, <1>4, <2>1 DEF IInv, TimerHandles, TypeOK, timerVars
    <3>2. TS!NoLostTimer'
      BY <2>1 DEF IInv, TS!NoLostTimer, TS!Armed, timerVars
    <3>3. QED
      BY <3>1, <3>2
  <2>2. ASSUME NEW n \in TNode, vt[exec] <= now, TS!Arm(n, vt[exec], exec),
               tev' = [tev EXCEPT ![exec] = n]
        PROVE  TimerHandles' /\ TS!NoLostTimer'
    <3>1. vt[exec] \in Time
      BY <1>1, <1>2, <2>2, TimeAssumption
         DEF TypeOK, TS!TSTypeOK, Time, Never, TS!Time, TS!Never
    <3>2. /\ n \notin DOMAIN pending
          /\ DOMAIN pending' = DOMAIN pending \cup {n}
          /\ pending'[n] = [time |-> vt[exec], arg |-> exec]
          /\ \A m \in DOMAIN pending : pending'[m] = pending[m]
      BY <1>1, <1>2, <2>2, <3>1, TSArm
    <3>3. TS!NoLostTimer'
      BY <1>1, <1>2, <2>2, <3>1, TSArmInTime DEF IInv
    <3>4. ASSUME NEW m \in DOMAIN pending' PROVE tev'[pending'[m].arg] = m
      <4>1. CASE m = n
        BY <1>1, <1>2, <2>2, <3>2, <4>1 DEF TypeOK
      <4>2. CASE m \in DOMAIN pending
        <5>1. pending[m].arg \in VCPU /\ tev[pending[m].arg] = m /\ m # NULL
          BY <1>1, <4>2, ArmedEvent DEF IInv, TimerHandles
        <5>2. pending[m].arg # exec
          BY <1>3, <5>1
        <5>3. QED
          BY <1>1, <2>2, <3>2, <4>2, <5>1, <5>2 DEF TypeOK
      <4>3. QED
        BY <3>2, <4>1, <4>2
    <3>5. ASSUME NEW v \in VCPU, tev'[v] # NULL
          PROVE  /\ tev'[v] \in DOMAIN pending'
                 /\ pending'[tev'[v]].arg = v
                 /\ state'[v] = "sleep"
      <4>1. CASE v = exec
        BY <1>1, <1>2, <1>4, <2>2, <3>2, <4>1 DEF TypeOK
      <4>2. CASE v # exec
        BY <1>1, <1>4, <2>2, <3>2, <3>5, <4>2 DEF IInv, TimerHandles, TypeOK
      <4>3. QED
        BY <4>1, <4>2
    <3>6. QED
      BY <3>3, <3>4, <3>5 DEF TimerHandles
  <2>3. QED
    BY <2>1, <2>2 DEF GuestWfi
<1>9. QED
  BY <1>5, <1>6, <1>7, <1>8 DEF IInv

\* CPU_ON.
LEMMA CpuOnStep ==
  ASSUME IInv, TypeOK', NEW v \in VCPU, CpuOn(v)
  PROVE  IInv'
<1>1. TypeOK /\ pc' = "sched" /\ state[v] = "init"
  BY DEF IInv, CpuOn, Trap
<1>2. /\ state' = [state EXCEPT ![v] = "wait"]
      /\ hasNode' = [hasNode EXCEPT ![v] = free > 0]
      /\ saved' = saved \cup {v}
      /\ UNCHANGED <<exec, last, tev, pending, ht, now, hcr>>
  BY DEF CpuOn, timerVars
<1>3. SingleRunning'
  BY <1>1, <1>2 DEF IInv, SingleRunning, TypeOK
<1>4. ReadyExact'
  <2>1. v \notin ToSet(ready)
    BY <1>1 DEF IInv, ReadyExact
  <2>2. CASE free > 0
    <3>1. ready' = Append(ready, v)
      BY <2>2 DEF CpuOn
    <3>2. IsInjective(ready') /\ ToSet(ready') = ToSet(ready) \cup {v}
      BY <1>1, <2>1, <3>1, AppendedMember DEF IInv, ReadyExact, TypeOK
    <3>3. hasNode'[v] = TRUE
      BY <1>1, <1>2, <2>2 DEF TypeOK
    <3>4. QED
      BY <1>1, <1>2, <3>2, <3>3 DEF IInv, ReadyExact, TypeOK
  <2>3. CASE ~(free > 0)
    <3>1. ready' = ready
      BY <2>3 DEF CpuOn
    <3>2. hasNode'[v] = FALSE
      BY <1>1, <1>2, <2>3 DEF TypeOK
    <3>3. QED
      BY <1>1, <1>2, <2>1, <3>1, <3>2 DEF IInv, ReadyExact, TypeOK
  <2>4. QED
    BY <2>2, <2>3
<1>5. TimerHandles'
  BY <1>1, <1>2 DEF IInv, TimerHandles, TypeOK
<1>6. ContextSaved' /\ HcrMatches' /\ TS!NoLostTimer'
  BY <1>1, <1>2 DEF IInv, ContextSaved, HcrMatches, TypeOK, TS!NoLostTimer, TS!Armed
<1>7. QED
  BY <1>3, <1>4, <1>5, <1>6 DEF IInv

\* CPU_OFF.
LEMMA CpuOffStep ==
  ASSUME IInv, TypeOK', CpuOff
  PROVE  IInv'
<1>1. TypeOK /\ pc' = "sched"
  BY DEF IInv, CpuOff, Trap
<1>2. exec \in VCPU /\ state[exec] = "start"
  BY <1>1 DEF IInv, SingleRunning, TypeOK, CpuOff, Trap
<1>3. /\ state' = [state EXCEPT ![exec] = "init"] /\ exec' = NULL
      /\ UNCHANGED <<last, ready, hasNode, tev, pending, ht, now, saved, hcr>>
  BY DEF CpuOff, timerVars, schedVars
<1>4. SingleRunning'
  BY <1>1, <1>2, <1>3, NullAssumption DEF IInv, SingleRunning, TypeOK
<1>5. ReadyExact'
  BY <1>1, <1>2, <1>3 DEF IInv, ReadyExact, TypeOK
<1>6. TimerHandles'
  BY <1>1, <1>2, <1>3 DEF IInv, TimerHandles, TypeOK
<1>7. ContextSaved' /\ HcrMatches' /\ TS!NoLostTimer'
  BY <1>1, <1>2, <1>3 DEF IInv, ContextSaved, HcrMatches, TypeOK, TS!NoLostTimer, TS!Armed
<1>8. QED
  BY <1>4, <1>5, <1>6, <1>7 DEF IInv

\* The tick of the hypervisor timer.
LEMMA HtIrqStep ==
  ASSUME IInv, TypeOK', NEW n \in TNode, HtIrq(n)
  PROVE  IInv'
<1> DEFINE v == pending[n].arg
<1>1. TypeOK /\ TS!TSTypeOK /\ TS!Fire(n) /\ pc' = "sched"
  BY DEF IInv, TypeOK, HtIrq, Interrupt
<1>2. /\ n \in DOMAIN pending /\ v \in VCPU
      /\ DOMAIN pending' = DOMAIN pending \ {n}
      /\ \A m \in DOMAIN pending \ {n} : pending'[m] = pending[m]
  BY <1>1, TSFire
<1>3. n # NULL
  BY <1>1, <1>2, ArmedEvent
<1>4. tev[v] = n
  BY <1>2 DEF IInv, TimerHandles
<1>5. state[v] = "sleep"
  BY <1>2, <1>3, <1>4 DEF IInv, TimerHandles
<1>6. /\ state' = [state EXCEPT ![v] = "wait"] /\ tev' = [tev EXCEPT ![v] = NULL]
      /\ ready' = Append(ready, v) /\ UNCHANGED <<exec, last, hasNode, saved, hcr>>
  BY <1>5 DEF HtIrq
<1>7. SingleRunning'
  BY <1>1, <1>2, <1>5, <1>6 DEF IInv, SingleRunning, TypeOK
<1>8. ReadyExact'
  <2>1. v \notin ToSet(ready) /\ hasNode[v]
    BY <1>2, <1>5 DEF IInv, ReadyExact
  <2>2. IsInjective(ready') /\ ToSet(ready') = ToSet(ready) \cup {v}
    BY <1>1, <1>2, <1>6, <2>1, AppendedMember DEF IInv, ReadyExact, TypeOK
  <2>3. QED
    BY <1>1, <1>2, <1>6, <2>1, <2>2 DEF IInv, ReadyExact, TypeOK
<1>9. TimerHandles'
  <2>1. ASSUME NEW m \in DOMAIN pending' PROVE tev'[pending'[m].arg] = m
    <3>1. m \in DOMAIN pending /\ m # n /\ pending'[m] = pending[m]
      BY <1>2
    <3>2. pending[m].arg \in VCPU /\ tev[pending[m].arg] = m
      BY <1>1, <3>1, ArmedEvent DEF IInv, TimerHandles
    <3>3. QED
      BY <1>1, <1>4, <1>6, <3>1, <3>2 DEF TypeOK
  <2>2. ASSUME NEW u \in VCPU, tev'[u] # NULL
        PROVE  /\ tev'[u] \in DOMAIN pending'
               /\ pending'[tev'[u]].arg = u
               /\ state'[u] = "sleep"
    <3>1. u # v /\ tev'[u] = tev[u]
      BY <1>1, <1>2, <1>6, <2>2 DEF TypeOK
    <3>2. tev[u] \in DOMAIN pending /\ pending[tev[u]].arg = u /\ state[u] = "sleep"
      BY <2>2, <3>1 DEF IInv, TimerHandles
    <3>3. QED
      BY <1>1, <1>2, <1>6, <3>1, <3>2 DEF TypeOK
  <2>3. QED
    BY <2>1, <2>2 DEF TimerHandles
<1>10. ContextSaved' /\ HcrMatches'
  BY <1>1, <1>2, <1>5, <1>6 DEF IInv, ContextSaved, HcrMatches, TypeOK
<1>11. TS!NoLostTimer'
  BY <1>1, TSFireInTime
<1>12. QED
  BY <1>7, <1>8, <1>9, <1>10, <1>11 DEF IInv

-----------------------------------------------------------------------------
\* The three facts about the inductive invariant, and what follows from it.

LEMMA InvInit == Init => IInv
<1> SUFFICES ASSUME Init PROVE IInv
  OBVIOUS
<1>1. Cardinality(VCPU) \in Nat
  BY VcpuAssumption, FS_CardinalityType
<1>2. free \in 0 .. SchedNodes
  BY <1>1, PoolAssumption DEF Init
<1>3. DOMAIN pending = {} /\ ht = TS!Never /\ now = 0
  BY DEF Init, TS!TSInit
<1>4. TS!TSTypeOK
  BY <1>3, TimeAssumption DEF TS!TSTypeOK, TS!Armed, TS!Time
<1>5. TypeOK
  BY <1>2, <1>4, BootAssumption DEF Init, TypeOK
<1>6. SingleRunning
  BY NullAssumption DEF Init, SingleRunning
<1>7. ToSet(BootOrder) \subseteq VCPU
  BY BootAssumption, MembersOfList
<1>8. ReadyExact
  BY <1>7, BootAssumption DEF Init, ReadyExact
<1>9. TimerHandles /\ TS!NoLostTimer
  BY <1>3 DEF Init, TimerHandles, TS!NoLostTimer, TS!Armed
<1>10. ContextSaved /\ HcrMatches
  BY DEF Init, ContextSaved, HcrMatches
<1>11. QED
  BY <1>5, <1>6, <1>8, <1>9, <1>10 DEF IInv

\* Boot and the common tail of the handlers.
LEMMA RescheduleStep ==
  ASSUME IInv, TypeOK', Reschedule, pc' = "sched" \/ Leave
  PROVE  IInv'
<1>1. ASSUME NEW k \in 1 .. Len(ready), StartFromIdle(k) \/ Switch(k)
      PROVE  IInv'
  <2>1. ready[k] \in VCPU /\ exec' = ready[k]
    BY <1>1, PickedReady DEF StartFromIdle, Switch, Load, IInv, TypeOK
  <2>2. pc' \in {"guest", "sched"}
    BY <2>1, NullAssumption DEF Leave
  <2>3. QED
    BY <1>1, <2>2, StartStep, SwitchStep
<1>2. CASE KeepCpu
  <2>1. UNCHANGED <<state, exec, last, ready, hasNode, tev, pending, ht, now, saved, hcr>>
    BY <1>2 DEF KeepCpu, timerVars
  <2>2. TS!NoLostTimer'
    BY <2>1 DEF IInv, TS!NoLostTimer, TS!Armed
  <2>3. pc' = "guest" => exec # NULL
    BY <2>1 DEF Leave
  <2>4. pc' \in {"boot", "idle"} => exec = NULL
    BY <2>1 DEF Leave
  <2>5. QED
    BY <2>1, <2>2, <2>3, <2>4, QuietStep
<1>3. QED
  BY <1>1, <1>2 DEF Reschedule

LEMMA InvStep == IInv /\ [Next]_vars => IInv'
<1> SUFFICES ASSUME IInv, [Next]_vars PROVE IInv'
  OBVIOUS
<1> USE DEF schedVars, timerVars, Trap, Interrupt
<1>1. CASE UNCHANGED vars
  <2>1. TypeOK'
    BY <1>1, TSKept DEF vars, IInv, TypeOK
  <2>2. TS!NoLostTimer'
    BY <1>1 DEF vars, IInv, TS!NoLostTimer, TS!Armed
  <2>3. QED
    BY <1>1, <2>1, <2>2, QuietStep DEF vars, IInv, SingleRunning
<1>2. CASE Next
  <2>t. TypeOK'
    BY <1>2, TypeStep DEF IInv
  <2>k. UNCHANGED <<pending, ht, now>> => TS!NoLostTimer'
    BY DEF IInv, TS!NoLostTimer, TS!Armed
  <2>g. pc = "guest" => exec # NULL
    BY DEF IInv, SingleRunning
  <2>w. ASSUME NEW W \in SUBSET VCPU, W \subseteq Sleeping(VCPU), Wake(W), pc' = "sched"
        PROVE  IInv'
    BY <2>t, <2>w, WakeStep
  <2>1. CASE Boot
    BY <2>t, <2>1, RescheduleStep DEF Boot
  <2>2. CASE Dispatch
    <3>1. CASE flag /\ Reschedule
      BY <2>t, <2>2, <3>1, RescheduleStep DEF Dispatch
    <3>2. CASE ~flag
      BY <2>t, <2>k, <2>2, <3>2, QuietStep DEF Dispatch, Leave
    <3>3. QED
      BY <2>2, <3>1, <3>2 DEF Dispatch
  <2>3. CASE GuestWfi
    BY <2>t, <2>3, WfiStep
  <2>4. CASE GuestYield
    BY <2>t, <2>k, <2>4, QuietStep DEF GuestYield
  <2>5. CASE GuestTrap
    BY <2>t, <2>k, <2>5, QuietStep DEF GuestTrap
  <2>6. ASSUME NEW W \in SUBSET VCPU, GuestSgi(W) PROVE IInv'
    BY <2>6, <2>w DEF GuestSgi, Sleeping, VcpusOf
  <2>7. ASSUME NEW v \in VCPU, GuestVint(v) PROVE IInv'
    BY <2>7, <2>w DEF GuestVint, Sleeping
  <2>8. ASSUME NEW v \in VCPU, CpuOn(v) PROVE IInv'
    BY <2>t, <2>8, CpuOnStep
  <2>9. CASE CpuOff
    BY <2>t, <2>9, CpuOffStep
  <2>10. ASSUME NEW t \in Time \cup {Never}, GuestSetTimer(t) PROVE IInv'
    BY <2>t, <2>k, <2>g, <2>10, QuietStep DEF GuestSetTimer
  <2>11. CASE GuestEoi
    BY <2>t, <2>k, <2>g, <2>11, QuietStep DEF GuestEoi
  <2>12. ASSUME NEW m \in VM, NEW W \in SUBSET VCPU, DeviceIrq(m, W) PROVE IInv'
    BY <2>12, <2>w DEF DeviceIrq, Sleeping, VcpusOf
  <2>13. CASE VtimerIrq
    <3>1. last \in VCPU /\ pc' = "sched"
      BY <2>13 DEF VtimerIrq, IInv, TypeOK
    <3>2. Sleeping({last}) \in SUBSET VCPU /\ Sleeping({last}) \subseteq Sleeping(VCPU)
      BY <3>1 DEF Sleeping
    <3>3. QED
      BY <2>13, <3>1, <3>2, <2>w DEF VtimerIrq
  <2>14. ASSUME NEW n \in TNode, HtIrq(n) PROVE IInv'
    BY <2>t, <2>14, HtIrqStep
  <2>15. CASE HtIrqEmpty
    <3>1. TS!NoLostTimer' /\ pending' = pending
      BY <2>15, TSTick, TSTickInTime DEF HtIrqEmpty, IInv, TypeOK
    <3>2. QED
      BY <2>t, <2>15, <3>1, QuietStep DEF HtIrqEmpty
  <2>16. CASE Elapse
    <3>1. TS!NoLostTimer' /\ pending' = pending
      BY <2>16, TSTick, TSTickInTime DEF Elapse, IInv, TypeOK
    <3>2. pc' = pc /\ (pc = "idle" => exec = NULL)
      BY <2>16 DEF Elapse, IInv, SingleRunning
    <3>3. QED
      BY <2>t, <2>g, <2>16, <3>1, <3>2, QuietStep DEF Elapse
  <2>17. QED
    BY <1>2, <2>1, <2>2, <2>3, <2>4, <2>5, <2>6, <2>7, <2>8, <2>9, <2>10, <2>11,
       <2>12, <2>13, <2>14, <2>15, <2>16 DEF Next
<1>3. QED
  BY <1>1, <1>2

LEMMA InvAlways == Spec => []IInv
BY InvInit, InvStep, PTL DEF Spec

\* Every variable keeps its type: exec_cpu, last_cpu and the timer handles never
\* point at anything else than a vCPU, a pool node or NULL.
THEOREM TypeCorrect == Spec => []TypeOK
<1>1. IInv => TypeOK
  BY DEF IInv
<1>2. QED
  BY <1>1, InvAlways, PTL

\* One vCPU at most is started, and it is exec_cpu and last_cpu: the assertions
\* of vcpu_start and vcpu_sleep hold whatever traps and interrupts come.
THEOREM SingleRunningAlways == Spec => []SingleRunning
<1>1. IInv => SingleRunning
  BY DEF IInv
<1>2. QED
  BY <1>1, InvAlways, PTL

\* The scheduler's lists hold the waiting vCPUs that own a node, each once.
THEOREM ReadyExactAlways == Spec => []ReadyExact
<1>1. IInv => ReadyExact
  BY DEF IInv
<1>2. QED
  BY <1>1, InvAlways, PTL

\* The timer handles of the vCPUs and the armed events agree, so no wake-up
\* leaves an event behind and no stale handle is used.
THEOREM TimerHandlesAlways == Spec => []TimerHandles
<1>1. IInv => TimerHandles
  BY DEF IInv
<1>2. QED
  BY <1>1, InvAlways, PTL

\* No vCPU that waits or sleeps has lost its context.
THEOREM ContextSavedAlways == Spec => []ContextSaved
<1>1. IInv => ContextSaved
  BY DEF IInv
<1>2. QED
  BY <1>1, InvAlways, PTL

\* A guest runs under the HCR of its own VM.
THEOREM HcrMatchesAlways == Spec => []HcrMatches
<1>1. IInv => HcrMatches
  BY DEF IInv
<1>2. QED
  BY <1>1, InvAlways, PTL

\* No sleeping vCPU's event is later than the comparator.
THEOREM NoLateWakeupAlways == Spec => []NoLateWakeup
<1>1. IInv => NoLateWakeup
  BY DEF IInv, TimerHandles, NoLateWakeup, TS!NoLostTimer, TS!Armed
<1>2. QED
  BY <1>1, InvAlways, PTL

-----------------------------------------------------------------------------
\* What the invariant implies for the scheduler: no overtaking, no idling beside work,
\* and an event pool that suffices.

\* A non-empty list always offers something to an idle CPU.

LEMMA LevelType == \A v \in VCPU : Level(v) \in Nat
BY VcpuAssumption DEF Level, MAX_PRIORITY

LEMMA SomethingPickable ==
  ASSUME ready \in Seq(VCPU), ready # <<>>, exec = NULL
  PROVE  \E k \in 1 .. Len(ready) : Pickable(k)
<1> DEFINE D == 1 .. Len(ready)
           Levels == {Level(ready[i]) : i \in D}
<1>1. Len(ready) \in Nat /\ 1 \in D /\ \A i \in D : ready[i] \in VCPU
  BY MembersOfList
<1>2. Levels \in SUBSET Nat /\ Levels # {}
  BY <1>1, LevelType
<1>3. PICK b \in Levels : \A l \in Levels : b <= l
  BY <1>2, Least
<1> DEFINE First == {i \in D : Level(ready[i]) = b}
<1>4. First \in SUBSET Nat /\ First # {}
  BY <1>1, <1>3
<1>5. PICK k \in First : \A i \in First : k <= i
  BY <1>4, Least
<1>6. ASSUME NEW j \in D
      PROVE  \/ Level(ready[k]) < Level(ready[j])
             \/ Level(ready[k]) = Level(ready[j]) /\ k <= j
  <2>1. b <= Level(ready[j]) /\ Level(ready[j]) \in Nat /\ b \in Nat
    BY <1>1, <1>2, <1>3, LevelType
  <2>2. CASE Level(ready[j]) = b
    BY <1>5, <2>2
  <2>3. CASE Level(ready[j]) # b
    BY <1>5, <2>1, <2>3
  <2>4. QED
    BY <2>2, <2>3
<1>7. QED
  BY <1>5, <1>6 DEF Pickable

-----------------------------------------------------------------------------
\* The event pool: were it empty, every node would belong to a sleeping vCPU, no
\* two to the same one, and none to the executing one; but there are at least as
\* many nodes as vCPUs.

LEMMA PoolSuffices == IInv => TimerPoolSuffices
<1> SUFFICES ASSUME IInv, exec # NULL, TNode \subseteq DOMAIN pending
             PROVE  FALSE
  BY DEF TimerPoolSuffices
<1> DEFINE f == [n \in TNode |-> pending[n].arg]
           Others == VCPU \ {exec}
<1>1. exec \in VCPU /\ state[exec] = "start"
  BY DEF IInv, TypeOK, SingleRunning
<1>2. ASSUME NEW n \in TNode
      PROVE  pending[n].arg \in VCPU /\ tev[pending[n].arg] = n /\ n # NULL
  BY ArmedEvent DEF IInv, TypeOK, TimerHandles
<1>3. ASSUME NEW n \in TNode PROVE state[pending[n].arg] = "sleep"
  BY <1>2 DEF IInv, TimerHandles
<1>4. f \in [TNode -> Others]
  BY <1>1, <1>2, <1>3
<1>5. f \in Injection(TNode, Others)
  BY <1>2, <1>4 DEF Injection, IsInjective
<1>6. IsFiniteSet(Others) /\ Cardinality(Others) = Cardinality(VCPU) - 1
  BY <1>1, VcpuAssumption, FS_RemoveElement
<1>7. Cardinality(TNode) <= Cardinality(Others)
  BY <1>5, <1>6, FS_Injection
<1>8. Cardinality(VCPU) \in Nat /\ Cardinality(TNode) \in Nat
  BY VcpuAssumption, PoolAssumption, FS_CardinalityType
<1>9. QED
  BY <1>6, <1>7, <1>8, PoolAssumption

\* vcpu_sleep always finds a free event.
THEOREM TimerPoolSufficesAlways == Spec => []TimerPoolSuffices
BY PoolSuffices, InvAlways, PTL

-----------------------------------------------------------------------------
\* No idling beside ready vCPUs.  Inductive with the case in between: a handler
\* that found no vCPU executing has still to reschedule.

NoIdleWork ==
  (pc \in {"sched", "idle"} /\ exec = NULL /\ ready # <<>>) =>
     \/ pc = "sched" /\ flag
     \/ ~flag /\ last # NULL /\ state[last] = "init"

\* A reschedule on an idle CPU leaves it idle only if the lists are empty.
LEMMA RescheduleUsesCpu ==
  ASSUME IInv, Reschedule
  PROVE  exec' # NULL \/ (exec = NULL /\ ready = <<>> /\ ready' = <<>>)
<1>1. ASSUME NEW k \in 1 .. Len(ready), StartFromIdle(k) \/ Switch(k)
      PROVE  exec' # NULL
  <2>1. ready[k] \in VCPU /\ exec' = ready[k]
    BY <1>1, PickedReady DEF StartFromIdle, Switch, Load, IInv, TypeOK
  <2>2. QED
    BY <2>1, NullAssumption
<1>2. CASE KeepCpu
  <2>1. exec' = exec /\ ready' = ready /\ \A k \in 1 .. Len(ready) : ~Pickable(k)
    BY <1>2 DEF KeepCpu
  <2>2. exec = NULL => ready = <<>>
    BY <2>1, SomethingPickable DEF IInv, TypeOK
  <2>3. QED
    BY <2>1, <2>2
<1>3. QED
  BY <1>1, <1>2 DEF Reschedule

\* A step on an idle CPU that changes the lists by a wake-up sets the flag.
LEMMA WakeSetsFlag ==
  ASSUME IInv, NEW W \in SUBSET VCPU, Wake(W), exec = NULL
  PROVE  flag' \/ (UNCHANGED <<flag, ready, state>>)
<1>1. CASE W = {}
  <2>1. ready' = ready /\ flag' = flag
    BY <1>1, WakeReady DEF Wake, IInv, TypeOK
  <2>2. state' = state
    BY <1>1 DEF Wake, IInv, TypeOK
  <2>3. QED
    BY <2>1, <2>2
<1>2. CASE W # {}
  BY <1>2 DEF Wake, FlagAfterUnblock
<1>3. QED
  BY <1>1, <1>2

\* So does a tick of the hypervisor timer.
LEMMA TickSetsFlag ==
  ASSUME IInv, NEW n \in TNode, HtIrq(n), exec = NULL
  PROVE  flag'
<1>1. n \in DOMAIN pending /\ pending[n].arg \in VCPU
  BY TSFire DEF HtIrq, IInv, TypeOK
<1>2. tev[pending[n].arg] = n /\ n # NULL
  BY <1>1, ArmedEvent DEF IInv, TypeOK, TimerHandles
<1>3. state[pending[n].arg] = "sleep"
  BY <1>1, <1>2 DEF IInv, TimerHandles
<1>4. QED
  BY <1>3 DEF HtIrq, FlagAfterUnblock

LEMMA NoIdleWorkStep == IInv /\ NoIdleWork /\ [Next]_vars => NoIdleWork'
<1> SUFFICES ASSUME IInv, NoIdleWork, [Next]_vars PROVE NoIdleWork'
  OBVIOUS
<1> USE DEF NoIdleWork, schedVars, timerVars, Trap, Interrupt
<1>g. pc = "guest" => exec # NULL /\ exec \in VCPU
  BY DEF IInv, SingleRunning, TypeOK
<1>w. ASSUME NEW W \in SUBSET VCPU, Wake(W), Interrupt PROVE NoIdleWork'
  <2>1. UNCHANGED <<exec, last>>
    BY <1>w DEF Wake
  <2>2. exec = NULL => flag' \/ UNCHANGED <<flag, ready, state>>
    BY <1>w, WakeSetsFlag
  <2>3. QED
    BY <1>w, <1>g, <2>1, <2>2
<1>1. CASE UNCHANGED vars
  BY <1>1 DEF vars
<1>2. CASE Next
  <2>1. CASE Boot
    BY <2>1, RescheduleUsesCpu DEF Boot
  <2>2. CASE Dispatch
    <3>1. CASE flag /\ Reschedule
      BY <2>2, <3>1, RescheduleUsesCpu
    <3>2. CASE ~flag
      BY <2>2, <3>2 DEF Dispatch
    <3>3. QED
      BY <2>2, <3>1, <3>2 DEF Dispatch
  <2>3. CASE GuestWfi
    BY <2>3 DEF GuestWfi
  <2>4. CASE GuestYield
    BY <2>4 DEF GuestYield
  <2>5. CASE GuestTrap
    BY <2>5, <1>g DEF GuestTrap
  <2>6. ASSUME NEW W \in SUBSET VCPU, GuestSgi(W) PROVE NoIdleWork'
    BY <2>6, <1>g DEF GuestSgi, Wake
  <2>7. ASSUME NEW v \in VCPU, GuestVint(v) PROVE NoIdleWork'
    BY <2>7, <1>g DEF GuestVint, Wake
  <2>8. ASSUME NEW v \in VCPU, CpuOn(v) PROVE NoIdleWork'
    BY <2>8, <1>g DEF CpuOn
  <2>9. CASE CpuOff
    <3>1. last' = exec /\ exec \in VCPU /\ exec # NULL /\ flag' = flag
      BY <2>9, <1>g DEF CpuOff, IInv, SingleRunning
    <3>2. state'[exec] = "init"
      BY <2>9, <3>1 DEF CpuOff, IInv, TypeOK
    <3>3. QED
      BY <2>9, <3>1, <3>2 DEF CpuOff
  <2>10. ASSUME NEW t \in Time \cup {Never}, GuestSetTimer(t) PROVE NoIdleWork'
    BY <2>10, <1>g DEF GuestSetTimer
  <2>11. CASE GuestEoi
    BY <2>11, <1>g DEF GuestEoi
  <2>12. ASSUME NEW m \in VM, NEW W \in SUBSET VCPU, DeviceIrq(m, W) PROVE NoIdleWork'
    BY <2>12, <1>w DEF DeviceIrq
  <2>13. CASE VtimerIrq
    <3>1. last \in VCPU
      BY <2>13 DEF VtimerIrq, IInv, TypeOK
    <3>2. \E W \in SUBSET VCPU : Wake(W)
      BY <2>13, <3>1 DEF VtimerIrq, Sleeping
    <3>3. QED
      BY <2>13, <3>2, <1>w DEF VtimerIrq
  <2>14. ASSUME NEW n \in TNode, HtIrq(n) PROVE NoIdleWork'
    BY <2>14, <1>g, TickSetsFlag DEF HtIrq
  <2>15. CASE HtIrqEmpty
    BY <2>15, <1>g DEF HtIrqEmpty
  <2>16. CASE Elapse
    BY <2>16, <1>g DEF Elapse
  <2>17. QED
    BY <1>2, <2>1, <2>2, <2>3, <2>4, <2>5, <2>6, <2>7, <2>8, <2>9, <2>10, <2>11,
       <2>12, <2>13, <2>14, <2>15, <2>16 DEF Next
<1>3. QED
  BY <1>1, <1>2

\* The CPU idles beside ready vCPUs only after a CPU_OFF without a pending flag.
THEOREM IdleMeansNoWorkAlways == Spec => []IdleMeansNoWork
<1>1. Init => NoIdleWork
  BY DEF Init, NoIdleWork
<1>2. IInv /\ NoIdleWork => IdleMeansNoWork
  BY DEF IInv, SingleRunning, NoIdleWork, IdleMeansNoWork
<1>3. QED
  BY <1>1, <1>2, NoIdleWorkStep, InvAlways, PTL DEF Spec

-----------------------------------------------------------------------------
\* What a step may never do.

LEMMA WakeupStep == IInv /\ Next => WakeupReschedules
<1> SUFFICES ASSUME IInv, Next, exec = NULL
             PROVE  ready' = ready \/ flag' \/ ToSet(ready') \subseteq ToSet(ready)
  BY DEF WakeupReschedules
<1> USE DEF schedVars, timerVars, Trap, Interrupt
<1>g. pc # "guest"
  BY DEF IInv, SingleRunning
<1>r. ASSUME Reschedule PROVE ready' = ready \/ ToSet(ready') \subseteq ToSet(ready)
  <2>1. ASSUME NEW k \in 1 .. Len(ready), StartFromIdle(k)
        PROVE  ToSet(ready') \subseteq ToSet(ready)
    BY <2>1, PickedReady DEF StartFromIdle, IInv, TypeOK, ReadyExact
  <2>2. QED
    BY <1>r, <2>1 DEF Reschedule, Switch, KeepCpu
<1>w. ASSUME NEW W \in SUBSET VCPU, Wake(W) PROVE ready' = ready \/ flag'
  BY <1>w, WakeSetsFlag
<1>1. CASE Boot
  BY <1>1, <1>r DEF Boot
<1>2. CASE Dispatch
  BY <1>2, <1>r DEF Dispatch
<1>3. ASSUME NEW m \in VM, NEW W \in SUBSET VCPU, DeviceIrq(m, W)
      PROVE  ready' = ready \/ flag'
  BY <1>3, <1>w DEF DeviceIrq
<1>4. CASE VtimerIrq
  <2>1. last \in VCPU
    BY <1>4 DEF VtimerIrq, IInv, TypeOK
  <2>2. \E W \in SUBSET VCPU : Wake(W)
    BY <1>4, <2>1 DEF VtimerIrq, Sleeping
  <2>3. QED
    BY <2>2, <1>w
<1>5. ASSUME NEW n \in TNode, HtIrq(n) PROVE flag'
  BY <1>5, TickSetsFlag
<1>6. CASE HtIrqEmpty
  BY <1>6 DEF HtIrqEmpty
<1>7. CASE Elapse
  BY <1>7 DEF Elapse
<1>8. QED
  BY <1>g, <1>1, <1>2, <1>3, <1>4, <1>5, <1>6, <1>7
     DEF Next, GuestWfi, GuestYield, GuestTrap, GuestSgi, GuestVint, CpuOn, CpuOff,
         GuestSetTimer, GuestEoi

\* Whatever wakes a vCPU while none executes leaves the flag set.
THEOREM IdleWakeupReschedulesAlways == Spec => IdleWakeupReschedules
<1>1. IInv /\ [Next]_vars => [WakeupReschedules]_vars
  BY WakeupStep
<1>2. QED
  BY <1>1, InvAlways, PTL DEF Spec, IdleWakeupReschedules

\* A step that starts nobody and takes nobody off the lists.
LEMMA StayStep ==
  ASSUME IInv, exec' \in {exec, NULL},
         \A v \in VCPU : state[v] = "wait" => state'[v] = "wait"
  PROVE  InOrder
<1>1. \A i \in 1 .. Len(ready) : ready[i] \in VCPU /\ state[ready[i]] = "wait"
  BY MembersOfList DEF IInv, TypeOK, ReadyExact
<1>2. exec \in VCPU => state[exec] = "start"
  BY DEF IInv, SingleRunning
<1>3. \A i \in 1 .. Len(ready) : exec' # ready[i]
  BY <1>1, <1>2, NullAssumption DEF IInv, TypeOK
<1>4. QED
  BY <1>3 DEF InOrder

LEMMA PickStep ==
  ASSUME IInv, NEW k \in 1 .. Len(ready), Pickable(k), exec' = ready[k],
         \A v \in VCPU : state[v] = "wait" /\ v # ready[k] => state'[v] = "wait"
  PROVE  InOrder
<1>1. /\ \A i \in 1 .. Len(ready) : ready[i] \in VCPU /\ Level(ready[i]) \in Nat
      /\ DOMAIN ready = 1 .. Len(ready) /\ Len(ready) \in Nat
  BY MembersOfList, LevelType DEF IInv, TypeOK
<1>2. \A i \in 1 .. Len(ready) : ready[i] = ready[k] => i = k
  BY <1>1 DEF IInv, ReadyExact, IsInjective
<1>3. ASSUME NEW i \in 1 .. Len(ready), NEW j \in 1 .. Len(ready), i < j,
             Level(ready[i]) <= Level(ready[j])
      PROVE  exec' # ready[j]
  BY <1>1, <1>2, <1>3 DEF Pickable
<1>4. ASSUME NEW i \in 1 .. Len(ready), exec' = ready[i], NEW j \in 1 .. Len(ready)
      PROVE  Level(ready[i]) <= Level(ready[j])
  BY <1>1, <1>4 DEF Pickable
<1>5. ASSUME NEW i \in 1 .. Len(ready), exec' = ready[i], exec # NULL
      PROVE  Level(ready[i]) <= Level(exec)
  BY <1>5 DEF Pickable
<1>6. QED
  BY <1>3, <1>4, <1>5 DEF InOrder

LEMMA InOrderStep == IInv /\ Next => InOrder
<1> SUFFICES ASSUME IInv, Next PROVE InOrder
  OBVIOUS
<1> USE DEF schedVars, timerVars, Trap
<1>t. state \in [VCPU -> {"init", "start", "wait", "sleep"}]
  BY DEF IInv, TypeOK
<1>g. pc = "guest" => exec \in VCPU /\ state[exec] = "start"
  BY DEF IInv, SingleRunning, TypeOK
<1>r. ASSUME Reschedule PROVE InOrder
  <2>1. ASSUME NEW k \in 1 .. Len(ready), StartFromIdle(k) \/ Switch(k)
        PROVE  InOrder
    <3>1. Pickable(k) /\ exec' = ready[k]
      BY <2>1 DEF StartFromIdle, Switch, Load
    <3>2. \A v \in VCPU : state[v] = "wait" /\ v # ready[k] => state'[v] = "wait"
      BY <2>1, <1>t DEF StartFromIdle, Switch
    <3>3. QED
      BY <3>1, <3>2, PickStep
  <2>2. CASE KeepCpu
    BY <2>2, StayStep DEF KeepCpu
  <2>3. QED
    BY <1>r, <2>1, <2>2 DEF Reschedule
<1>w. ASSUME NEW W \in SUBSET VCPU, Wake(W) PROVE InOrder
  BY <1>w, StayStep DEF Wake
<1>1. CASE Boot
  BY <1>1, <1>r DEF Boot
<1>2. CASE Dispatch
  BY <1>2, <1>r, StayStep DEF Dispatch
<1>3. CASE GuestWfi
  BY <1>3, <1>t, <1>g, StayStep DEF GuestWfi
<1>4. ASSUME NEW W \in SUBSET VCPU, GuestSgi(W) PROVE InOrder
  BY <1>4, <1>w DEF GuestSgi
<1>5. ASSUME NEW v \in VCPU, GuestVint(v) PROVE InOrder
  BY <1>5, <1>w DEF GuestVint
<1>6. ASSUME NEW v \in VCPU, CpuOn(v) PROVE InOrder
  BY <1>6, <1>t, StayStep DEF CpuOn
<1>7. CASE CpuOff
  BY <1>7, <1>t, <1>g, StayStep DEF CpuOff
<1>8. ASSUME NEW m \in VM, NEW W \in SUBSET VCPU, DeviceIrq(m, W) PROVE InOrder
  BY <1>8, <1>w DEF DeviceIrq
<1>9. CASE VtimerIrq
  <2>1. last \in VCPU
    BY <1>9 DEF VtimerIrq, IInv, TypeOK
  <2>2. \E W \in SUBSET VCPU : Wake(W)
    BY <1>9, <2>1 DEF VtimerIrq, Sleeping
  <2>3. QED
    BY <2>2, <1>w
<1>10. ASSUME NEW n \in TNode, HtIrq(n) PROVE InOrder
  BY <1>10, <1>t, StayStep DEF HtIrq
<1>11. CASE GuestYield \/ GuestTrap \/ HtIrqEmpty \/ Elapse \/ GuestEoi
  BY <1>11, StayStep DEF GuestYield, GuestTrap, HtIrqEmpty, Elapse, GuestEoi
<1>12. ASSUME NEW t \in Time \cup {Never}, GuestSetTimer(t) PROVE InOrder
  BY <1>12, StayStep DEF GuestSetTimer
<1>13. QED
  BY <1>1, <1>2, <1>3, <1>4, <1>5, <1>6, <1>7, <1>8, <1>9, <1>10, <1>11, <1>12
     DEF Next

\* No vCPU is started past one of its own or a better priority that waited
\* longer, and none leaves the lists except to run.
THEOREM NoOvertakingAlways == Spec => NoOvertaking
<1>1. IInv /\ [Next]_vars => [InOrder]_vars
  BY InOrderStep
<1>2. QED
  BY <1>1, InvAlways, PTL DEF Spec, NoOvertaking

-----------------------------------------------------------------------------
\* Hypervisor implements Lifecycle: every step is one move in the life of one vCPU,
\* a switch, one wake-up, or none of these.

\* How a change of the states moves the stages.

LEMMA StageValues ==
  /\ Stage("init") = "off" /\ Stage("wait") = "ready"
  /\ Stage("start") = "running" /\ Stage("sleep") = "blocked"
BY DEF Stage

LEMMA StageOf ==
  ASSUME TypeOK
  PROVE  \A v \in VCPU :
           /\ stage[v] = Stage(state[v])
           /\ stage[v] \in LC!Status
           /\ stage[v] = "running" <=> state[v] = "start"
BY StageValues DEF stage, TypeOK, LC!Status

LEMMA StageKept == state' = state => stage' = stage
BY DEF stage

LEMMA StageMoved ==
  ASSUME TypeOK, NEW v \in VCPU, NEW x, state' = [state EXCEPT ![v] = x]
  PROVE  stage' = [stage EXCEPT ![v] = Stage(x)]
BY DEF stage, TypeOK

LEMMA StageSwapped ==
  ASSUME TypeOK, NEW u \in VCPU, NEW v \in VCPU, u # v,
         state' = [state EXCEPT ![u] = "wait", ![v] = "start"]
  PROVE  stage' = [stage EXCEPT ![u] = "ready", ![v] = "running"]
<1>1. \A w \in VCPU :
        stage'[w] = Stage(IF w = v THEN "start" ELSE IF w = u THEN "wait" ELSE state[w])
  BY DEF stage, TypeOK
<1>2. \A w \in VCPU : stage'[w] = [stage EXCEPT ![u] = "ready", ![v] = "running"][w]
  BY <1>1, StageValues DEF stage
<1>3. QED
  BY <1>2 DEF stage

-----------------------------------------------------------------------------
\* The steps.

LEMMA PickLives ==
  ASSUME IInv, Reschedule
  PROVE  LC!LCNext \/ stage' = stage
<1>1. ASSUME NEW k \in 1 .. Len(ready)
      PROVE  ready[k] \in VCPU /\ state[ready[k]] = "wait" /\ stage[ready[k]] = "ready"
  BY PickedReady, StageOf, StageValues DEF IInv, TypeOK, ReadyExact
<1>2. ASSUME NEW k \in 1 .. Len(ready), StartFromIdle(k) PROVE LC!LCNext
  <2>1. LC!Nobody
    BY <1>2, StageOf, NullAssumption DEF LC!Nobody, IInv, SingleRunning, StartFromIdle
  <2>2. PICK v \in VCPU : v = ready[k] /\ stage[v] = "ready"
    BY <1>1
  <2>3. state' = [state EXCEPT ![v] = "start"] /\ TypeOK
    BY <1>2, <2>2 DEF StartFromIdle, IInv
  <2>4. stage' = [stage EXCEPT ![v] = "running"]
    BY <2>3, StageMoved, StageValues
  <2>5. LC!Run(v)
    BY <2>1, <2>2, <2>4 DEF LC!Run
  <2>6. QED
    BY <2>5 DEF LC!LCNext
<1>3. ASSUME NEW k \in 1 .. Len(ready), Switch(k) PROVE LC!LCNext
  <2>1. exec \in VCPU /\ state[exec] = "start" /\ stage[exec] = "running"
    BY <1>3, StageOf DEF Switch, IInv, TypeOK, SingleRunning
  <2>2. stage' = [stage EXCEPT ![exec] = "ready", ![ready[k]] = "running"]
    BY <1>1, <1>3, <2>1, StageSwapped DEF Switch, IInv
  <2>3. LC!Switch(exec, ready[k])
    BY <1>1, <2>1, <2>2 DEF LC!Switch
  <2>4. QED
    BY <1>1, <2>1, <2>3 DEF LC!LCNext
<1>4. QED
  BY <1>2, <1>3, StageKept DEF Reschedule, KeepCpu

LEMMA WakeLives ==
  ASSUME IInv, NEW m \in VM, NEW W \in SUBSET VCPU, W \subseteq Sleeping(VcpusOf(m)),
         Wake(W)
  PROVE  LC!LCNext \/ stage' = stage
<1>1. /\ state' = [v \in VCPU |-> IF v \in W THEN "wait" ELSE state[v]]
      /\ \A v \in W : v \in VCPU /\ state[v] = "sleep" /\ v \in VcpusOf(m)
  BY DEF Wake, Sleeping
<1>2. stage' = [v \in VCPU |-> IF v \in W THEN "ready" ELSE stage[v]]
  BY <1>1, StageValues DEF stage
<1>3. \A v \in W : stage[v] = "blocked"
  BY <1>1, StageValues DEF stage
<1>4. CASE W = {}
  BY <1>2, <1>4 DEF stage
<1>5. CASE W # {}
  <2>1. LC!Unblock(W)
    BY <1>1, <1>2, <1>3, <1>5 DEF LC!Unblock
  <2>2. QED
    BY <2>1 DEF LC!LCNext
<1>6. QED
  BY <1>4, <1>5

\* The timer wakes the vCPU its event belongs to.
LEMMA TickLives ==
  ASSUME IInv, NEW n \in TNode, HtIrq(n)
  PROVE  LC!LCNext
<1> DEFINE v == pending[n].arg
<1>1. n \in DOMAIN pending /\ v \in VCPU
  BY TSFire DEF HtIrq, IInv, TypeOK
<1>2. tev[v] = n /\ n # NULL
  BY <1>1, ArmedEvent DEF IInv, TypeOK, TimerHandles
<1>3. state[v] = "sleep"
  BY <1>1, <1>2 DEF IInv, TimerHandles
<1>4. VmOf[v] \in VM /\ v \in VcpusOf(VmOf[v])
  BY <1>1, VcpuAssumption DEF VcpusOf
<1>5. state' = [state EXCEPT ![v] = "wait"]
  BY DEF HtIrq
<1> HIDE DEF v
<1>6. stage' = [stage EXCEPT ![v] = "ready"]
  BY <1>1, <1>5, StageMoved, StageValues DEF IInv
<1>7. stage' = [u \in VCPU |-> IF u \in {v} THEN "ready" ELSE stage[u]]
  BY <1>6 DEF stage
<1>8. stage[v] = "blocked"
  BY <1>1, <1>3, StageValues DEF stage
<1>9. LC!Unblock({v})
  BY <1>4, <1>7, <1>8 DEF LC!Unblock
<1>10. QED
  BY <1>1, <1>9 DEF LC!LCNext

LEMMA LivesStep == IInv /\ [Next]_vars => [LC!LCNext]_stage
<1> SUFFICES ASSUME IInv, [Next]_vars PROVE LC!LCNext \/ stage' = stage
  OBVIOUS
<1>g. pc = "guest" => exec \in VCPU /\ stage[exec] = "running"
  BY StageOf DEF IInv, SingleRunning, TypeOK
<1>v. \A v \in VCPU : VmOf[v] \in VM /\ v \in VcpusOf(VmOf[v])
  BY VcpuAssumption DEF VcpusOf
<1>1. CASE UNCHANGED vars
  BY <1>1, StageKept DEF vars
<1>2. CASE Boot
  BY <1>2, PickLives DEF Boot
<1>3. CASE Dispatch
  BY <1>3, PickLives, StageKept DEF Dispatch
<1>4. CASE GuestWfi
  <2>1. exec \in VCPU /\ stage[exec] = "running"
    BY <1>4, <1>g DEF GuestWfi, Trap
  <2>2. stage' = [stage EXCEPT ![exec] = "blocked"]
    BY <1>4, <2>1, StageMoved, StageValues DEF GuestWfi, IInv
  <2>3. LC!Block(exec)
    BY <2>1, <2>2 DEF LC!Block
  <2>4. QED
    BY <2>1, <2>3 DEF LC!LCNext
<1>5. ASSUME NEW W \in SUBSET VCPU, GuestSgi(W) PROVE LC!LCNext \/ stage' = stage
  BY <1>5, <1>g, <1>v, WakeLives DEF GuestSgi, Trap
<1>6. ASSUME NEW v \in VCPU, GuestVint(v) PROVE LC!LCNext \/ stage' = stage
  <2>1. {v} \in SUBSET VCPU /\ {v} \subseteq Sleeping(VcpusOf(VmOf[v]))
    BY <1>6, <1>v DEF GuestVint, Sleeping
  <2>2. QED
    BY <1>6, <1>v, <2>1, WakeLives DEF GuestVint
<1>7. ASSUME NEW v \in VCPU, CpuOn(v) PROVE LC!LCNext
  <2>1. exec \in VCPU /\ stage[exec] = "running"
    BY <1>7, <1>g DEF CpuOn, Trap
  <2>2. stage[v] = "off"
    BY <1>7, StageValues DEF CpuOn, stage
  <2>3. stage' = [stage EXCEPT ![v] = "ready"]
    BY <1>7, StageMoved, StageValues DEF CpuOn, IInv
  <2>4. LC!TurnOn(exec, v)
    BY <2>1, <2>2, <2>3 DEF LC!TurnOn
  <2>5. QED
    BY <2>1, <2>4 DEF LC!LCNext
<1>8. CASE CpuOff
  <2>1. exec \in VCPU /\ stage[exec] = "running"
    BY <1>8, <1>g DEF CpuOff, Trap
  <2>2. stage' = [stage EXCEPT ![exec] = "off"]
    BY <1>8, <2>1, StageMoved, StageValues DEF CpuOff, IInv
  <2>3. LC!TurnOff(exec)
    BY <2>1, <2>2 DEF LC!TurnOff
  <2>4. QED
    BY <2>1, <2>3 DEF LC!LCNext
<1>9. ASSUME NEW m \in VM, NEW W \in SUBSET VCPU, DeviceIrq(m, W)
      PROVE  LC!LCNext \/ stage' = stage
  BY <1>9, WakeLives DEF DeviceIrq
<1>10. CASE VtimerIrq
  <2>1. last \in VCPU
    BY <1>10 DEF VtimerIrq, IInv, TypeOK
  <2>2. {} \in SUBSET VCPU /\ Sleeping({last}) \in SUBSET VCPU
        /\ Sleeping({last}) \subseteq Sleeping(VcpusOf(VmOf[last]))
    BY <2>1, <1>v DEF Sleeping
  <2>3. Wake(Sleeping({last})) \/ Wake({})
    BY <1>10 DEF VtimerIrq
  <2>4. QED
    BY <2>1, <2>2, <2>3, <1>v, WakeLives
<1>11. ASSUME NEW n \in TNode, HtIrq(n) PROVE LC!LCNext
  BY <1>11, TickLives
<1>12. CASE GuestYield \/ GuestTrap \/ GuestEoi \/ HtIrqEmpty \/ Elapse
  BY <1>12, StageKept DEF GuestYield, GuestTrap, GuestEoi, HtIrqEmpty, Elapse
<1>13. ASSUME NEW t \in Time \cup {Never}, GuestSetTimer(t) PROVE stage' = stage
  BY <1>13, StageKept DEF GuestSetTimer
<1>14. QED
  BY <1>1, <1>2, <1>3, <1>4, <1>5, <1>6, <1>7, <1>8, <1>9, <1>10, <1>11, <1>12,
     <1>13 DEF Next

\* The hypervisor implements the life cycle it promises each vCPU.
THEOREM LifecycleImplemented == Spec => ImplementsLifecycle
<1>1. Init => LC!LCInit
  BY StageValues DEF Init, LC!LCInit, stage
<1>2. QED
  BY <1>1, LivesStep, InvAlways, PTL DEF Spec, ImplementsLifecycle, LC!LCSpec
=============================================================================
