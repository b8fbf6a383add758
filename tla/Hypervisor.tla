----------------------------- MODULE Hypervisor -----------------------------
(***************************************************************************)
(* The core of T-Visor: the vCPU life cycle and world switch (vcpu.c), the *)
(* reschedule flag (schedule.c), the scheduler (my_scheduler.c or          *)
(* fp_scheduler.c), the common tail of the trap and interrupt handlers     *)
(* (hyp_call.c, irq_handler.c) with their idle loop, CPU_ON and CPU_OFF    *)
(* (virtual_psci.c), and the two timers that wake a sleeping vCPU.         *)
(*                                                                         *)
(* One physical CPU; handlers run with interrupts masked.  A trap or an    *)
(* interrupt is a step to pc = "sched"; there only the common tail of the  *)
(* handler can run, which ends in the guest or in the idle loop.           *)
(***************************************************************************)
EXTENDS Naturals, Sequences, FiniteSets, SequencesExt

CONSTANTS VM,         \* the virtual machines
          VCPU,       \* the vCPUs, by id: the ids of one VM follow its vids
          VmOf,       \* vCPU -> its VM
          BootOrder,  \* the vCPUs user_init makes ready, in order
          Policy,     \* "my" or "fp": the scheduler user_init installs
          Pri,        \* vCPU -> priority in its sched_param ("fp" only)
          SchedNodes, \* the size of the scheduler's node pool, 16
          TNode,      \* the nodes of the timer event pool
          MaxTime,    \* bound: the counter stops there
          NULL,
          Lost        \* the holder of an interrupt nobody can deactivate

MAX_PRIORITY == 8

ASSUME VcpuAssumption ==
  /\ VCPU \subseteq Nat
  /\ IsFiniteSet(VCPU)
  /\ VmOf \in [VCPU -> VM]
  /\ Pri \in [VCPU -> Nat]
ASSUME BootAssumption ==
  /\ BootOrder \in Seq(VCPU)
  /\ BootOrder # <<>>
  /\ IsInjective(BootOrder)
ASSUME PoolAssumption ==
  /\ SchedNodes \in Nat
  /\ Cardinality(VCPU) <= SchedNodes
  /\ IsFiniteSet(TNode)
  /\ Cardinality(VCPU) <= Cardinality(TNode)
ASSUME PolicyAssumption == Policy \in {"my", "fp"}
ASSUME TimeAssumption   == MaxTime \in Nat
ASSUME NullAssumption   ==
  /\ NULL \notin VCPU \cup VM \cup TNode
  /\ Lost \notin VCPU /\ Lost # NULL

VARIABLES
  pc,       \* where the physical CPU is: "boot", "guest", "sched" or "idle"
  state,    \* vCPU -> its life-cycle state
  exec,     \* exec_cpu
  last,     \* last_cpu, whose virtual timer is loaded
  flag,     \* the reschedule flag
  ready,    \* the vCPUs on the scheduler's lists, in order of arrival
  hasNode,  \* vCPU -> sched_state is not NULL
  free,     \* how many scheduler nodes are free
  tev,      \* vCPU -> timer_event, a timer node or NULL
  pending, ht, now,   \* the timer events, see TimerService
  vt,       \* vCPU -> its virtual timer comparator; Never when off or masked
  vtirq,    \* whose list register holds the active virtual timer interrupt
  saved,    \* the vCPUs whose T_VCPU holds their current context
  hcr       \* the VM whose HCR is loaded

schedVars == <<flag, ready, hasNode, free>>
timerVars == <<tev, pending, ht, now>>
vars == <<pc, state, exec, last, schedVars, timerVars, vt, vtirq, saved, hcr>>

TS == INSTANCE TimerService WITH Arg <- VCPU

Time  == TS!Time
Never == TS!Never

VcpusOf(m) == {v \in VCPU : VmOf[v] = m}

\* my_scheduler has one list, fp_scheduler one per priority, clamped.
Level(v) ==
  IF Policy = "my" THEN 0
  ELSE IF Pri[v] >= MAX_PRIORITY THEN MAX_PRIORITY - 1 ELSE Pri[v]

TypeOK ==
  /\ pc \in {"boot", "guest", "sched", "idle"}
  /\ state \in [VCPU -> {"init", "start", "wait", "sleep"}]
  /\ exec \in VCPU \cup {NULL}
  /\ last \in VCPU \cup {NULL}
  /\ flag \in BOOLEAN
  /\ ready \in Seq(VCPU)
  /\ hasNode \in [VCPU -> BOOLEAN]
  /\ free \in 0 .. SchedNodes
  /\ tev \in [VCPU -> TNode \cup {NULL}]
  /\ TS!TSTypeOK
  /\ vt \in [VCPU -> Time \cup {Never}]
  /\ vtirq \in VCPU \cup {NULL, Lost}
  /\ saved \subseteq VCPU
  /\ hcr \in VM \cup {NULL}

\* After user_init: every vCPU has been reset, which takes a scheduler node, and
\* those of BootOrder made ready; my_scheduler sets the flag for a vCPU enqueued
\* while none executes.
Init ==
  /\ pc = "boot"
  /\ state = [v \in VCPU |-> IF v \in ToSet(BootOrder) THEN "wait" ELSE "init"]
  /\ exec = NULL
  /\ last = NULL
  /\ flag = (Policy = "my")
  /\ ready = BootOrder
  /\ hasNode = [v \in VCPU |-> TRUE]
  /\ free = SchedNodes - Cardinality(VCPU)
  /\ tev = [v \in VCPU |-> NULL]
  /\ TS!TSInit
  /\ vt = [v \in VCPU |-> Never]
  /\ vtirq = NULL
  /\ saved = VCPU
  /\ hcr = NULL

-----------------------------------------------------------------------------
\* Entering the hypervisor: a trap of the executing vCPU, or an interrupt taken
\* from the guest or from the idle loop.

Trap      == pc = "guest" /\ pc' = "sched"
Interrupt == pc \in {"guest", "idle"} /\ pc' = "sched"

-----------------------------------------------------------------------------
\* Faulty variants of definitions below, one plausible bug each.  No action uses
\* them; they show that the properties can tell the code from its near misses.

NotRunning(S)   == {v \in S : state[v] # "start"}
UnsavedBy(v)    == saved
KeepEvents(W)   == UNCHANGED <<pending, ht, now>>
FlagNotOnIdle   == flag \/ Policy = "fp"
FlagUnchanged   == flag
HcrLeft(v)      == UNCHANGED hcr
RequeueFirst(s) == <<exec>> \o s

PickNewest(k) ==
  /\ k \in 1 .. Len(ready)
  /\ \A j \in 1 .. Len(ready) :
       \/ Level(ready[k]) < Level(ready[j])
       \/ Level(ready[k]) = Level(ready[j]) /\ j <= k
  /\ exec # NULL => Level(ready[k]) <= Level(exec)

PickUnbounded(k) ==
  /\ k \in 1 .. Len(ready)
  /\ \A j \in 1 .. Len(ready) :
       \/ Level(ready[k]) < Level(ready[j])
       \/ Level(ready[k]) = Level(ready[j]) /\ k <= j

CpuOnTwice(v) ==
  /\ Trap
  /\ VmOf[v] = VmOf[exec] /\ v # exec
  /\ state' = [state EXCEPT ![v] = "wait"]
  /\ ready' = IF free > 0 THEN Append(ready, v) ELSE ready
  /\ free' = IF free > 0 THEN free - 1 ELSE free
  /\ UNCHANGED <<exec, last, flag, hasNode, timerVars, vt, vtirq, saved, hcr>>

CpuOnUnchecked(v) ==
  /\ Trap
  /\ VmOf[v] = VmOf[exec]
  /\ state[v] = "init"
  /\ state' = [state EXCEPT ![v] = "wait"]
  /\ free' = free - 1
  /\ ready' = Append(ready, v)
  /\ UNCHANGED <<exec, last, flag, hasNode, timerVars, vt, vtirq, saved, hcr>>

CpuOffStillExec ==
  /\ Trap
  /\ state' = [state EXCEPT ![exec] = "init"]
  /\ UNCHANGED <<exec, last, schedVars, timerVars, vt, vtirq, saved, hcr>>

WfiWithoutFlag ==
  /\ Trap
  /\ saved' = saved \cup {exec}
  /\ state' = [state EXCEPT ![exec] = "sleep"]
  /\ exec' = NULL
  /\ UNCHANGED <<last, schedVars, timerVars, vt, vtirq, hcr>>

VtimerIrqNoWake ==
  /\ Interrupt
  /\ last # NULL /\ vt[last] <= now /\ vtirq = NULL
  /\ vtirq' \in {last, Lost}
  /\ UNCHANGED <<state, exec, last, schedVars, timerVars, vt, saved, hcr>>

-----------------------------------------------------------------------------
\* Picking the next vCPU and switching to it.

\* schedule(): the first vCPU of the first non-empty list, lists below the
\* priority of the executing vCPU being left alone.
Pickable(k) ==
  /\ k \in 1 .. Len(ready)
  /\ \A j \in 1 .. Len(ready) :
       \/ Level(ready[k]) < Level(ready[j])
       \/ Level(ready[k]) = Level(ready[j]) /\ k <= j
  /\ exec # NULL => Level(ready[k]) <= Level(exec)

Taken(k) == RemoveAt(ready, k)

\* vcpu_save_state: the T_VCPU of v holds its context again.
SavedBy(v) == saved \cup {v}

\* timer_event_remove of the events of the vCPUs of W that have one.
DropEvents(W) == TS!Disarm({tev[v] : v \in W})

\* vcpu_start, the context of v being loaded from its T_VCPU; the contexts that
\* were current before are those of S.
Load(v, S) ==
  /\ exec' = v
  /\ last' = v
  /\ saved' = S \ {v}
  /\ tev' = [tev EXCEPT ![v] = NULL]
  /\ DropEvents({v})

\* block() of the vCPU that loses the CPU: to the end of its list.
Requeue(s) == Append(s, exec)

\* vm_start only if the VM changes.
HcrForSwitch(v) == hcr' = IF VmOf[exec] # VmOf[v] THEN VmOf[v] ELSE hcr

\* vcpu_preemption of an idle CPU: nothing to save, and the flag stays set.
StartFromIdle(k) ==
  /\ exec = NULL
  /\ Pickable(k)
  /\ Load(ready[k], saved)
  /\ hcr' = VmOf[ready[k]]
  /\ state' = [state EXCEPT ![ready[k]] = "start"]
  /\ ready' = Taken(k)
  /\ UNCHANGED <<flag, hasNode, free, vt, vtirq>>

\* vcpu_preemption of a running vCPU: it is saved, put at the end of its list
\* (block), and the HCR is written if the VM changes.
Switch(k) ==
  /\ exec # NULL
  /\ Pickable(k)
  /\ Load(ready[k], SavedBy(exec))
  /\ HcrForSwitch(ready[k])
  /\ state' = [state EXCEPT ![exec] = "wait", ![ready[k]] = "start"]
  /\ ready' = Requeue(Taken(k))
  /\ flag' = FALSE
  /\ UNCHANGED <<hasNode, free, vt, vtirq>>

\* With no vCPU executing, fp_scheduler's search runs one list past its array.
\* What lies there reads as an empty list or as the list of free nodes, whose
\* first node is then taken and lost: its vCPU is NULL, so nothing is started.
ReadPastLevels ==
  IF Policy = "fp" /\ exec = NULL /\ free > 0
  THEN free' \in {free, free - 1}
  ELSE UNCHANGED free

\* schedule() finds nothing better: vcpu_preemption(exec_cpu) does nothing.
KeepCpu ==
  /\ \A k \in 1 .. Len(ready) : ~Pickable(k)
  /\ ReadPastLevels
  /\ UNCHANGED <<state, exec, last, flag, ready, hasNode, timerVars, vt, vtirq,
                 saved, hcr>>

Reschedule == (\E k \in 1 .. Len(ready) : StartFromIdle(k) \/ Switch(k)) \/ KeepCpu

\* Back to the guest if a vCPU executes, else into the idle loop.
Leave == pc' = IF exec' = NULL THEN "idle" ELSE "guest"

\* system_init ends with an unconditional reschedule, then returns into hyp_call.
Boot == pc = "boot" /\ Reschedule /\ pc' = "sched"

\* The end of hyp_call and of irq_handler.
Dispatch ==
  /\ pc = "sched"
  /\ \/ flag /\ Reschedule
     \/ ~flag /\ UNCHANGED <<state, exec, last, schedVars, timerVars, vt, vtirq,
                             saved, hcr>>
  /\ Leave

-----------------------------------------------------------------------------
\* Waking sleeping vCPUs.

Sleeping(S) == {v \in S : state[v] = "sleep"}

Ascending(s) == \A i, j \in 1 .. Len(s) : i < j => s[i] < s[j]

\* unblock() sets the flag: always under fp, under my only on an idle CPU.
FlagAfterUnblock == flag \/ Policy = "fp" \/ exec = NULL

\* vcpu_wakeup of every vCPU of W, in the order of their ids: the callers loop
\* over the vids of one VM.
Wake(W) ==
  /\ \E s \in SetToSeqs(W) : Ascending(s) /\ ready' = ready \o s
  /\ state' = [v \in VCPU |-> IF v \in W THEN "wait" ELSE state[v]]
  /\ tev' = [v \in VCPU |-> IF v \in W THEN NULL ELSE tev[v]]
  /\ DropEvents(W)
  /\ flag' = IF W = {} THEN flag ELSE FlagAfterUnblock
  /\ UNCHANGED <<exec, last, hasNode, free, vt, saved, hcr>>

-----------------------------------------------------------------------------
\* Traps of the executing vCPU.

\* WFI: vcpu_sleep.  The status bit of the virtual timer is among those compared,
\* so an event is armed only if the timer has already expired.
GuestWfi ==
  /\ Trap
  /\ saved' = SavedBy(exec)
  /\ flag' = TRUE
  /\ state' = [state EXCEPT ![exec] = "sleep"]
  /\ \/ /\ vt[exec] <= now
        /\ \E n \in TNode : /\ TS!Arm(n, vt[exec], exec)
                            /\ tev' = [tev EXCEPT ![exec] = n]
     \/ vt[exec] > now /\ UNCHANGED timerVars
  /\ exec' = NULL
  /\ UNCHANGED <<last, ready, hasNode, free, vt, vtirq, hcr>>

\* WFE and hypercall 6.
GuestYield ==
  /\ Trap
  /\ flag' = TRUE
  /\ UNCHANGED <<state, exec, last, ready, hasNode, free, timerVars, vt, vtirq,
                 saved, hcr>>

\* Every trap that changes nothing of this module: coprocessor and device
\* accesses, refused PSCI calls, hypercall 7, which saves and restarts the same
\* vCPU, and the others.  (A data abort without a decoded instruction returns to
\* the guest at once, past the common tail: a stuttering step.)
GuestTrap ==
  /\ Trap
  /\ UNCHANGED <<state, exec, last, schedVars, timerVars, vt, vtirq, saved, hcr>>

\* An SGI written to the distributor: sleeping targets of its own VM wake up.
GuestSgi(W) ==
  /\ Trap
  /\ W \subseteq Sleeping(VcpusOf(VmOf[exec]))
  /\ Wake(W)
  /\ UNCHANGED vtirq

\* Hypercall 4, a virtual interrupt to some VM: its balance function names one
\* target.
GuestVint(v) ==
  /\ Trap
  /\ v \in Sleeping(VCPU)
  /\ Wake({v})
  /\ UNCHANGED vtirq

\* PSCI CPU_ON of a vCPU that is off: vcpu_reset takes a new scheduler node,
\* although the vCPU still had one, and vcpu_ready enqueues the vCPU.  Without a
\* node nothing is enqueued.
CpuOn(v) ==
  /\ Trap
  /\ VmOf[v] = VmOf[exec]
  /\ state[v] = "init"
  /\ state' = [state EXCEPT ![v] = "wait"]
  /\ hasNode' = [hasNode EXCEPT ![v] = free > 0]
  /\ free' = IF free > 0 THEN free - 1 ELSE free
  /\ ready' = IF free > 0 THEN Append(ready, v) ELSE ready
  /\ vt' = [vt EXCEPT ![v] = Never]
  /\ saved' = saved \cup {v}
  /\ UNCHANGED <<exec, last, flag, timerVars, vtirq, hcr>>

\* PSCI CPU_OFF: neither the context is saved nor the flag set.
CpuOff ==
  /\ Trap
  /\ state' = [state EXCEPT ![exec] = "init"]
  /\ exec' = NULL
  /\ UNCHANGED <<last, schedVars, timerVars, vt, vtirq, saved, hcr>>

\* What a guest does without a trap: write its virtual timer, and end a virtual
\* interrupt, which deactivates the physical one.
GuestSetTimer(t) ==
  /\ pc = "guest"
  /\ vt' = [vt EXCEPT ![exec] = t]
  /\ UNCHANGED <<pc, state, exec, last, schedVars, timerVars, vtirq, saved, hcr>>

GuestEoi ==
  /\ pc = "guest"
  /\ vtirq = exec
  /\ vtirq' = NULL
  /\ UNCHANGED <<pc, state, exec, last, schedVars, timerVars, vt, saved, hcr>>

-----------------------------------------------------------------------------
\* Interrupts, taken from the guest or from the idle loop.

\* A device interrupt of VM m.  W is empty when no target sleeps, when the
\* interrupt is disabled or unknown, and for maintenance interrupts.  The guest's
\* physical timer comes in here too: it wakes the last vCPU, if that sleeps.
DeviceIrq(m, W) ==
  /\ Interrupt
  /\ W \subseteq Sleeping(VcpusOf(m))
  /\ Wake(W)
  /\ UNCHANGED vtirq

\* The virtual timer of the last vCPU.  The physical interrupt is left active for
\* the guest to deactivate; if it cannot be injected (distributor or interrupt
\* disabled) nobody will.
VtimerIrq ==
  /\ Interrupt
  /\ last # NULL
  /\ vt[last] <= now
  /\ vtirq = NULL
  /\ \/ Wake(Sleeping({last})) /\ vtirq' \in {last, Lost}
     \/ Wake({}) /\ vtirq' = Lost

\* The hypervisor timer: the earliest event fires, vcpu_wakeup_by_timer.
HtIrq(n) ==
  /\ Interrupt
  /\ TS!Fire(n)
  /\ LET v == pending[n].arg IN
       /\ tev' = [tev EXCEPT ![v] = NULL]
       /\ state' = [state EXCEPT ![v] = "wait"]
       /\ IF state[v] = "sleep"
            THEN ready' = Append(ready, v) /\ flag' = FlagAfterUnblock
            ELSE UNCHANGED <<ready, flag>>
  /\ UNCHANGED <<exec, last, hasNode, free, vt, vtirq, saved, hcr>>

HtIrqEmpty ==
  /\ Interrupt
  /\ TS!FireNothing
  /\ UNCHANGED <<state, exec, last, schedVars, tev, vt, vtirq, saved, hcr>>

Elapse ==
  /\ pc \in {"guest", "idle"}
  /\ TS!Elapse
  /\ UNCHANGED <<pc, state, exec, last, schedVars, tev, vt, vtirq, saved, hcr>>

Next ==
  \/ Boot
  \/ Dispatch
  \/ GuestWfi
  \/ GuestYield
  \/ GuestTrap
  \/ \E W \in SUBSET VCPU : GuestSgi(W)
  \/ \E v \in VCPU : GuestVint(v) \/ CpuOn(v)
  \/ CpuOff
  \/ \E t \in Time \cup {Never} : GuestSetTimer(t)
  \/ GuestEoi
  \/ \E m \in VM, W \in SUBSET VCPU : DeviceIrq(m, W)
  \/ VtimerIrq
  \/ \E n \in TNode : HtIrq(n)
  \/ HtIrqEmpty
  \/ Elapse

Spec == Init /\ [][Next]_vars

\* Fairness.  A handler runs to its end.  The counter never stops, although the
\* model advances it only between handlers, and an asserted interrupt
\* is taken when the guest or the idle loop has interrupts enabled, which recurs
\* between any two handlers: hence strong fairness.
FairSpec ==
  /\ Spec
  /\ WF_vars(Boot) /\ WF_vars(Dispatch)
  /\ SF_vars(Elapse)
  /\ SF_vars(VtimerIrq)
  /\ \A n \in TNode : SF_vars(HtIrq(n))

\* my_scheduler has no time slice: it relies on guests that yield again and
\* again (a WFE or hypercall 6 by whoever executes).
CooperativeSpec == FairSpec /\ SF_vars(GuestYield)

-----------------------------------------------------------------------------
\* Safety.

\* The life-cycle states agree with exec_cpu, one vCPU at most is started, and
\* the virtual timer loaded in the hardware is that of the executing vCPU.  The
\* assertions of vcpu_start and vcpu_sleep never fire, and vcpu_preemption's
\* branch for a vCPU that is last_cpu but not exec_cpu is never taken.
SingleRunning ==
  /\ \A v \in VCPU : state[v] = "start" <=> exec = v
  /\ exec # NULL => last = exec
  /\ pc = "guest" => exec # NULL
  /\ pc \in {"boot", "idle"} => exec = NULL

\* A vCPU is on the scheduler's lists, once, exactly if it waits for the CPU and
\* owns a node: no wake-up, CPU_ON or preemption loses or duplicates it.
ReadyExact ==
  /\ IsInjective(ready)
  /\ \A v \in VCPU : v \in ToSet(ready) <=> state[v] = "wait" /\ hasNode[v]
  /\ \A v \in VCPU : state[v] \in {"start", "sleep"} => hasNode[v]

\* timer_event of a vCPU and the armed events agree: no handle is stale, and no
\* event outlives the sleep it was armed for, whichever wake-up came first.
TimerHandles ==
  /\ \A n \in DOMAIN pending : tev[pending[n].arg] = n
  /\ \A v \in VCPU : tev[v] # NULL =>
        /\ tev[v] \in DOMAIN pending
        /\ pending[tev[v]].arg = v
        /\ state[v] = "sleep"

\* vcpu_sleep never finds the event pool empty, which timer_event_insert does not
\* survive.
TimerPoolSuffices == exec # NULL => TNode \ DOMAIN pending # {}

\* A vCPU that waits or sleeps has its whole context in its T_VCPU: no path to
\* another vCPU skips vcpu_save_state.
ContextSaved ==
  \A v \in VCPU : state[v] \in {"wait", "sleep"} => v \in saved

\* The guest runs under the HCR of its own VM, although a switch between vCPUs of
\* one VM does not write it.
HcrMatches == exec # NULL => hcr = VmOf[exec]

\* The CPU idles beside ready vCPUs only after a CPU_OFF without a pending flag:
\* any other way into the idle loop found the lists empty.
IdleMeansNoWork ==
  pc = "idle" /\ ready # <<>> => ~flag /\ last # NULL /\ state[last] = "init"

\* A step that puts a vCPU on the lists while none executes sets the flag.
WakeupReschedules ==
  exec = NULL /\ ~(ToSet(ready') \subseteq ToSet(ready)) => flag'

\* Once no vCPU executes, any wake-up leaves the flag set, so that the handler it
\* comes from does not go back to the idle loop, not even after a CPU_OFF.
IdleWakeupReschedules == [][WakeupReschedules]_vars

\* The hypervisor timer is never later than the event of a sleeping vCPU.
NoLateWakeup == \A v \in VCPU : tev[v] # NULL => ht <= pending[tev[v]].time

\* A vCPU that starts is the first of those of its priority, has the best priority
\* on the lists, and none worse than the vCPU it takes the CPU from.
InOrder ==
  /\ \A i, j \in 1 .. Len(ready) :
       i < j /\ Level(ready[i]) <= Level(ready[j]) => exec' # ready[j]
  /\ \A i \in 1 .. Len(ready) : exec' = ready[i] =>
       /\ \A j \in 1 .. Len(ready) : Level(ready[i]) <= Level(ready[j])
       /\ exec # NULL => Level(ready[i]) <= Level(exec)
  /\ \A v \in VCPU : state[v] = "wait" /\ state'[v] # "wait" => exec' = v

\* No step starts a vCPU while one of its own or of a better priority has waited
\* longer, nor one worse than the vCPU it takes the CPU from; and a vCPU leaves
\* the lists only to run.
NoOvertaking == [][InOrder]_vars

\* The assertion of my_allocate and its fp counterpart, "canot allocate": every
\* vCPU turned on owns a scheduler node.
AllocationSucceeds ==
  [][\A v \in VCPU : state[v] = "init" /\ state'[v] = "wait" => hasNode'[v]]_vars

Stage(s) == CASE s = "init"  -> "off"
              [] s = "wait"  -> "ready"
              [] s = "start" -> "running"
              [] s = "sleep" -> "blocked"

stage == [v \in VCPU |-> Stage(state[v])]

LC == INSTANCE Lifecycle WITH Group <- {VcpusOf(m) : m \in VM}, status <- stage

\* The life cycle of each vCPU is the abstract one.
ImplementsLifecycle == LC!LCSpec

-----------------------------------------------------------------------------
\* Liveness.

\* A vCPU that went to sleep with an event armed is woken, whatever wakes and
\* runs in between.
SleeperWoken == \A v \in VCPU : (tev[v] # NULL) ~> (state[v] # "sleep")

\* A vCPU that sleeps while its own virtual timer stays loaded is woken by that
\* timer, even if it had not expired when the vCPU went to sleep; unless the
\* interrupt cannot be injected.
LastTimerWakes ==
  \A v \in VCPU :
    (state[v] = "sleep" /\ last = v /\ vt[v] # Never /\ vtirq = NULL)
      ~> (state[v] # "sleep" \/ last # v \/ vtirq = Lost)

\* With guests that yield, a ready vCPU comes to run, or the CPU idles beside it.
ReadyRuns ==
  \A v \in VCPU :
    (v \in ToSet(ready)) ~> (state[v] = "start" \/ (pc = "idle" /\ ready # <<>>))
=============================================================================
