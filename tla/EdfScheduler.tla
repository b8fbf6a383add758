---------------------------- MODULE EdfScheduler ----------------------------
(***************************************************************************)
(* edf_scheduler.c on its intrusive lists, driven by what vcpu.c,          *)
(* virtual_psci.c and the tail of the handlers do with a scheduler.  Each  *)
(* vCPU has a budget per period: ready ones wait on "ls", those whose      *)
(* budget is used up on "ws", both ordered by deadline; free nodes are on  *)
(* "fl".  Two timer events end a budget and begin the next period.         *)
(*                                                                         *)
(* A job and a vCPU find each other by pointers; a vCPU turned on when no  *)
(* node is free is left with NULL.                                         *)
(*                                                                         *)
(* The two events are modelled as dates: removing an event that has fired  *)
(* does nothing, as long as its node (one of 16, reused in FIFO order) has *)
(* not been handed out again.                                              *)
(***************************************************************************)
EXTENDS Queue, SequencesExt

CONSTANTS
  VM, VCPU,  \* the VMs; the vCPUs by id, those of one VM in the order of vids
  VmOf,      \* vCPU -> its VM
  BootOrder, \* the vCPUs vm_ready makes ready, in order
  Node,      \* the nodes of _que
  first_time, period, exection_time,   \* vCPU -> its edf_sched_param_t
  Word,      \* 2^32, for UW
  Long,      \* 2^64, for UD
  MaxTime    \* bound: the counter stops there

List == {"ls", "ws", "fl"}

ASSUME EdfAssumption ==
  /\ VCPU = 0 .. Cardinality(VCPU) - 1 /\ IsFiniteSet(VCPU)
  /\ VmOf \in [VCPU -> VM]
  /\ BootOrder \in Seq(VCPU) /\ IsInjective(BootOrder)
  /\ IsFiniteSet(Node)
  /\ Word \in Nat \ {0} /\ Long \in Nat \ {0}
  /\ first_time \in [VCPU -> 0 .. Long - 1]
  /\ period \in [VCPU -> 0 .. Word - 1] /\ exection_time \in [VCPU -> 0 .. Word - 1]
  /\ MaxTime \in 0 .. Long - 1
  /\ NULL \notin VCPU \cup Node
\* Nodes and sentinels are different objects.
ASSUME AddressAssumption ==
  \A l \in List : /\ {HeadOf(l), TailOf(l)} \cap Node = {}
                  /\ NULL \notin {HeadOf(l), TailOf(l)}

VARIABLES
  pc,       \* "guest", "sched" (the tail of a handler) or "idle"
  state,    \* vCPU -> its life-cycle state
  exec,     \* exec_cpu
  flag,     \* the reschedule flag
  mem,      \* the links of the three lists, see Queue
  job,      \* node -> its fields vcpu, remained_time, dead_line, start_time
  sched_state,              \* vCPU -> its node, or NULL
  end_event, insert_event,  \* the date of the armed event, or Never
  now,      \* the counter, ptimer_get_value
  preempted \* history: exec was given the CPU of another vCPU

nodeVars == <<mem, job, sched_state>>
evVars   == <<end_event, insert_event>>
vars     == <<pc, state, exec, flag, nodeVars, evVars, now, preempted>>

Never   == Long          \* later than any date
Forever == Long - 1      \* the deadline of a vCPU without a period

Date(n) == n % Long

Job == [vcpu : VCPU \cup {NULL}, remained_time : 0 .. Word - 1,
        dead_line : 0 .. Long - 1, start_time : 0 .. Long - 1]

On(l) == ToSet(Items(mem, l))

VcpusOf(m) == {v \in VCPU : VmOf[v] = m}

-----------------------------------------------------------------------------
\* Faulty variants, used by no action.

PopOnly(s)        == [s EXCEPT !.mem = queue_list_pop(@, "ws")]
StopsAtEarlier(dl, d) == dl < d
SignedCharge(j, q) == [j EXCEPT ![q].remained_time = @ - (now - j[q].start_time)]
FromStart(v)      == Date(job[sched_state[v]].start_time + exection_time[v])
StillExec(v)      == /\ flag' = TRUE /\ end_event' = Never
                     /\ state' = [state EXCEPT ![v] = "sleep"] /\ exec' = exec

-----------------------------------------------------------------------------
\* list_enque: before the first node with a later deadline.

StopsAt(dl, d) == dl > d

list_enque(m, jb, l, q) ==
  LET w    == Items(m, l)
      stop == {k \in DOMAIN w : StopsAt(jb[w[k]].dead_line, jb[q].dead_line)}
  IN  queue_insert_prev(m, q, IF stop = {} THEN TailOf(l) ELSE w[Min(stop)])

\* my_init.
EmptyLists ==
  LET none == queue_list_init(queue_list_init(queue_list_init(
                Unlinked(List, Node), "fl"), "ls"), "ws")
      que  == SetToSeq(Node)
      filled[k \in 0 .. Len(que)] ==
        IF k = 0 THEN none ELSE queue_list_enque(filled[k-1], "fl", que[k])
  IN  filled[Len(que)]

\* vcpu_reset of v: my_allocate.
Allocated(s, v) ==
  IF queue_list_is_empty(s.mem, "fl") THEN [s EXCEPT !.sched[v] = NULL]
  ELSE LET q == queue_list_top(s.mem, "fl") IN
       [mem   |-> queue_list_pop(s.mem, "fl"),
        job   |-> [s.job EXCEPT ![q].vcpu = v,
                                ![q].dead_line = IF period[v] # 0
                                                 THEN Date(first_time[v] + period[v])
                                                 ELSE Forever,
                                ![q].remained_time = exection_time[v]],
        sched |-> [s.sched EXCEPT ![v] = q]]

\* vcpu_ready of v: my_enque.  queue_insert_prev refuses NULL.
Enqued(s, v) ==
  IF s.sched[v] = NULL THEN s
  ELSE [s EXCEPT !.mem = list_enque(s.mem, s.job, "ls", s.sched[v])]

Fresh == [mem   |-> EmptyLists,
          job   |-> [q \in Node |-> [vcpu |-> NULL, remained_time |-> 0,
                                    dead_line |-> 0, start_time |-> 0]],
          sched |-> [v \in VCPU |-> NULL]]

\* vm_create resets all vCPUs, vm_ready readies one of each VM.
Booted ==
  LET reset[n \in 0 .. Cardinality(VCPU)] ==
        IF n = 0 THEN Fresh ELSE Allocated(reset[n-1], n - 1)
      readied[k \in 0 .. Len(BootOrder)] ==
        IF k = 0 THEN reset[Cardinality(VCPU)] ELSE Enqued(readied[k-1], BootOrder[k])
  IN  readied[Len(BootOrder)]

\* The end of system_init calls schedule whatever the flag is.
Init ==
  /\ pc = "sched"
  /\ state = [v \in VCPU |-> IF v \in ToSet(BootOrder) THEN "wait" ELSE "init"]
  /\ exec = NULL
  /\ flag = TRUE
  /\ mem = Booted.mem /\ job = Booted.job /\ sched_state = Booted.sched
  /\ end_event = Never /\ insert_event = Never
  /\ now = 0 /\ preempted = FALSE

-----------------------------------------------------------------------------
\* my_schedule.  The first loop moves a job of "ws" to "ls" for its next period
\* as long as the first deadline has NOT passed yet.

MoveJob(s) ==
  LET q == queue_list_top(s.mem, "ws")
      v == s.job[q].vcpu
      j == [s.job EXCEPT ![q].dead_line = Date(@ + period[v]),
                         ![q].remained_time = exection_time[v]]
  IN  [mem |-> list_enque(queue_list_pop(s.mem, "ws"), j, "ls", q), job |-> j]

Releasable(s) == s.job[queue_list_top(s.mem, "ws")].dead_line >= now

Released ==
  LET turns == Len(Items(mem, "ws"))
      freed[k \in 0 .. turns] ==
        IF k = 0 THEN [mem |-> mem, job |-> job]
        ELSE IF Releasable(freed[k-1]) THEN MoveJob(freed[k-1])
        ELSE freed[k-1]
  IN  freed[turns]

\* The time used, counted from the low half of start_time: a UW holds it.
Used(e) == now - (e.start_time % Word)

\* Keep the executing vCPU beside the first of "ls": if its deadline is LATER.
KeepExec(j, q) ==
  /\ exec # NULL
  /\ LET e == j[sched_state[exec]]
     IN  /\ e.remained_time > Used(e)
         /\ e.dead_line > j[q].dead_line

\* The date at which the budget of v ends.
BudgetEnd(v) == Date(now + exection_time[v])

\* The result of my_schedule: what to run, and what it did to get there.
Schedule ==
  LET s   == Released
      ins == IF queue_list_is_empty(s.mem, "ws") THEN Never
             ELSE s.job[queue_list_top(s.mem, "ws")].dead_line
      q   == queue_list_top(s.mem, "ls")
  IN  IF queue_list_is_empty(s.mem, "ls") \/ KeepExec(s.job, q)
      THEN [pick |-> exec, mem |-> s.mem, job |-> s.job, ins |-> ins, end |-> end_event]
      ELSE [pick |-> s.job[q].vcpu,
            mem  |-> queue_list_pop(s.mem, "ls"),
            job  |-> [s.job EXCEPT ![q].start_time = now],
            ins  |-> ins,
            end  |-> BudgetEnd(s.job[q].vcpu)]

\* my_block, called by vcpu_preemption after my_schedule: it charges the vCPU
\* that loses the CPU, and removes the end event armed for the other.
Charged(j, q) ==
  [j EXCEPT ![q].remained_time = (@ + Word - ((now - j[q].start_time) % Word)) % Word]

ListFor(j, q) == IF j[q].remained_time = 0 THEN "ws" ELSE "ls"

Block(r) ==
  LET q == sched_state[exec]
      j == Charged(r.job, q)
  IN  /\ job' = j
      /\ mem' = list_enque(r.mem, j, ListFor(j, q), q)
      /\ end_event' = Never
      /\ flag' = FALSE      \* set by my_block, cleared by vcpu_preemption

Switch(r) ==
  /\ Block(r)
  /\ state' = [state EXCEPT ![exec] = "wait", ![r.pick] = "start"]
  /\ exec' = r.pick

\* The tail of every handler: my_schedule and vcpu_preemption if the flag is
\* set, then back to a guest or to the idle loop.
Dispatch ==
  /\ pc = "sched"
  /\ IF ~flag THEN UNCHANGED <<state, exec, flag, mem, job, evVars, preempted>>
     ELSE LET r == Schedule IN
          /\ insert_event' = r.ins
          /\ \/ /\ r.pick = exec
                /\ mem' = r.mem /\ job' = r.job /\ end_event' = r.end
                /\ UNCHANGED <<state, exec, flag, preempted>>
             \/ /\ exec = NULL /\ r.pick # NULL
                /\ mem' = r.mem /\ job' = r.job /\ end_event' = r.end
                /\ state' = [state EXCEPT ![r.pick] = "start"]
                /\ exec' = r.pick
                /\ preempted' = FALSE
                /\ UNCHANGED flag
             \/ exec # NULL /\ r.pick # exec /\ Switch(r) /\ preempted' = TRUE
  /\ pc' = IF exec' = NULL THEN "idle" ELSE "guest"
  /\ UNCHANGED <<sched_state, now>>

-----------------------------------------------------------------------------
\* What makes the flag set.

\* WFE, or the hypercall that sets the flag.
GuestYield ==
  /\ pc = "guest" /\ pc' = "sched"
  /\ flag' = TRUE
  /\ UNCHANGED <<state, exec, nodeVars, evVars, now, preempted>>

\* vcpu_sleep: my_yield; the budget is not charged.
Sleep(v) ==
  /\ flag' = TRUE
  /\ end_event' = Never
  /\ state' = [state EXCEPT ![v] = "sleep"]
  /\ exec' = NULL

GuestWfi ==
  /\ pc = "guest" /\ pc' = "sched"
  /\ Sleep(exec)
  /\ UNCHANGED <<nodeVars, insert_event, now, preempted>>

\* vcpu_wakeup and its my_unblock for each vCPU of W, in the order of ids.
Woken(W) ==
  LET woken[n \in 0 .. Cardinality(VCPU)] ==
        IF n = 0 THEN mem
        ELSE IF n - 1 \in W
          THEN LET q == sched_state[n-1]
               IN  list_enque(woken[n-1], job, ListFor(job, q), q)
        ELSE woken[n-1]
  IN  woken[Cardinality(VCPU)]

\* An interrupt, an SGI of the guest or a vCPU's own timer: whom it wakes is of
\* one VM.
Wakeup(W) ==
  /\ pc \in {"guest", "idle"} /\ pc' = "sched"
  /\ W # {}
  /\ \E m \in VM : W \subseteq VcpusOf(m)
  /\ \A v \in W : state[v] = "sleep"
  /\ mem' = Woken(W)
  /\ state' = [v \in VCPU |-> IF v \in W THEN "wait" ELSE state[v]]
  /\ flag' = TRUE
  /\ UNCHANGED <<exec, job, sched_state, evVars, now, preempted>>

\* PSCI CPU_ON of a vCPU that is off: it gets a new node, although it still had
\* one, and is enqueued; the flag is not set.
CpuOn(v) ==
  /\ pc = "guest" /\ pc' = "sched"
  /\ VmOf[v] = VmOf[exec]
  /\ state[v] = "init"
  /\ LET s == Enqued(Allocated([mem |-> mem, job |-> job, sched |-> sched_state], v), v)
     IN  mem' = s.mem /\ job' = s.job /\ sched_state' = s.sched
  /\ state' = [state EXCEPT ![v] = "wait"]
  /\ UNCHANGED <<exec, flag, evVars, now, preempted>>

\* PSCI CPU_OFF: the end event stays armed and the flag as it is.
CpuOff ==
  /\ pc = "guest" /\ pc' = "sched"
  /\ state' = [state EXCEPT ![exec] = "init"]
  /\ exec' = NULL
  /\ UNCHANGED <<flag, nodeVars, evVars, now, preempted>>

\* Every other trap or interrupt; its tail may still find the flag set.
OtherHandler ==
  /\ pc \in {"guest", "idle"} /\ pc' = "sched"
  /\ UNCHANGED <<state, exec, flag, nodeVars, evVars, now, preempted>>

\* The timer interrupt calls back the event with the earliest date.
EventFires ==
  /\ pc \in {"guest", "idle"} /\ pc' = "sched"
  /\ \/ /\ end_event <= now /\ end_event <= insert_event
        /\ end_event' = Never /\ UNCHANGED insert_event
     \/ /\ insert_event <= now /\ insert_event <= end_event
        /\ insert_event' = Never /\ UNCHANGED end_event
  /\ flag' = TRUE
  /\ UNCHANGED <<state, exec, nodeVars, now, preempted>>

Elapse ==
  /\ pc \in {"guest", "idle"}
  /\ now < MaxTime
  /\ now' = now + 1
  /\ UNCHANGED <<pc, state, exec, flag, nodeVars, evVars, preempted>>

Next ==
  \/ \E W \in SUBSET VCPU : Wakeup(W)
  \/ \E v \in VCPU : CpuOn(v)
  \/ Dispatch \/ GuestYield \/ GuestWfi \/ CpuOff \/ OtherHandler
  \/ EventFires \/ Elapse

Spec == Init /\ [][Next]_vars

-----------------------------------------------------------------------------
TypeOK ==
  /\ pc \in {"guest", "sched", "idle"}
  /\ state \in [VCPU -> {"init", "wait", "start", "sleep"}]
  /\ exec \in VCPU \cup {NULL}
  /\ flag \in BOOLEAN
  /\ DOMAIN mem.next = DOMAIN mem.prev
  /\ job \in [Node -> Job]
  /\ sched_state \in [VCPU -> Node \cup {NULL}]
  /\ end_event \in 0 .. Never /\ insert_event \in 0 .. Never
  /\ now \in 0 .. MaxTime /\ preempted \in BOOLEAN

\* The vCPUs that wait for the CPU with a node.
Waiting == {v \in VCPU : state[v] = "wait" /\ sched_state[v] # NULL}

\* Whatever the order of sleeps, wake-ups, releases, preemptions and PSCI calls:
\* the three lists stay well formed in memory (queue_list_check), no node is on
\* two of them, a vCPU that waits for the CPU has its node on "ls" or "ws", no
\* other node is there (not the one a vCPU lost when it was turned on again), and
\* a vCPU that was left without a node never comes to run.
ListsExact ==
  /\ \A l \in List : queue_list_check(mem, l)
  /\ \A l, k \in List : l # k => On(l) \cap On(k) = {}
  /\ On("ls") \cup On("ws") = {sched_state[v] : v \in Waiting}
  /\ \A v \in VCPU : /\ sched_state[v] # NULL => job[sched_state[v]].vcpu = v
                     /\ state[v] = "start" <=> v = exec
                     /\ state[v] \in {"start", "sleep"} => sched_state[v] # NULL

\* The executing vCPU has budget left and was started in the first 2^32 ticks.
WithinBudget ==
  LET e == job[sched_state[exec]]
  IN  e.start_time < Word /\ e.remained_time > now - e.start_time

\* A vCPU that is given the CPU has the earliest deadline of those that waited on
\* "ls" or came back to it, however often deadlines were advanced meanwhile.  The
\* vCPU that loses the CPU is not among them: if it had budget left, it is the one
\* with the earlier deadline (or the same), for the test of line 96 keeps the
\* later one.
EarliestOfWaiting ==
  [][exec' \notin {NULL, exec} =>
       LET d == job'[sched_state[exec']].dead_line
       IN  /\ \A v \in VCPU \ {exec, exec'} :
                sched_state[v] \in On("ls")' => d <= job'[sched_state[v]].dead_line
           /\ exec # NULL /\ WithinBudget => job'[sched_state[exec]].dead_line <= d]_vars

\* A vCPU within its budget (exection_time after it was given the CPU) runs with
\* the event armed that ends it, also after the vCPU before turned itself off and
\* left its event behind; except when it was given the CPU of another: my_block,
\* called after my_schedule has armed the event, removes it.
BudgetWatched ==
  pc = "guest" /\ ~preempted =>
    LET end == Date(job[sched_state[exec]].start_time + exection_time[exec]) IN
    now < end => end_event = end

\* The life cycle the vCPUs are promised, as under the other schedulers.
LC == INSTANCE Lifecycle WITH
        Group  <- {VcpusOf(m) : m \in VM},
        status <- [v \in VCPU |->
                     CASE state[v] = "init"  -> "off"
                       [] state[v] = "wait"  -> "ready"
                       [] state[v] = "start" -> "running"
                       [] state[v] = "sleep" -> "blocked"]
ImplementsLifecycle == LC!LCSpec
=============================================================================
