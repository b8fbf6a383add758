# A TLA+ model of T-Visor

T-Visor is a real-time hypervisor for ARMv7 (Cubieboard2, LS1021A-TWR). It runs on
one physical CPU and multiplexes it among the virtual CPUs of one or more virtual
machines. All the hypervisor's code runs in HYP mode with interrupts masked: a trap
or an interrupt is handled to its end before the next one is taken. The hard part
is therefore not data races but *long sequences of legal events*: sleep, wake-up by
four different sources, preemption, power off and on, timers that fire late, and a
few variables (`exec_cpu`, `last_cpu`, the reschedule flag, `sched_state`,
`timer_event`, the vCPU's state, the lists) that every one of these paths must leave
consistent.

## 1. The system: inventory

| component | source | state it keeps | operations |
|---|---|---|---|
| vCPU life cycle, world switch | `vcpu.c` | `exec_cpu`, `last_cpu`; per vCPU: `state`, `sched_state`, `timer_event`, the saved registers | reset, ready, start, save_state, preemption, sleep, wakeup (by interrupt, by timer), off |
| reschedule flag | `schedule.c` | one flag, the table of operations of the scheduler | set, clear, is set |
| `my_scheduler` (FIFO) | `my_scheduler.c` | wait queue, free nodes | allocate, enque, schedule, yield, block, unblock |
| `fp_scheduler` (fixed priority) | `fp_scheduler.c` | one list per priority, free nodes | the same |
| `edf_scheduler` | `edf_scheduler.c` | ready and waiting lists sorted by deadline, free nodes, two timer handles | the same |
| timer events | `timer_event.c`, `timer.c` | armed list, free list, hypervisor timer | insert, remove, tick |
| traps and interrupts | `hyp_call.c`, `irq_handler.c`, `startup.S` | the stack of the entry code | decode, call the handler, then the common tail: reschedule if the flag is set, idle while `exec_cpu` is NULL |
| PSCI | `virtual_psci.c` | none | CPU_ON, CPU_OFF |
| virtual GIC | `virtual_gic.c` | per VM the distributor; per vCPU saved list registers, banked state and a store of pending interrupts | register emulation, injection, maintenance, save and restore |
| virtual interrupts | `vint_sender.c` | a tree of permissions | add, send |
| intrusive lists | `queue.c` | two links in each node, two sentinels per list | insert, remove, top, pop, find, check |
| red-black trees | `rbtree.c` | a pool of nodes, one tree per table | insert, search (delete has no caller) |
| stage-2 page tables | `page_table.c` | three levels of descriptors, a count of tables handed out | setup, add_pages |
| device emulation | `virtual_device_handle.c`, `hyp_call.c` | a tree of address ranges; the guest's banked registers | register, look up, load, store |
| coprocessor emulation | `coproc.c` | a table of registers | read, write |
| message channel | `message_channel.c` (not compiled) | rings between VMs | send, receive |
| VM table, boot | `vm.c`, `system_init.c`, `user/*/user_init.c` | VM table, page table, HCR per VM | init, ready, start, stop |

Interactions. The *common tail* of `hyp_call` and `irq_handler` is the only caller of
`schedule`/`vcpu_preemption` after boot; everybody else only sets the flag. The
scheduler reads `exec_cpu` and `vcpu->state`, which `vcpu.c` writes *after* calling
the scheduler, so the order of the two inside each function matters. A wake-up
(`vcpu_wakeup`) is called from the virtual GIC with the sleeping targets of an
interrupt; `vcpu_wakeup_by_timer` is a callback of the timer events. The virtual
timer interrupt is delivered to `last_cpu`, not to `exec_cpu`.

What is hard to test: the orders in which wake-ups, timers and preemptions meet; a
flag that survives the reschedule it was set for; handles of timer events that may be
stale; an `exec_cpu` that is NULL in handlers written with a running vCPU in mind;
pools that shrink over a long run. The list, line by line, is under `hazards` in
`PROJECT.json`.

What makes each component correct, in the order of the table: the states agree with
`exec_cpu` and no context is lost; a wake-up is followed by a reschedule; the lists
hold the ready vCPUs exactly and in order; (EDF) of those that wait the one with the
earliest deadline gets the CPU, and the end of a budget is watched (that the earliest
deadline *runs* is not so: the test of `edf_scheduler.c:96` is the wrong way round, see
`EdfScheduler` below); no armed event is slept through; the tail never idles
beside work; every CPU_ON succeeds; no virtual interrupt is lost or listed twice; an
interrupt is sent only if permitted; a list is the same forwards and backwards; a tree
is a red-black tree and finds what was added; a page is mapped by the last area that
holds it, or not at all; an access reaches the device whose range holds the address,
and the register its mode names.

## 2. The modules

| module | what it is |
|---|---|
| `TimerService` | abstract: which one-shot events are armed, and the comparator of the hypervisor timer |
| `TimerEvent` | `timer_event.c`: the two lists, the insertion scan, the tick, removal by a possibly stale handle; implements `TimerService` |
| `Lifecycle` | abstract: off, ready, running, blocked for each vCPU, and that at most one runs |
| `Hypervisor` | the core: `vcpu.c`, `schedule.c`, `my_scheduler.c`, `fp_scheduler.c`, the handlers and their tail, PSCI, wake-ups, the two timers; built on `TimerService`, implements `Lifecycle` |
| `Queue` | `queue.c`, pointer by pointer: operators from memory to memory |
| `EdfScheduler` | `edf_scheduler.c` on `Queue`, with the callers in `vcpu.c`; implements `Lifecycle` |
| `InterruptDelivery` | abstract: which accepted interrupts are pending and which are being handled, per vCPU |
| `VirtualGic` | `virtual_gic.c` for one VM: list registers, saved copies, the store, maintenance, world switch, enables; implements `InterruptDelivery` |
| `RbTree` | `rbtree.c`: insertion with its four rotations, search |
| `HandlerTables` | the three tables on `RbTree` (`irq_handler.c`, `virtual_device_handle.c`, `vint_sender.c`) and the banked registers of `hyp_call.c` |
| `PageTable` | `page_table.c`: stage-2 tables of several VMs, area by area |
| `MC...` | the constants of the model-checking runs |
| `ListLemmas` | what removing, appending and inserting do to a list without duplicates; induction, least and greatest, stated of sets of naturals |
| `TimerEvent_proof` | proofs about `TimerEvent` |
| `Hypervisor_proof` | type correctness, the inductive invariant of the core and the theorems that follow: the order of the schedulers, no idling beside work, the event pool, that it implements `Lifecycle` |
| `Queue_proof` | the pointers of `Queue` stay consistent, and its lists are sequences |
| `EdfScheduler_proof` | all properties of `EdfScheduler`, and that it implements `Lifecycle` |
| `VirtualGic_proof` | all safety properties of `VirtualGic`, and that it implements `InterruptDelivery` |
| `PageTable_proof` | both properties of `PageTable`: pages are mapped exactly, tables are never shared |
| `HandlerTables_proof` | `rbtree_insert` and `rbtree_search` for any tree; then all properties of `HandlerTables`: the trees, what lookups find, what may be sent, the banked registers |

### How `Hypervisor` corresponds to the code

*Granularity.* A handler runs with interrupts masked, so one action is one handler.
Each is split at one place only, because the code joins there: the part that differs
per trap or interrupt (`GuestWfi`, `CpuOn`, `DeviceIrq`, ...) ends with
`pc = "sched"`, and from there only `Dispatch`, the common tail, can run. The tail is
no optional step: nothing else is enabled in between.

*State.* `exec`, `last`, `flag`, `state` and `tev` are the variables of the source.
`ready` is all of the scheduler's lists as one sequence in order of arrival:
`fp_scheduler`'s list for priority p is its subsequence of level p, and `Pickable`
finds the head of the first non-empty list not below the executing vCPU. `hasNode` is
`sched_state # NULL` and `free` the number of free scheduler nodes. `saved` is the set
of vCPUs whose `T_VCPU` holds their current context; loading a vCPU takes it out, and
`vcpu_save_state` (or `vcpu_reset`, which makes a new context) puts it back. Registers
themselves are not modelled. `vt` is a virtual timer's comparator, `Never` when the
timer is off or masked; the hardware's copy belongs to `last`. `vtirq` tells in whose
list register the active virtual timer interrupt sits, `Lost` if in none. `hcr` is the
VM whose HCR is in the register.

*Things modelled as the code has them, although one may stumble over them:*

- `vcpu_sleep` compares `vtctl & 7` with 5 (`vcpu.c:350`): the ISTATUS bit is part of
  the mask, so an event is armed only if the virtual timer has *already* expired. A
  sleeper with a later date is woken by its timer only while it stays `last`
  (`LastTimerWakes`); once another vCPU is loaded nothing is left to wake it.
- `scheduler_clear_flag` is called in one place (`vcpu.c:396`), after a switch from
  one running vCPU to another. After a start from idle the flag stays set, and the
  next trap reschedules although nobody asked.
- CPU_OFF (`vcpu.c:55`) sets `exec_cpu` to NULL without setting the flag: if it was
  not set the CPU goes to the idle loop beside ready vCPUs, until an interrupt wakes
  some vCPU.
- CPU_ON calls `vcpu_reset`, which allocates a scheduler node although the vCPU still
  has one, and nothing ever frees one (see *Findings*).
- The virtual timer interrupt is deactivated by the guest. If it could not be injected
  nobody does, and it never comes again (`vtirq = Lost`).
- With no vCPU executing, `fp_scheduler`'s search reads one list past its array. What
  lies there is a choice of the linker; the model allows an empty list and the free
  list (`ReadPastLevels`).
- `timer_event_remove` compares the head of the list with the removed node after it
  was unlinked, which is never true: the comparator is left alone. `TimerService`
  promises no more than that it is not late.
- `tv_abort` prints and *returns*. A call that the code "aborts" goes on.

*What the environment may do.* A guest may execute any trap at any time, set its
virtual timer to any date, and end its virtual interrupts. Devices may interrupt at
any time and wake any sleeping vCPUs of one VM, or none. Init is the state after
`user_init`: each vCPU has a node, those of `BootOrder` are ready.

### `Queue` and `EdfScheduler`

`Queue` keeps what C keeps: a `next` and a `prev` for every node and both sentinels of
every list. Its operators return the memory after the call, so the order of the
assignments is that of the code. `queue_list_check` is the code's own self-test and
serves as a property.

`EdfScheduler` runs on that memory. Things the model has because the code has them:

- The release loop (`edf_scheduler.c:69`) advances the first waiting job as long as its
  deadline has *not* passed and stops at one that is due; such a job waits until a
  reschedule finds a `_ws` whose head is early again. Order and completeness of the
  lists hold all the same, and are what is checked; that jobs are released on time does
  not hold and is not claimed.
- `remained_time` is unsigned and wraps (`Word`); a vCPU that overran its budget goes
  back to `_ls`, only one that hits 0 exactly goes to `_ws`.
- A past deadline at the head of `_ws` is armed again at each reschedule, the one its
  own event causes included (`insert_event`, an event `EventFires` takes at once). What
  that does to other users of the timer is the subject of `EventuallyLeaves`.
- `my_block` is called by `vcpu_preemption` after `my_schedule` and removes the end
  event just armed for the other vCPU. `BudgetWatched` therefore holds only of a vCPU
  that was started from idle or kept the CPU: `preempted` is the history variable that
  tells.
- `KeepExec` keeps the executing vCPU beside the first of `_ls` only if its deadline is
  the *later* one: a vCPU of later deadline takes the CPU from the earliest. The
  property `EarliestOfWaiting` says both halves: who is given the CPU has the earliest
  deadline of those that waited, and who loses it within its budget had an *earlier or
  equal* one.
- The counter and `start_time` have 64 bits (`Long`), but line 93 copies `start_time`
  into a word of 32 (`Word`) before the time used is computed (`Used`). A vCPU started
  after 2^32 ticks seems to have used all of its budget, and is never kept.
- CPU_ON gives the vCPU another node, and NULL when none is free. `queue_insert_prev`
  refuses NULL, so that such a vCPU waits on no list and never runs; what `list_enque`
  reads through NULL on the way decides nothing. CPU_OFF sets `exec_cpu` to NULL, leaves
  the end event armed and the flag as it is. `vm_ready` readies one vCPU of each VM, the
  others wait for CPU_ON. One handler may wake any sleepers of one VM.

The two timer events are dates. A handle that is stale and whose node the FIFO of 16
has handed out again would remove another's event; that is the subject of
`TimerEvent` and left out here.

### `VirtualGic`

One VM, its vCPUs and the hardware they share. `hw` is the interface as it is loaded,
`saved` the copy of each vCPU, `mem` is `irq_no_mask` with `pending_lr`. `View(v)` is
what the code's accessors read: the hardware for `exec`, the copy otherwise. Injection
(`SetLr`) follows the code: refuse what is in the store or a list register, else the
first empty register, on the way there changing places with everything of lower
priority; what remains goes to the store, and the underflow interrupt is enabled in the
*hardware*, whoever executes (`Commit`). A guest acknowledges and ends interrupts in
any order the GIC allows, and is held back while a maintenance interrupt is asserted.
`physAct` is the active state in the physical distributor: an SPI cannot arrive again
until the guest ends its virtual one.

An SGI may go to any vCPUs, its sender among them. Priorities are any numbers, 0 (what
the distributor's registers hold before the guest writes them) and equal ones among them.
The interface GICH_APR has a bit per priority level and the code reads one per list
register (`IsActive`); so, below `LRNum`, a handled interrupt of level k - 1 makes what
is in list register k seem active, and a second one of the same id is stored although it
is listed. `twice` remembers for whom.

What is taken as given: priorities and targets are those written at boot, physical and
virtual ids are equal, and an SGI is not sent to a vCPU while it has the same SGI of
another source (`OneSource`, a guard of `SendSgi`). An enable is written
while its interrupt is nowhere in the GIC (`Absent`).

What does not hold and is excluded by name, because the code is so: a vCPU that turns
itself off saves none of its list registers, and when it is turned on again is loaded
with those it saved some time before (`lapsed`); one for which `set_lr` has stored what it
had listed gets that twice, and an SPI's second copy no longer has the physical one
behind it (`twice`); something stored for a vCPU
that does not execute enables the underflow interrupt for another, and may lie in the store
until that vCPU is loaded with its own enabled (`stray`); the maintenance
interrupt may come in the idle loop when `last_cpu` is off, or when a vCPU that is off
was sent something it cannot hold: its `saved_elsr0` is 0 until it has run, so the store
takes the interrupt and the underflow interrupt is enabled at once (the two exceptions
of `NoIdleMaintenance`).

`InterruptDelivery` makes its promises to the vCPUs that are neither `lapsed` nor `twice`
(`Faithful`): what is pending stays pending until its vCPU takes it, and what is handled
stays so until the handler that took it ends (`Finish` needs that handler, the innermost,
and drops that interrupt alone). A vCPU leaves the circle only by turning itself off
outside every handler (`Cease`), or when it is sent an interrupt it had already
(`D` in `Raise`).

### `RbTree` and `HandlerTables`

A pool is the sequence of nodes handed out; a tree is the index of its head. The four
shapes of `rotate` are four operators, three of which move keys and values rather than
nodes, as in the code. `HandlerTables` fills the three trees in any order (`boot`) and
then looks things up in them (`guest`). `log` remembers what was registered, so that
the properties can compare what a lookup finds with what was meant. A register is the
place that holds it: a field of the saved block, or a banked register of a mode.

- The four handlers of `irq_handler_init` are the first four entries of `log`, each
  with its own interrupt (26, 25, 30 and 27), and `FindsRegistered` asks of them what it
  asks of the others.
- An interrupt registered twice has two nodes, and which of them is found depends on
  the shape of the tree. `FindsRegistered` promises a handler registered for that very
  interrupt, not which. (`test_vm` registers 27, which the hypervisor has already.)
- A second permission for a key is a second node, with the mask extended. The node found
  may be the older one, so that only the *first* sender permitted is certain to be.
- Ranges of devices are disjoint, as everywhere in the sources; overlapping ones print
  and compare equal.
- The write of r8 to r12 in FIQ mode declares its operand as an output (`hyp_call.c:117`):
  what is written is undefined (`Defined`), and the model lets it be anything.
- The architecture reports no valid syndrome for an access that writes its address
  back, so `check_write_back` changes nothing in `DataAbort`. The address of the next
  instruction is 2 on in Thumb state even for a 32-bit instruction (`hyp_call.c:495`);
  the model does not tell instruction lengths apart.

### `PageTable`

Addresses count pages; the tables are memory indexed by table and entry. `AddArea` is
one turn of the loop of `page_table_add_pages`, from index to index as the code walks:
the rest of a block, whole blocks, the rest of a gigabyte, the pages at the end.
`Walk` is what the MMU does. Each area carries its number as attribute, so that
`MapsExactly` can say which of several overlapping areas must have won.

Memory for tables is zero at boot, as the code takes it to be. An area that reaches the
last page cannot be expressed (its end is 0 as a 32-bit word); one that holds a whole
block must be mapped at the same offset modulo 2 MB (else bits of the address would land
in the attributes). Both are in `WellFormed`. A table whose entry is overwritten by a
block is never used again (a leak, within `MaxTables`).

## 3. The runs

| run | bounds | what it shows |
|---|---|---|
| `timer_event` | 3 nodes, counter 0..3, dates up to 3 in the past | the pool stays a partition, the list sorted, the comparator never late, `TimerService` is implemented; an armed event is called back or removed, unless it is overtaken for ever by events armed for earlier dates |
| `core_my` | 2 VMs with 2 and 1 vCPUs, FIFO, 3 events, 5 scheduler nodes, counter 0..1 | all safety properties of the core, and that it implements `Lifecycle` |
| `core_fp` | the same, fixed priorities 0, 0 and 9 | what depends on the scheduler: order, and the flag after a wake-up |
| `core_wake` | 1 VM with 2 vCPUs, 4 scheduler nodes, counter 0..1 | which sleepers the timers wake |
| `core_ready` | 2 VMs, 3 vCPUs, 4 nodes, counter 0 | a ready vCPU comes to run under guests that yield |
| `node_leak` | 2 vCPUs, the real 16 nodes | CPU_OFF and CPU_ON exhaust the node pool |
| `edf` | 3 vCPUs in 2 VMs, one of them off at first; periods 3, 2 and none, budgets 1, 2, 1, first times 0, 1, 0; 4 nodes, counter 0..5, `Word` 4, `Long` 64 | lists exact in memory, who is given the CPU has the earliest deadline of those that waited, budgets are watched, `Lifecycle` is implemented |
| `vgic` | 2 vCPUs, 2 list registers, an SGI of priority 2, a PPI and an SPI of priority 3; the SPI's enable and CTRL may change | no interrupt is listed twice, an active SPI has exactly one holder |
| `vgic_off` | 2 vCPUs, 1 list register, an SGI of priority 0 and an SPI of 1; vCPU 1 may turn itself off and be turned on; enables as above | what is stored is watched (but for `stray`), no maintenance in the idle loop, `InterruptDelivery` is implemented |
| `vgic_active` | as `vgic` | an SGI for a vCPU that handles the same SGI is refused |
| `tables` | up to 4 registrations beside the 4 built in, of 4 interrupts, 3 ranges, 2 senders and 2 targets; 4 modes, 3 registers, 1 access | the trees and what is found in them; the banks |
| `page_tables` | 3 entries per level; VM 1 with every interval of pages, then any that begins at one of two places, then one of two; VM 2 with a fixed pair | the map is the areas'; no table is shared |

The passing runs are exhaustive within their bounds. Why these are enough for the
interesting cases to happen:

- Three vCPUs are the least with two waiting beside one that runs, so that order
  matters, and two VMs the least with and without a change of HCR. 5 scheduler nodes
  for 3 vCPUs let CPU_ON succeed twice and then fail. Priority 9 is beyond
  `MAX_PRIORITY`, so it is clamped.
- As many timer events as vCPUs: one fewer and `TimerPoolSuffices` would fail, more
  are never used (it is a theorem).
- The counter needs two values for the core: "expired" and "not yet" are all that a
  comparison tells apart, and a timer set behind the counter is included. `TimerEvent`
  has four dates so that four different orders and ties of three events occur.
- `Slack` says how far in the past a date may be when an event is armed. `vcpu_sleep`
  arms *only* expired dates (`vcpu.c:350`), and `edf_scheduler.c:69-83` arms the passed
  deadline of the head of `_ws` again at each reschedule, always at the head of the armed
  list: the events behind it starve as long as that job stays. So liveness is checked with
  past dates, and says what remains true: nothing but such overtaking keeps an event
  waiting (`Overtakes`), not equal dates, stale handles or a comparator left behind.
- The counter stops at `MaxTime`. Safety loses nothing: no action depends on more than
  a comparison. In the liveness runs every armed date is at most `MaxTime`.
- `edf`: with 3 vCPUs two wait on a list while one runs, and periods 3 and 2 make
  deadlines overtake each other. A `Word` of 4 is passed by the counter within the run, so
  that a start after it is no longer what line 93 reads, and charges wrap. 4 nodes for 3
  vCPUs: the first CPU_ON gets the spare node, the second none.
- `vgic`: two list registers for three interrupts is the least with which one is
  evicted and refilled; the newcomer's priority may be better than, equal to or worse than
  that of an occupant; and the PPI, the SGI and the SPI cover the three ways of waking,
  targeting and deactivating. `vgic_off` has one list register, so that every second
  interrupt goes to the store, and a priority below the number of list registers. It has
  no PPI and one register to keep the states few; once injected nothing distinguishes a PPI
  from an SPI for the last vCPU, and the refinement is proved for any number of all of
  these. A second VM would only add world switches, which two vCPUs have.
- `tables`: with 8 nodes in one tree each of the four rotations happens, and a
  recolouring that moves up and rotates there; the interrupts lie below, between, on
  and above the built-in ones.
- `page_tables`: with three entries per level an area may begin inside a block, at one
  and between, end likewise, and cross none, one or two boundaries of each level; 3
  first-level entries allow a gigabyte between the two an area ends in. All areas but
  the top page are enumerated for the first area. 40 tables are never exhausted by them.
- Symmetry is used on timer nodes only, in `core_my` and `core_fp`, which check no liveness.
- The timer models may stop when the counter has and nothing is armed, so their runs
  do not look for deadlock. Nor does that of `PageTable`, whose boot ends, nor those of
  `VirtualGic`, where all vCPUs may sleep with their interrupts disabled. All others do:
  no handler of the core, the EDF scheduler or the tables ever gets stuck.

### Fairness

`FairSpec` of the core: `Boot` and `Dispatch` weakly, since a handler runs to its end.
The counter (`Elapse`) and the two timer interrupts strongly: the counter never stops,
although the model lets it move only between handlers; and a level-triggered interrupt
that stays asserted is taken as soon as interrupts are unmasked, which happens at the
end of every handler, but a guest that traps at once can make the action disabled
again and again. Nothing is assumed of devices and guests. `CooperativeSpec` adds that
whoever executes yields again and again (`GuestYield`): `my_scheduler` has no time
slice, so without this a guest keeps the CPU for ever. `fp_scheduler` would need more:
it starves lower priorities by design, and no liveness is claimed for it.

### Mutants

Each property is shown to depend on the code by a faulty variant, kept in the module
in a section of its own and used by no action: an event not removed at a wake-up, a
flag not set, a context not saved, HCR written too rarely, newest instead of oldest, a
node taken without a test, a stopped comparator, a scan that stops at equal dates, a signed
charge, a job not put back,
an end event armed from the wrong date, a store not looked at, HCR not saved, a red
uncle overlooked, an end included in a range, a mask replaced instead of extended, a
link register shared by all modes, a first page taken for part of a block, an odd root,
and so on. `PROJECT.json` pairs them
with the properties they break.

## 4. Theorems

Those about `Hypervisor` and `TimerEvent` are for every finite set of vCPUs, any VMs, both schedulers, any node pools at
least as large as the number of vCPUs and any `MaxTime`. The assumptions are those
named in `Hypervisor` (`VcpuAssumption`, `BootAssumption`, `PoolAssumption`,
`PolicyAssumption`, `TimeAssumption`, `NullAssumption`) and in `TimerEvent`: a boot
order without repetitions, initial pools that are big enough (16 of each in the code),
and NULL different from every object.

*`Hypervisor_proof`.* The inductive invariant is

    IInv == TypeOK /\ SingleRunning /\ ReadyExact /\ TimerHandles
            /\ ContextSaved /\ HcrMatches /\ TS!NoLostTimer

None of the parts is inductive alone. A timer tick keeps the lists exact only because
its event belongs to a vCPU that sleeps (`TimerHandles`); a pick keeps the handles
exact only because a listed vCPU does not sleep (`ReadyExact`); a trap changes the
state of `exec`, and keeps everything only because that is the one vCPU that is
started (`SingleRunning`). There is one lemma per kind of step (`StartStep`,
`SwitchStep`, `WakeStep`, `WfiStep`, `CpuOnStep`, `CpuOffStep`, `HtIrqStep`), and
`QuietStep` for those that move no vCPU. What the list operations do comes from
`ListLemmas`, what the timer service does from the `TS...` lemmas. From it follow
`TypeCorrect`, `SingleRunningAlways`, `ReadyExactAlways`, `TimerHandlesAlways`,
`ContextSavedAlways`, `HcrMatchesAlways` and `NoLateWakeupAlways`.

*The schedulers.* `TimerPoolSufficesAlways` by counting: were the pool empty,
each node would belong to a different sleeping vCPU, and the executing one is not among
them. `IdleMeansNoWorkAlways` adds to the invariant the state between a handler and its
tail (`NoIdleWork`), and that a non-empty list always offers something to an idle CPU:
the least level, then the least position (`SomethingPickable`). `NoOvertakingAlways`
and `IdleWakeupReschedulesAlways` are action properties proved step by step from
`IInv`.

*The life cycle.* `LifecycleImplemented`: every step maps to one step of
`Lifecycle` or to none.

*`TimerEvent_proof`.* The invariant is `TypeOK /\ PoolPartition /\ Sorted /\
NoLostTimer`; `ServiceImplemented` shows that `TimerEvent` implements `TimerService`,
for any pool, any slack and any stale handles. `Sorted` is what makes the head of the
list the earliest event, `NoLostTimer` what makes the insertion at the head the only
one that moves the comparator.

*`Queue_proof`.* In a memory where `next` and `prev` are each other's inverse
(`Linked`, what `queue_list_check` tests along one list), `queue_remove` of a node that
lies between two others and `queue_insert_prev` of a free node keep it so, whatever
else is linked there (`RemoveKeepsLinks`, `InsertKeepsLinks`), and removing what was
just inserted restores the memory (`RemoveUndoesInsert`). The only assumption is that
NULL is no address.

The second half says what the lists *are*. `Lists(L, Q, m, f)`: following the links from
each head meets the nodes of the sequence `f[l]` and then the tail, in both directions,
and no node is on a list twice or on two. `queue_insert_prev` before the i-th place
then is `InsertAt` on one sequence and nothing on the others (`Inserted`),
`queue_list_enque` the same at the end (`EnqueIsInsert`), `queue_remove` is `RemoveAt`
(`Removed`), `queue_list_init` makes an empty list (`Initialised`). `ListsAre` goes
back to the code's own functions: the walk of `Items` ends and yields `f[l]`,
`queue_list_check` holds, `queue_list_is_empty` and `queue_list_top` say what they should.

*`EdfScheduler_proof`.* For any VMs, vCPUs, boot order, nodes (fewer than vCPUs
included), periods, budgets, first times, any `Word` and `Long`, and a counter that may run
to `Long - 1`, through all its 64 bits. The assumptions are `EdfAssumption` (the ranges of
the parameters) and `AddressAssumption` (nodes, sentinels and NULL are different objects).
The inductive invariant is

    IInv == TypeOK /\ Lists(List, Node, mem, Queues) /\ Ordered(Items(mem, "ls"), job)
            /\ Owned /\ (pc = "guest" => exec # NULL) /\ Watched

`ListsExact` alone says too little to be inductive: an insertion needs that the newcomer
is on *no* list, the free list included (`Owned`, which speaks of vCPUs with a node and
without), and that every link of the memory is
the one of a sequence (`Lists`), not only that the walks along the lists succeed.
`Ordered` is what makes the head of `_ls` the earliest deadline; it depends on the jobs
as well as on the list, and a release changes the deadline of a job that is on no list
at that moment. `_ws` need not be in order for any of this. `Watched` is
`BudgetWatched` in a handler, too. Three inductions: over the turns of the release loop
(`MoveKeeps`, `ReleasedKeeps`: nobody is lost, who was ready stays ready, and `_ws` is not
exhausted before the loop is); over the sleepers that one handler wakes (`WokenKeeps`);
and over the boot (`FillKeeps`, `BootEnds`). CPU_ON and the boot share `AllocKeeps` and
`EnquedKeeps`: `World(s, f, W)` says of links, jobs and handles together that the lists are
`f` and those on `_ls` or `_ws` are the nodes of `W`. A node that a vCPU loses at its
next CPU_ON is on no list and stays so.
`EnqueKeeps` and `PopKeeps` are the list operations with the order, `Scheduled` what
`my_schedule` may answer, and there is one lemma per action. From it follow `TypeCorrect`,
`ListsExactAlways`, `BudgetWatchedAlways`, `EarliestOfWaitingAlways` (only `Dispatch` gives
the CPU away, and what it gives it to was the head of a list that holds everybody who was
ready) and `LifecycleImplemented`.

*`VirtualGic_proof`.* For any number of vCPUs, list registers and interrupts, any
priorities, targets and bounds that `GicAssumption` allows: it gives ids and priorities
their types and says which ids are SGIs. The inductive invariant is

    IInv == TypeOK /\ CopiesMarked /\ OnceEach
            /\ UnderflowArmed /\ IdleFor /\ StrayStored /\ NoIdleMaintenance /\ SpiOwned

`OnceEach` says of registers and store together that no two places describe the same
interrupt; it is `UniqueListing` without the counting, and it is kept because
`CopiesMarked` makes a register that `saved_elsr0` calls empty really empty (an
injection overwrites nothing), and one that it does not call empty, in a copy saved while
an interrupt was handled, really in use (so that what seems active below `LRNum` was
listed). `IdleFor` (who was last, and that the idle loop has no
vCPU to run) and `StrayStored` are what `NoIdleMaintenance` needs at an injection in
the idle loop: the interrupt is for a vCPU that sleeps, which it wakes. `SpiOwned` is
`SpiHeldOnce` without the counting. What the loop of `virtual_gic_set_lr` does to the
registers (`ScanKeeps`) is proved by induction over the number
of registers looked at: the contents plus the newcomer are, after each round, the
contents plus the interrupt in hand. There is one lemma per action (`...Keeps`), and for
the refinement one per action of `InterruptDelivery` (`RaiseIs`, `TakeIs`, `FinishIs`,
`CeaseIs`), with `SameHeld` for the steps that only move interrupts; what happens to a
vCPU that is not `Faithful` is `Unseen`. From it follow
`TypeCorrect`, `UniqueListingAlways`, `UnderflowArmedAlways`, `NoIdleMaintenanceAlways`,
`SpiHeldOnceAlways` and `DeliveryImplemented`.

*`PageTable_proof`.* For tables of any size, any number of VMs, any areas that are
`WellFormed` and any `MaxTables`. The inductive invariant is

    IInv == Lists /\ Sound(tab, count, RootsOf(root)) /\ Apart /\ Exact

`Exact` is `MapsExactly`, said of `Seen`, what the three levels hold for a page.
`Sound` is why it stays true: the two tables of a root and its second-level tables are
where `page_table_setup` puts them; an entry of a second-level table is blank, a block, or
the link to a third-level table; no two links lead to one table, in one VM or in two; and
tables not handed out are blank. With that a write to an entry changes what is seen of the
pages under that entry and of no other, and a table just handed out shows nothing. Each
of the loops of `page_table_add_pages` is then a step from one address to a later one
that maps the pages between them (`AreaAdded`); an array of areas is an induction over
its length (`AreasAdded`), and a VM one of these on a new root (`RootIsAdded`). The
numerals of the code (4, 512, 512) are constants here, so division is stated by
multiplication (`Quotient`, `QuotientUnique`). From it follow `PagesMappedExactly` and
`TablesNeverShared`.

*`HandlerTables_proof`.* For any interrupts, ranges, senders, targets, modes and
registers that `TablesAssumption` allows: numbers, ranges that are disjoint and not
empty, and an interrupt id below `KeyShift`, so that a key names one target. The number
of registrations is not bounded by any of them.

*The red-black tree* comes first and knows no table. `Shape(q, h, N, U)`: the nodes `N`
of pool `q` are a tree with head `h`, and `U[n]` are the nodes under `n`; `Sorted`: they
are in order; `Heights`: each way down from a node meets as many black nodes; `NoReds(q,
N, t)`: no red node has a red parent, except perhaps `t`. A rotation is a *turn* of three
nodes with four subtrees, whichever of its branches it takes: the `Turned...` lemmas say
what a turn does to each of the four, once, and `RotatesLL`, `RotatesLR`, `RotatesRR`
and `RotatesRL` that the assignments of each branch, in their order, are such a turn.
Three of the branches move keys and values instead of nodes, so that what was in one
node is in another afterwards; this is why contents are compared (`SameContents`) and
not nodes. `TurnStep` is one turn of the loop: it keeps everything but
`NoReds`, which now fails at most higher up, where more nodes are underneath. Therefore
the loop is over after as many turns as there are nodes (`LoopSettles`), and
`InsertTree` says of the whole of `rbtree_insert` that it makes of any red-black tree a
red-black tree of the old contents and the new, and touches nothing else in the pool.
`SearchFinds` needs of the comparator only that it agrees with the order on the tree
(`Guides`): equal keys may then lie on both sides of a node, as they do here.

The operators of `RbTree` walk up and down by recursive functions over the whole pool.
That such a function exists is proved and not assumed, by a measure that falls on each
step (`Recursion`, `Rooted`, `Hung`); then it has the value its definition says, and
induction over the number of nodes does the rest (`InOrderLists`, `BlacksComplement`).

*The tables.* `Forest`: the three trees together are the whole pool and share no
node; so the pool has a measure although only one tree of it is being changed.
`Kept`: whatever was registered is in its tree, and each node holds what some
registration put there. For permissions that is: only senders that were permitted, and
among them the first one of the key, *in every node of that key*. The invariant is

    LookupsInv == TablesInv /\ FindsRegistered /\ SendsArePermitted

with `TablesInv` saying `Forest` and `Kept` of the log, whose first entries are the
hypervisor's own handlers. That a permission inserted later
still holds the first sender is because the search it starts with finds some node of the
key, and every one holds it. `CompareOrders` is where disjoint ranges are used: with
overlapping ones the comparator orders nothing. From it follow `TreesStayRedBlack`,
`LookupsFindRegistered` and `SendsOnlyPermitted`.

*The registers*: two names of a register are one place exactly if they are one register
of the architecture (`PlacesAreBanks`), and `RegistersAsBanked` follows from that for
loads and stores in any order.

*Only model-checked*: the liveness properties (`SleeperWoken`, `LastTimerWakes`,
`ReadyRuns`, `EventuallyLeaves`), which need fairness and are out of the prover's
reach, and of course the counterexamples of `node_leak` and `vgic_active`. Every safety
property and every refinement that a run checks has a theorem. `ReadyExact` and
`IdleMeansNoWork` are proved for both schedulers and model-checked for the FIFO one.
Induction is stated of sets of naturals (`Induction` in `ListLemmas`), from which the
provers can conclude what they cannot from a theorem about an operator.

## 5. Findings

`node_leak`: `vcpu_off` has the call that would free the scheduler node commented out
(`vcpu.c:56`), and `vcpu_reset` allocates one at each CPU_ON (`vcpu.c:52`). The
allocator states that running out must not happen (`my_scheduler.c:34`, "canot
allocate"). Two vCPUs turning each other off and on reach it after 15 calls; the vCPU
is then in state WAIT, on no list, and cannot be turned on again.

`vgic_active`: `virtual_gic_set_lr` means to keep an interrupt pending that arrives
while its vCPU handles an earlier one of the same id ("# irq active and pending.",
`virtual_gic.c:520`), but asks the wrong question: it takes GICH_APR, one bit per
*priority level*, as one bit per *list register* (`virtual_gic.c:516`, `:538`). At
levels of at least `LRNum` no such bit is set, and the interrupt is refused: an SGI, which
has no source that would raise it again, is lost. Below, the bit of one interrupt's level
answers for whatever is in the list register of that number, and what is only pending
there may be stored a second time (`twice`).

Seen in reading and not the subject of a run: `coproc.c:8` takes the direction bit the
wrong way round, `coproc.c:29` repeats the condition of the branch before it, and
`coproc.c:46` stores MAIR1 in MAIR0; `vint_sender.c:22` tests a permission with a vCPU's
id that integrations gave with a VM's (`user/test_vm/user_init.c:86`).

## 6. Not modelled

- *Wording and registers*: the contents of the saved registers, the decoding of trapped
  instructions, debug output.
- *Hypercalls* that only print, read or pass a device's memory through, and hypercall 0,
  which the boot code uses to run `system_init`: it is taken that no guest issues it
  again.
- `vm_stop` and the GIC half of `vm_start`: `virtual_gic_start` and `_stop` are empty.
- Handles of `EdfScheduler`'s two events whose node has been handed out again: its events
  are dates there.
- The guest's *physical* timer: in `Hypervisor` it comes in through `DeviceIrq`.
- In `VirtualGic`: the registers for priority, target and configuration (constants), and
  reads, which change nothing; the store is per id, so that two sources of one SGI would
  overwrite each other (one source at a time is a guard, `OneSource`).
- `rbtree_delete` has no caller. `rr_scheduler.c`, `message_channel.c`, `hyp_test.S` are
  not compiled; `default_schedule.c` and `vcpu_make_wait` have no caller.
- `coproc.c`: reads and writes of a few registers, without state of its own.
- `memory_manage.S` and the registers that switch translation on; `gic.c` beyond what
  `VirtualGic` uses; `cache.c`, `serial.c`, `debug.c`, `port.c`: accesses to hardware.

## 7. Plan

Done: `TimerService`, `TimerEvent`, `Lifecycle`, `Hypervisor` with their runs and proofs;
`Queue`, `EdfScheduler`, `InterruptDelivery`, `VirtualGic`, `RbTree`, `HandlerTables`,
`PageTable` with their runs, and the proofs about all of them. Left, most important first:

1. The composition of `Hypervisor` with `TimerEvent` in place of `TimerService`, and
   with `VirtualGic` in place of the free choice of the vCPUs an interrupt wakes.
2. Several sources of one SGI, and handles of `EdfScheduler` on `TimerEvent` so that a
   reused node can be cancelled by mistake.
3. The limits of the tables of VMs and vCPUs; `Coproc` and `MessageChannel` if they ever
   keep state that matters or are compiled.
