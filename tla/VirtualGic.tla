----------------------------- MODULE VirtualGic -----------------------------
(***************************************************************************)
(* The virtual GIC of one VM (virtual_gic.c): the list registers of the    *)
(* hardware, the copy of them each vCPU has while it does not execute, the *)
(* store in memory for what does not fit, and the enables of its           *)
(* distributor.  The guest's side of the list registers, the maintenance   *)
(* interrupt and the physical distributor are the hardware's.              *)
(*                                                                         *)
(* Physical and virtual ids are the same, priorities and targets are those *)
(* the guest has written at boot.                                          *)
(***************************************************************************)
EXTENDS Naturals, Sequences, FiniteSets, SequencesExt

CONSTANTS
  VCPU,     \* the vCPUs of the VM, by vid
  Sgi, Ppi, Spi,       \* its interrupts, by kind
  SGI_ID_MAX,
  LRNum,    \* GICH_LR_NUM, 4
  Level,    \* irq -> its priority
  Target,   \* SPI -> the vCPUs of its ITARGETSR
  MayTurnOff, \* bound: the vCPUs that turn themselves off
  Written,  \* bound: the interrupts whose enable changes after boot
  NULL

IRQ == Sgi \cup Ppi \cup Spi

ASSUME GicAssumption ==
  /\ VCPU = 0 .. Cardinality(VCPU) - 1 /\ IsFiniteSet(VCPU)
  /\ 0 \in VCPU /\ NULL \notin VCPU
  /\ SGI_ID_MAX \in Nat /\ LRNum \in Nat \ {0}
  /\ \A i \in Sgi : i \in 0 .. SGI_ID_MAX - 1
  /\ \A i \in Ppi \cup Spi : i \in Nat /\ i > SGI_ID_MAX
  /\ Ppi \cap Spi = {} /\ IsFiniteSet(Ppi \cup Spi) /\ MayTurnOff \subseteq VCPU
  /\ Written \subseteq Ppi \cup Spi
  /\ Target \in [Spi -> SUBSET VCPU] /\ Level \in [IRQ -> Nat]

VARIABLES
  pc,       \* "guest", "idle", or "sched": on the way to a woken vCPU
  exec, last, asleep, off,   \* exec_cpu, last_cpu and the states SLEEP, INIT
  hw,       \* the hardware: its list registers, APR and HCR
  saved,    \* vCPU -> saved_lr, saved_elsr0, saved_apr, saved_hcr
  mem,      \* vCPU -> the interrupts of irq_no_mask, as in pending_lr
  stack,    \* vCPU -> the interrupts its handlers are in, the innermost last
  ctl, en, spiEn, useIrq,    \* GICD_CTRL, ppi_isenabler, gicd_isenabler, use_irq
  physEn, physAct,           \* the physical distributor: enabled, active
  stray,    \* history: vCPUs with something stored while they did not execute
  lapsed,   \* history: vCPUs that have turned themselves off
  twice     \* history: vCPUs set_lr has stored something for that it had listed

coreVars == <<hw, saved, mem, stray, twice>>
distVars == <<ctl, en, spiEn, useIrq, physEn>>
cpuVars  == <<pc, exec, last, asleep, off>>
vars     == <<cpuVars, coreVars, stack, distVars, physAct, lapsed>>

LR == 1 .. LRNum
Levels == {Level[i] : i \in IRQ}

\* What a list register or an entry of the store describes.
Interrupt == [irq : IRQ, src : VCPU, hw : BOOLEAN, pri : Levels, st : {"pend", "act"}]
Blank     == [irq |-> 0, src |-> 0, hw |-> FALSE, pri |-> 0, st |-> "none"]
Reg       == Interrupt \cup {Blank}

Empty(lr) == {i \in LR : lr[i].st = "none"}

Awake == VCPU \ (asleep \cup off)

TypeOK ==
  /\ pc \in {"guest", "idle", "sched"}
  /\ exec \in VCPU \cup {NULL} /\ last \in VCPU \cup {NULL}
  /\ asleep \subseteq VCPU /\ off \subseteq VCPU /\ asleep \cap off = {}
  /\ exec \notin asleep \cup off
  /\ pc = "guest" <=> exec # NULL
  /\ hw \in [lr : [LR -> Reg], apr : SUBSET Levels, np : BOOLEAN, eoi : BOOLEAN]
  /\ saved \in [VCPU -> [lr : [LR -> Reg], empty : SUBSET LR, apr : SUBSET Levels,
                         np : BOOLEAN, eoi : BOOLEAN]]
  /\ mem \in [VCPU -> SUBSET Interrupt]
  /\ stack \in [VCPU -> Seq(IRQ)]
  /\ ctl \in BOOLEAN /\ en \in [VCPU -> SUBSET (Sgi \cup Ppi)] /\ spiEn \subseteq Spi
  /\ useIrq \subseteq Ppi \cup Spi
  /\ physEn \subseteq Ppi \cup Spi /\ physAct \subseteq Ppi \cup Spi
  /\ stray \subseteq VCPU /\ lapsed \subseteq VCPU /\ twice \subseteq VCPU

\* virtual_gic_init, after gic_virtual_init; each vCPU has enabled its PPIs but
\* for those of Written.  saved_elsr0 is zero until a vCPU has run: none of its
\* list registers counts as empty.
Init ==
  /\ pc = "sched" /\ exec = NULL /\ last = NULL
  /\ asleep = {} /\ off = VCPU \ {0}
  /\ hw = [lr |-> [i \in LR |-> Blank], apr |-> {}, np |-> FALSE, eoi |-> FALSE]
  /\ saved = [v \in VCPU |-> [lr |-> [i \in LR |-> Blank], empty |-> {}, apr |-> {},
                              np |-> FALSE, eoi |-> FALSE]]
  /\ mem = [v \in VCPU |-> {}]
  /\ stack = [v \in VCPU |-> <<>>]
  /\ ctl = FALSE /\ en = [v \in VCPU |-> Sgi \cup (Ppi \ Written)] /\ spiEn = {}
  /\ useIrq = Ppi \ Written
  /\ physEn = Ppi /\ physAct = {}
  /\ stray = {} /\ lapsed = {} /\ twice = {}

-----------------------------------------------------------------------------
\* Faulty variants, used by no action.

NotLooked(m, x)     == FALSE
WriteLrOnly(c, lr)  == [c EXCEPT !.lr = lr]
SaveWithoutHcr(v)   == [saved EXCEPT ![v] = [@ EXCEPT !.lr = hw.lr, !.empty = Empty(hw.lr),
                                                      !.apr = hw.apr, !.eoi = hw.eoi]]
WakeNobody(T)       == UNCHANGED cpuVars
WakeToSched(T)      == /\ asleep' = asleep \ T /\ UNCHANGED <<exec, last, off>>
                       /\ pc' = IF T \cap asleep # {} THEN "sched" ELSE pc
KeptActive(p, ok)   == physAct' = physAct \cup {p}

-----------------------------------------------------------------------------
\* virtual_gic_set_lr.

\* virtual_gic_read_elsr0, _read_apr, _read_lr: the hardware for the executing
\* vCPU, its copy for another.
View(v) ==
  IF v = exec THEN [lr |-> hw.lr, empty |-> Empty(hw.lr), apr |-> hw.apr]
  ELSE [lr |-> saved[v].lr, empty |-> saved[v].empty, apr |-> saved[v].apr]

SameInterrupt(x, y) == x.irq = y.irq /\ (x.irq <= SGI_ID_MAX => x.src = y.src)

\* What an injection does to one vCPU: its list registers, its store, whether
\* the interrupt was accepted, whether something was stored, and whether that
\* was listed already.
Refused(v, m) ==
  [lr |-> View(v).lr, mem |-> m, ok |-> FALSE, stored |-> FALSE, again |-> FALSE]
Placed(lr, m) == [lr |-> lr, mem |-> m, ok |-> TRUE, stored |-> FALSE, again |-> FALSE]
Stored(lr, m, x, again) ==
  [lr |-> lr, mem |-> {y \in m : y.irq # x.irq} \cup {x},
   ok |-> TRUE, stored |-> TRUE, again |-> again]

\* The first empty list register takes it; on the way there it changes places
\* with every interrupt of lower priority.
ScanStep(empty, s, i) ==
  IF s.done THEN s
  ELSE IF i \in empty
    THEN [lr |-> [s.lr EXCEPT ![i] = s.x], x |-> s.x, done |-> TRUE]
  ELSE IF s.lr[i].pri > s.x.pri
    THEN [lr |-> [s.lr EXCEPT ![i] = s.x], x |-> s.lr[i], done |-> FALSE]
  ELSE s

Scan(c, x) ==
  LET scan[i \in 0 .. LRNum] ==
        IF i = 0 THEN [lr |-> c.lr, x |-> x, done |-> FALSE]
        ELSE ScanStep(c.empty, scan[i-1], i)
  IN  scan[LRNum]

InStore(m, x) == \E y \in m : y.irq = x.irq

\* GICH_APR has a bit per priority level; it is read as one per list register.
IsActive(apr, i) == i - 1 \in apr

SetLr(v, m, x) ==
  LET c    == View(v)
      same == {i \in LR \ c.empty : SameInterrupt(c.lr[i], x)}
      s    == Scan(c, x)
  IN  IF InStore(m, x) THEN Refused(v, m)
      ELSE IF same # {}
        THEN IF IsActive(c.apr, Min(same)) THEN Stored(c.lr, m, x, TRUE) ELSE Refused(v, m)
      ELSE IF s.done THEN Placed(s.lr, m)
      ELSE Stored(s.lr, m, s.x, FALSE)

\* virtual_gic_write_lr: a copy that is written is no longer empty.
WriteLr(c, lr) ==
  [c EXCEPT !.lr = lr, !.empty = @ \ {i \in LR : lr[i] # c.lr[i]}]

\* The results r of the injections into the vCPUs of T.  gic_set_np_int writes
\* the hardware, whoever executes.
Commit(T, r) ==
  LET store == {v \in T : r[v].stored} IN
  /\ saved' = [v \in VCPU |-> IF v \in T \ {exec} THEN WriteLr(saved[v], r[v].lr)
                              ELSE saved[v]]
  /\ hw' = [hw EXCEPT !.lr = IF exec \in T THEN r[exec].lr ELSE @,
                      !.np = @ \/ store # {}]
  /\ mem' = [v \in VCPU |-> IF v \in T THEN r[v].mem ELSE mem[v]]
  /\ stray' = {v \in stray : mem'[v] # {}} \cup (store \ {exec})
  /\ twice' = twice \cup {v \in T : r[v].again}

Inject(T, x) == Commit(T, [v \in T |-> SetLr(v, mem[v], x)])

\* gic_make_virtual_software_sgi, _software_interrupt, _hardware_interrupt.
Made(i, src, h) == [irq |-> i, src |-> src, hw |-> h, pri |-> Level[i], st |-> "pend"]

-----------------------------------------------------------------------------
\* World switch.

\* virtual_gic_save_state and _restore_state.  APR is saved, never restored.
Save(v) == [saved EXCEPT ![v] = [lr |-> hw.lr, empty |-> Empty(hw.lr), apr |-> hw.apr,
                                 np |-> hw.np, eoi |-> hw.eoi]]
Restore(s) == [lr |-> s.lr, apr |-> hw.apr, np |-> s.np, eoi |-> s.eoi]

\* vcpu_preemption, to any vCPU that waits.
Enter(v) ==
  /\ pc \in {"guest", "sched"}
  /\ v \in Awake \ {exec}
  /\ pc' = "guest" /\ exec' = v /\ last' = v
  /\ saved' = IF exec = NULL THEN saved ELSE Save(exec)
  /\ hw' = Restore(saved[v])
  /\ UNCHANGED <<asleep, off, mem, stray, twice, stack, distVars, physAct, lapsed>>

\* GICH_MISR: no list register is pending (NP), or an end of interrupt found no
\* list register (LRENP); both enabled in GICH_HCR.
MisrNP    == hw.np /\ \A i \in LR : hw.lr[i].st # "pend"
MisrLRENP == hw.eoi
Vmi       == MisrNP \/ MisrLRENP

\* The guest runs as long as no maintenance interrupt is asserted.
Guest == pc = "guest" /\ ~Vmi

\* What the virtual interface signals: pending, above the running priority.
Signalled == {i \in LR : /\ hw.lr[i].st = "pend"
                         /\ \A p \in hw.apr : hw.lr[i].pri < p
                         /\ \A j \in LR : hw.lr[j].st = "pend"
                              => hw.lr[i].pri <= hw.lr[j].pri}

\* The reschedule flag is set, or was left set.
Rest(set, others) == IF set /\ others # {} THEN "sched" ELSE "idle"

\* WFI, which is no trap while an interrupt is signalled: vcpu_sleep.
Sleep ==
  /\ Guest /\ Signalled = {}
  /\ saved' = Save(exec)
  /\ asleep' = asleep \cup {exec} /\ exec' = NULL
  /\ pc' = Rest(TRUE, Awake \ {exec})
  /\ UNCHANGED <<last, off, hw, mem, stray, twice, stack, distVars, physAct, lapsed>>

\* CPU_OFF, not from a handler, saves nothing; CPU_ON leaves the saved state alone.
CpuOff ==
  /\ Guest /\ stack[exec] = <<>> /\ exec \in MayTurnOff
  /\ off' = off \cup {exec} /\ exec' = NULL
  /\ \E set \in BOOLEAN : pc' = Rest(set, Awake \ {exec})
  /\ lapsed' = lapsed \cup {exec}
  /\ UNCHANGED <<last, asleep, coreVars, stack, distVars, physAct>>

CpuOn(v) ==
  /\ Guest /\ v \in off
  /\ off' = off \ {v}
  /\ UNCHANGED <<pc, exec, last, asleep, coreVars, stack, distVars, physAct, lapsed>>

-----------------------------------------------------------------------------
\* The guest's side of its interrupts: the virtual CPU interface.

Ack ==
  /\ Guest
  /\ \E i \in Signalled :
       /\ hw' = [hw EXCEPT !.lr[i].st = "act", !.apr = @ \cup {hw.lr[i].pri}]
       /\ stack' = [stack EXCEPT ![exec] = Append(@, hw.lr[i].irq)]
  /\ UNCHANGED <<cpuVars, saved, mem, stray, twice, distVars, physAct, lapsed>>

\* The end of the innermost handler: the running priority drops, and the
\* interrupt is retired from its list register if it is in one.
Drop(apr) == IF apr = {} THEN {} ELSE apr \ {Min(apr)}

Eoi ==
  /\ Guest /\ stack[exec] # <<>>
  /\ stack' = [stack EXCEPT ![exec] = Front(@)]
  /\ LET held == {i \in LR : hw.lr[i].st = "act" /\ hw.lr[i].irq = Last(stack[exec])}
     IN  /\ hw' = [hw EXCEPT !.lr  = [i \in LR |-> IF i \in held THEN Blank ELSE @[i]],
                             !.apr = Drop(@),
                             !.eoi = @ \/ held = {}]
         /\ physAct' = physAct \ {hw.lr[i].irq : i \in {j \in held : hw.lr[j].hw}}
  /\ UNCHANGED <<cpuVars, saved, mem, stray, twice, distVars, lapsed>>

-----------------------------------------------------------------------------
\* Injections.

Waking(T) ==
  /\ asleep' = asleep \ T
  /\ pc' = IF exec = NULL /\ T \cap asleep # {} THEN "sched" ELSE pc
  /\ UNCHANGED <<exec, last, off>>

\* The interrupts a vCPU has in its list registers and its store.
Held(v) == {x \in {View(v).lr[i] : i \in LR} : x.st # "none"} \cup mem[v]

\* Bound: a vCPU has an SGI from one source at a time.
OneSource(T, x) == \A v \in T : \A y \in Held(v) : y.irq = x.irq => y.src = x.src

\* A write to GICD_SGIR, whose three filters name any vCPUs, the sender too; or
\* to GICD_SPENDSGIR.
SendSgi(i, T) ==
  /\ Guest /\ T # {}
  /\ OneSource(T, Made(i, exec, FALSE))
  /\ ctl
  /\ LET on == {v \in T : i \in en[v]} IN
     /\ Waking(on)
     /\ Inject(on, Made(i, exec, FALSE))
  /\ UNCHANGED <<stack, distVars, physAct, lapsed>>

\* virtual_gic_default_balance_func: one of mask, the last vCPU if possible.
Balance(mask) == IF last \in mask THEN last ELSE Min(mask)

\* Hypercall 4 of a vCPU of this VM for itself: a software SPI.
VintSend(i) ==
  /\ Guest
  /\ ctl /\ i \in spiEn /\ Target[i] # {}
  /\ LET v == Balance(Target[i]) IN
     /\ Waking({v})
     /\ Inject({v}, Made(i, 0, FALSE))
  /\ UNCHANGED <<stack, distVars, physAct, lapsed>>

\* A physical interrupt is active from its acknowledgement until the guest ends
\* the virtual one, or the handler deactivates it.
Arrives(p) ==
  /\ pc \in {"guest", "idle"} /\ last # NULL
  /\ p \in physEn \ physAct

\* virtual_gic_send_hardware_int of an SPI, and the integration's handler.
AfterSpi(p, ok) == physAct' = IF ok THEN physAct \cup {p} ELSE physAct

SpiIrq(p) ==
  /\ Arrives(p) /\ p \in Spi
  /\ IF ctl /\ p \in spiEn /\ Target[p] # {}
     THEN LET v == Balance(Target[p])
              r == SetLr(v, mem[v], Made(p, 0, TRUE))
          IN  /\ Waking(Target[p])
              /\ Commit({v}, [u \in {v} |-> r])
              /\ AfterSpi(p, r.ok)
     ELSE UNCHANGED <<cpuVars, coreVars, physAct>>
  /\ UNCHANGED <<stack, distVars, lapsed>>

\* A PPI is for the last vCPU.  Its handlers, vtimer_handle and nstimer_handle,
\* ignore whether it was accepted.
PpiIrq(p) ==
  /\ Arrives(p) /\ p \in Ppi
  /\ physAct' = physAct \cup {p}
  /\ IF ctl
     THEN /\ Waking({last})
          /\ IF p \in en[last] THEN Inject({last}, Made(p, 0, TRUE))
             ELSE UNCHANGED coreVars
     ELSE UNCHANGED <<cpuVars, coreVars>>
  /\ UNCHANGED <<stack, distVars, lapsed>>

\* What a maintenance interrupt takes from the store: the best priority, and
\* what is pending before what is active.
Best(m) ==
  LET top  == {x \in m : \A y \in m : x.pri <= y.pri}
      pend == {x \in top : x.st = "pend"}
  IN  IF pend # {} THEN CHOOSE x \in pend : \A y \in pend : x.irq <= y.irq
      ELSE CHOOSE x \in top : \A y \in top : x.irq >= y.irq

Refill(v) ==
  LET x == Best(mem[v]) IN Commit({v}, [u \in {v} |-> SetLr(v, mem[v] \ {x}, x)])

\* vmi_handle, virtual_gic_maintenance; an LRENP alone is not handled.
Maintenance ==
  /\ pc = "guest" /\ MisrNP
  /\ IF mem[exec] = {}
     THEN hw' = [hw EXCEPT !.np = FALSE] /\ UNCHANGED <<saved, mem, stray, twice>>
     ELSE Refill(exec)
  /\ UNCHANGED <<cpuVars, stack, distVars, physAct, lapsed>>

-----------------------------------------------------------------------------
\* Writes to the distributor.

\* Bound: an enable is written while its interrupt is nowhere in the GIC.
Absent(I) == /\ physAct \cap I = {}
             /\ \A v \in VCPU : \A x \in Held(v) : x.irq \notin I

Physical(S) == physEn' = IF ctl THEN S ELSE physEn

WriteCtrl(b) ==
  /\ Guest /\ Absent(IRQ)
  /\ ctl' = b
  /\ physEn' = IF b THEN physEn \cup useIrq ELSE physEn \ useIrq
  /\ UNCHANGED <<cpuVars, coreVars, stack, en, spiEn, useIrq, physAct, lapsed>>

WriteIsenabler(i) ==
  /\ Guest /\ Absent({i})
  /\ IF i \in Spi THEN spiEn' = spiEn \cup {i} /\ UNCHANGED en
     ELSE en' = [en EXCEPT ![exec] = @ \cup {i}] /\ UNCHANGED spiEn
  /\ useIrq' = useIrq \cup {i}
  /\ Physical(physEn \cup {i})
  /\ UNCHANGED <<cpuVars, coreVars, stack, ctl, physAct, lapsed>>

\* For a PPI use_irq is set, and the physical interrupt stays enabled.
WriteIcenabler(i) ==
  /\ Guest /\ Absent({i})
  /\ IF i \in Spi
     THEN /\ spiEn' = spiEn \ {i} /\ UNCHANGED en
          /\ useIrq' = useIrq \ {i}
          /\ Physical(physEn \ {i})
     ELSE /\ en' = [en EXCEPT ![exec] = @ \ {i}] /\ UNCHANGED <<spiEn, physEn>>
          /\ useIrq' = useIrq \cup {i}
  /\ UNCHANGED <<cpuVars, coreVars, stack, ctl, physAct, lapsed>>

Next ==
  \/ \E v \in VCPU : Enter(v) \/ CpuOn(v)
  \/ Sleep \/ CpuOff \/ Ack \/ Eoi \/ Maintenance
  \/ \E i \in Sgi : \E T \in SUBSET VCPU : SendSgi(i, T)
  \/ \E i \in Spi : VintSend(i) \/ SpiIrq(i)
  \/ \E i \in Ppi : PpiIrq(i)
  \/ \E b \in BOOLEAN : WriteCtrl(b)
  \/ \E i \in Written : WriteIsenabler(i) \/ WriteIcenabler(i)

Spec == Init /\ [][Next]_vars

-----------------------------------------------------------------------------
Irqs(v, s) == {x.irq : x \in {y \in Held(v) : y.st = s}}

\* The vCPUs nothing has been dropped or doubled for: those that have never
\* turned themselves off, nor been sent what set_lr took for active and pending.
Faithful   == VCPU \ (lapsed \cup twice)

\* No interrupt is listed twice for a vCPU, whether in list registers, evicted,
\* refilled, or injected while it does not execute.  (As a set: list registers
\* and store together have as many entries as interrupts.)
UniqueListing ==
  \A v \in Faithful :
    LET used == {i \in LR : View(v).lr[i].st # "none"} IN
    Cardinality(used) + Cardinality(mem[v]) = Cardinality({x.irq : x \in Held(v)})

\* Something in the store has the underflow interrupt of its vCPU enabled,
\* unless it was stored while that vCPU did not execute: gic_set_np_int then
\* enables it for another.
UnderflowArmed ==
  \A v \in VCPU \ (lapsed \cup stray) :
    mem[v] # {} => IF v = exec THEN hw.np ELSE saved[v].np

\* The maintenance interrupt, whose handler uses vcpu_get_executing() without a
\* test, is never asserted in the idle loop; except after the last vCPU turned
\* itself off, or when a vCPU that is off was sent something it cannot hold.
NoIdleMaintenance == pc = "idle" /\ Vmi => last \in off \/ stray \cap off # {}

\* A physical SPI that is active, and so cannot arrive again, is held by exactly
\* one vCPU; and a held one is active.  (As long as nothing is dropped or doubled.)
SpiHeldOnce ==
  lapsed \cup twice = {} =>
    \A p \in Spi :
      Cardinality({v \in VCPU : \E x \in Held(v) : x.irq = p /\ x.hw})
        = IF p \in physAct THEN 1 ELSE 0

\* The promises to the faithful vCPUs.
ID == INSTANCE InterruptDelivery WITH
        served   <- Faithful,
        pending  <- [v \in VCPU |-> IF v \in Faithful THEN Irqs(v, "pend") ELSE {}],
        handling <- [v \in VCPU |-> IF v \in Faithful THEN Irqs(v, "act") ELSE {}],
        stack    <- [v \in VCPU |-> IF v \in Faithful THEN stack[v] ELSE <<>>]
ImplementsDelivery == ID!IDSpec

\* What set_lr means by "# irq active and pending": an SGI for a vCPU that is
\* handling the same SGI is pending for it from then on.
ActiveAndPending ==
  [][\A i \in Sgi : \A T \in SUBSET VCPU :
       SendSgi(i, T) => \A v \in T : i \in en[v] /\ i \in Irqs(v, "act")
                                    => i \in Irqs(v, "pend")']_vars
=============================================================================
