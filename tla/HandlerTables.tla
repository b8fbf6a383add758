--------------------------- MODULE HandlerTables ----------------------------
(***************************************************************************)
(* The three tables the hypervisor looks its handlers up in, each a        *)
(* red-black tree on one pool of nodes: the interrupt handlers             *)
(* (irq_handler.c), the emulated devices (virtual_device_handle.c) and the *)
(* permissions to send an interrupt (vint_sender.c).  The tables are       *)
(* filled at boot, in the order user_init chooses; then guests trap: they  *)
(* are interrupted, they send interrupts, and they load from and store to  *)
(* emulated devices, through the banked registers of hyp_call.c.           *)
(***************************************************************************)
EXTENDS RbTree, FiniteSets

CONSTANTS
  Irq,        \* interrupts user_init may register a handler for
  Sender,     \* the ids a permission may be given to
  Target,     \* the <<receiver, interrupt>> pairs user_init may permit
  AddrRange,  \* the [start, end] ranges of devices; they are disjoint
  Addr,       \* addresses guests touch
  Mode, Reg,  \* processor modes of a guest, and registers
  KeyShift,   \* 2^16: a permission's key is receiver << 16 | interrupt
  PoolSize,   \* RBTREE_NODE_POOL_NUM
  MaxTraps    \* bound: the accesses to devices

ASSUME TablesAssumption ==
  /\ Irq \subseteq Nat /\ Sender \subseteq Nat /\ Addr \subseteq Nat /\ KeyShift \in Nat
  /\ AddrRange \subseteq [start : Nat, end : Nat]
  /\ \A t \in Target : t[1] \in Nat /\ t[2] \in 0 .. KeyShift - 1
  /\ \A r \in AddrRange : r.start < r.end
  /\ \A r, s \in AddrRange : r = s \/ r.end <= s.start \/ s.end <= r.start
  /\ Mode \subseteq {"usr", "fiq", "irq", "svc", "abt", "und", "sys"}
  /\ Reg \subseteq 0 .. 15

VARIABLES
  pc,         \* "boot" or "guest"
  pool, head, \* the nodes, and the head of each tree
  regs,       \* the registers of a guest, by the place that holds them
  elr,        \* elr_hyp
  arch,       \* history: the registers as the architecture has them
  last,       \* history: the last thing a lookup led to
  traps,      \* counts accesses
  log         \* history: the registrations, in order

tables == <<pool, head>>
guest  == <<regs, elr, arch>>
vars   == <<pc, tables, guest, last, traps, log>>

Table == {"irq", "dev", "vint"}

\* A handler is the index in log of its registration.  irq_handler_init makes
\* the first four: of the hypervisor timer, the maintenance interrupt and the
\* two timers of guests.
Own == <<26, 25, 30, 27>>
Aborted == -1

\* Values of registers: the initial one, what an undefined write leaves, the
\* address after the trapped instruction; the others are data loaded.
Old == 0
Junk == -1
NextInst == 0

-----------------------------------------------------------------------------
\* Faulty variants, used by no action.

EndIncluded(a, b) ==
  IF a.start <= b.start /\ b.end <= a.end THEN 0 ELSE IF b.start >= a.end THEN 1 ELSE -1
DropsOld(s, key, sid) == {sid}
LinkShared(m, r) ==
  CASE r = 14 -> <<"sp", 13>>
    [] r = 13 -> <<m, 13>>
    [] OTHER -> IF m = "fiq" /\ r > 7 THEN <<m, r>> ELSE <<"sp", r>>

-----------------------------------------------------------------------------
\* The comparators; a positive result sends the search to the right.

handler_comp(a, b) == b - a

\* a is the range of a node.
addr_comp(a, b) ==
  IF \/ a.start <= b.start /\ b.end < a.end
     \/ b.start <= a.start /\ a.end < b.end THEN 0
  ELSE IF b.start >= a.end THEN 1
  ELSE IF a.start >= b.end THEN -1
  ELSE 0                  \* overlapping ranges: tv_abort

Compare(t, a, b) == IF t = "dev" THEN addr_comp(a, b) ELSE handler_comp(a, b)

Comp(s, t, key) ==
  [n \in ToSet(InOrder(s.pool, s.head[t])) |-> Compare(t, s.pool[n].key, key)]

Insert(s, t, key, val) ==
  LET r == rbtree_insert(s.pool, s.head[t], key, val, Comp(s, t, key))
  IN  [pool |-> r.pool, head |-> [s.head EXCEPT ![t] = r.head]]

Search(s, t, key) == rbtree_search(s.pool, s.head[t], Comp(s, t, key))

Now == [pool |-> pool, head |-> head]

-----------------------------------------------------------------------------
\* The banked registers.  The saved block sp[] holds r0 to r12 and, in sp[13],
\* the link register of the user and system modes.

Place(m, r) ==
  CASE r <= 7 -> <<"sp", r>>
    [] r \in 8 .. 12 -> IF m = "fiq" THEN <<"fiq", r>> ELSE <<"sp", r>>
    [] r = 14 -> IF m \in {"usr", "sys"} THEN <<"sp", 13>> ELSE <<m, 14>>
    [] r = 13 -> IF m = "sys" THEN <<"usr", 13>> ELSE <<m, 13>>

\* The architecture: which register a mode names.
Bank(m, r) ==
  CASE r \in 13 .. 14 -> <<IF m = "sys" THEN "usr" ELSE m, r>>
    [] r \in 8 .. 12 /\ m = "fiq" -> <<m, r>>
    [] OTHER -> <<"usr", r>>

\* The write of r8 to r12 in FIQ mode declares its operand an output: what the
\* register gets is undefined.
Defined(m, r) == ~(m = "fiq" /\ r \in 8 .. 12)

hyp_reg_write(m, r, v) ==
  IF r = 15 THEN elr' = v /\ UNCHANGED <<regs, arch>>
  ELSE /\ \E x \in IF Defined(m, r) THEN {v} ELSE {v, Junk} :
            regs' = [regs EXCEPT ![Place(m, r)] = x]
       /\ arch' = [arch EXCEPT ![Bank(m, r)] = v]
       /\ elr' = NextInst

hyp_reg_read(m, r) == IF r = 15 THEN NextInst ELSE regs[Place(m, r)]

-----------------------------------------------------------------------------
\* Boot.

Init ==
  LET irqs[i \in 0 .. 4] == IF i = 0 THEN [pool |-> << >>, head |-> [t \in Table |-> Nil]]
                            ELSE Insert(irqs[i-1], "irq", Own[i], i)
  IN  /\ pc = "boot"
      /\ pool = irqs[4].pool /\ head = irqs[4].head
      /\ regs = [p \in {Place(m, r) : m \in Mode, r \in Reg \ {15}} |-> Old]
      /\ arch = [b \in {Bank(m, r) : m \in Mode, r \in Reg \ {15}} |-> Old]
      /\ elr = NextInst /\ last = << >> /\ traps = 0
      /\ log = [i \in 1 .. 4 |-> <<"irq", Own[i]>>]

Registered(s) ==
  /\ pc = "boot" /\ Len(pool) < PoolSize
  /\ pool' = s.pool /\ head' = s.head
  /\ UNCHANGED <<pc, guest, last, traps>>

irq_handler_register(irq) ==
  /\ Registered(Insert(Now, "irq", irq, Len(log) + 1))
  /\ log' = Append(log, <<"irq", irq>>)

virtual_device_handle_register(r) ==
  /\ \A i \in DOMAIN log : log[i] # <<"dev", r>>
  /\ Registered(Insert(Now, "dev", r, Len(log) + 1))
  /\ log' = Append(log, <<"dev", r>>)

Key(rid, irq) == rid * KeyShift + irq

\* The mask of the node that is found is extended, into a node of its own.
Mask(s, key, sid) ==
  LET n == Search(s, "vint", key)
  IN  IF n = Nil THEN {sid} ELSE s.pool[n].val \cup {sid}

vint_sender_add_permission(sid, rid, irq) ==
  LET key == Key(rid, irq) IN
  /\ Registered(Insert(Now, "vint", key, Mask(Now, key, sid)))
  /\ log' = Append(log, <<"vint", key, sid, rid, irq>>)

Start ==
  /\ pc = "boot" /\ pc' = "guest"
  /\ UNCHANGED <<tables, guest, last, traps, log>>

-----------------------------------------------------------------------------
\* Traps.  A lookup that finds nothing is a tv_abort.

irq_handler(irq) ==
  LET n == Search(Now, "irq", irq) IN
  /\ pc = "guest"
  /\ last' = <<"irq", irq, IF n = Nil THEN Aborted ELSE pool[n].val>>
  /\ UNCHANGED <<pc, tables, guest, traps, log>>

vint_sender_interface(sid, rid, irq) ==
  LET n == Search(Now, "vint", Key(rid, irq)) IN
  /\ pc = "guest"
  /\ last' = <<"send", <<sid, rid, irq>>,
               IF n = Nil THEN "abort"
               ELSE IF sid \in pool[n].val THEN "sent" ELSE "nothing">>
  /\ UNCHANGED <<pc, tables, guest, traps, log>>

\* What a device does with an access, as the distributor's virtual_gic_handle:
\* a store reads the guest's register, a load writes it.
Device(h, m, r, a, wnr) ==
  IF wnr
  THEN /\ last' = <<"store", a, h, m, r, hyp_reg_read(m, r)>>
       /\ elr' = NextInst /\ UNCHANGED <<regs, arch>>
  ELSE /\ last' = <<"load", a, h, m, r>>
       /\ hyp_reg_write(m, r, traps')

virtual_device_handle(m, r, a, wnr) ==
  LET n == Search(Now, "dev", [start |-> a, end |-> a])
  IN  IF n = Nil THEN last' = <<"dev", a, Aborted>> /\ elr' = NextInst /\ UNCHANGED <<regs, arch>>
      ELSE Device(pool[n].val, m, r, a, wnr)

\* A data abort with a valid syndrome, which no access that writes its address
\* back has.  The next instruction is chosen before the device is looked up.
DataAbort(m, r, a, wnr) ==
  /\ pc = "guest" /\ traps < MaxTraps
  /\ traps' = traps + 1
  /\ virtual_device_handle(m, r, a, wnr)
  /\ UNCHANGED <<pc, tables, log>>

Next ==
  \/ \E i \in Irq : irq_handler_register(i)
  \/ \E r \in AddrRange : virtual_device_handle_register(r)
  \/ \E s \in Sender, t \in Target : vint_sender_add_permission(s, t[1], t[2])
  \/ Start
  \/ \E i \in Irq \cup ToSet(Own) : irq_handler(i)
  \/ \E s \in Sender, t \in Target : vint_sender_interface(s, t[1], t[2])
  \/ \E m \in Mode, r \in Reg, a \in Addr, wnr \in BOOLEAN : DataAbort(m, r, a, wnr)

Spec == Init /\ [][Next]_vars

-----------------------------------------------------------------------------
\* Whatever user_init registers, in whatever order and however often: each table
\* is a red-black tree, in the order of its comparator, of its own nodes, and
\* together they hold every node.
TreesExact ==
  /\ \A t \in Table : /\ IsRedBlack(pool, head[t])
                      /\ IsOrdered(pool, head[t], LAMBDA a, b : Compare(t, a, b))
  /\ \A n \in DOMAIN pool :
       Cardinality({t \in Table : n \in ToSet(InOrder(pool, head[t]))}) = 1

\* An interrupt or an access reaches a handler that was registered for that very
\* interrupt, by the hypervisor or by user_init, or for the range that holds the
\* address, wherever rotations have moved it; and it is refused only if there is
\* none.
FindsRegistered ==
  /\ last # << >> /\ last[1] = "irq" =>
       IF last[3] = Aborted THEN \A k \in DOMAIN log : log[k] # <<"irq", last[2]>>
       ELSE log[last[3]] = <<"irq", last[2]>>
  /\ last # << >> /\ last[1] \in {"dev", "load", "store"} =>
       LET hit(k) == log[k][1] = "dev" /\ last[2] \in log[k][2].start .. log[k][2].end - 1
       IN  IF last[3] = Aborted THEN \A k \in DOMAIN log : ~hit(k) ELSE hit(last[3])

\* An interrupt is sent only by a sender that was permitted to send that very
\* interrupt to that receiver; and the first sender permitted always is, however
\* many permissions follow.
SendsArePermitted ==
  last # << >> /\ last[1] = "send" =>
    LET grants == {k \in DOMAIN log :
                     log[k][1] = "vint" /\ SubSeq(log[k], 4, 5) = SubSeq(last[2], 2, 3)}
        mine   == {k \in grants : log[k][3] = last[2][1]}
    IN  /\ last[3] = "sent" => mine # {}
        /\ last[3] = "abort" <=> grants = {}
        /\ \A k \in mine : (\A j \in grants : k <= j) => last[3] = "sent"

\* Whatever modes a guest loads and stores from, each register holds what was
\* last loaded into it, and no load changes another: as the architecture banks
\* them.  Except r8 to r12 of FIQ mode, see Defined.
RegistersExact ==
  /\ \A m \in Mode, r \in Reg \ {15} :
       regs[Place(m, r)] = arch[Bank(m, r)] \/ ~Defined(m, r)
  /\ last # << >> /\ last[1] = "load" /\ last[5] = 15 => elr # NextInst
=============================================================================
