-------------------------- MODULE VirtualGic_proof --------------------------
(***************************************************************************)
(* The virtual GIC neither loses nor doubles an interrupt of its faithful  *)
(* vCPUs, for any number of vCPUs, list registers and interrupts, and any  *)
(* priorities: the invariants of VirtualGic and its refinement of          *)
(* InterruptDelivery.                                                      *)
(***************************************************************************)
EXTENDS VirtualGic, ListLemmas

-----------------------------------------------------------------------------
\* The inductive invariant.

\* List registers lr and store m describe different interrupts.
Distinct(lr, m) ==
  /\ \A i, j \in LR : lr[i] # Blank /\ lr[j] # Blank /\ lr[i].irq = lr[j].irq => i = j
  /\ \A i \in LR : \A y \in m : lr[i] # Blank => lr[i].irq # y.irq
  /\ \A y, z \in m : y.irq = z.irq => y = z

Contents(lr, m) == {x \in {lr[i] : i \in LR} : x.st # "none"} \cup m

OnceEach == \A v \in Faithful : Distinct(View(v).lr, mem[v])

\* saved_elsr0 is right about the registers it calls empty; and about the others,
\* once a copy has been saved with an active interrupt.
MarkedBy(c) ==
  /\ \A i \in c.empty : c.lr[i] = Blank
  /\ c.apr # {} => \A i \in LR \ c.empty : c.lr[i] # Blank
CopiesMarked == \A v \in VCPU : MarkedBy(saved[v])

\* The last vCPU, and why the idle loop runs.
IdleFor ==
  /\ exec # NULL => last = exec
  /\ pc = "idle" => last \in asleep \cup off
  /\ pc = "idle" /\ last \notin off => Awake = {}

StrayStored == \A v \in stray : mem[v] # {}

HoldsHw(v, p) == \E x \in Held(v) : x.irq = p /\ x.hw

SpiOwned ==
  Faithful = VCPU =>
    \A p \in Spi :
      /\ p \in physAct => \E v \in VCPU : HoldsHw(v, p)
      /\ \A v \in VCPU : HoldsHw(v, p) => p \in physAct
      /\ \A u, v \in VCPU : HoldsHw(u, p) /\ HoldsHw(v, p) => u = v

IInv ==
  /\ TypeOK
  /\ CopiesMarked
  /\ OnceEach
  /\ UnderflowArmed
  /\ IdleFor
  /\ StrayStored
  /\ NoIdleMaintenance
  /\ SpiOwned

-----------------------------------------------------------------------------
\* The scan of the list registers.

\* f is the sequence of the loop's states over n list registers, from s0.
IsScan(empty, s0, n, f) ==
  f = [i \in 0 .. n |-> IF i = 0 THEN s0 ELSE ScanStep(empty, f[i-1], i)]

LEMMA ScanExists ==
  ASSUME NEW empty, NEW s0, NEW n \in Nat
  PROVE  \E f : IsScan(empty, s0, n, f)
<1> DEFINE Good == {k \in Nat : \E f : IsScan(empty, s0, k, f)}
<1>1. 0 \in Good
  <2>1. IsScan(empty, s0, 0, [i \in 0 .. 0 |-> s0])
    BY DEF IsScan
  <2> QED  BY <2>1
<1>2. ASSUME NEW k \in Nat, k \in Good PROVE k + 1 \in Good
  <2>1. PICK g : IsScan(empty, s0, k, g)
    BY <1>2
  <2> DEFINE h == [i \in 0 .. k + 1 |->
                     IF i = k + 1 THEN ScanStep(empty, g[k], k + 1) ELSE g[i]]
  <2>2. \A i \in 0 .. k + 1 : h[i] = IF i = 0 THEN s0 ELSE ScanStep(empty, h[i-1], i)
    BY <2>1 DEF IsScan
  <2>3. IsScan(empty, s0, k + 1, h)
    BY <2>2 DEF IsScan
  <2> HIDE DEF h
  <2> QED  BY <2>3
<1> HIDE DEF Good
<1>3. n \in Good
  BY <1>1, <1>2, Induction
<1> QED  BY <1>3 DEF Good

LEMMA ScanRuns ==
  ASSUME NEW c, NEW x
  PROVE  \E s : /\ s[0] = [lr |-> c.lr, x |-> x, done |-> FALSE]
                /\ \A i \in 1 .. LRNum : s[i] = ScanStep(c.empty, s[i-1], i)
                /\ Scan(c, x) = s[LRNum]
<1> DEFINE s0 == [lr |-> c.lr, x |-> x, done |-> FALSE]
           s  == CHOOSE f : IsScan(c.empty, s0, LRNum, f)
<1>1. LRNum \in Nat
  BY GicAssumption
<1>2. Scan(c, x) = s[LRNum]
  BY DEF Scan, IsScan
<1>3. IsScan(c.empty, s0, LRNum, s)
  BY <1>1, ScanExists
<1> HIDE DEF s
<1>4. \A i \in 0 .. LRNum : s[i] = IF i = 0 THEN s0 ELSE ScanStep(c.empty, s[i-1], i)
  BY <1>3 DEF IsScan
<1>5. 0 \in 0 .. LRNum /\ \A i \in 1 .. LRNum : i \in 0 .. LRNum /\ i # 0
  BY <1>1
<1> HIDE DEF s0
<1>6. s[0] = s0 /\ \A i \in 1 .. LRNum : s[i] = ScanStep(c.empty, s[i-1], i)
  BY <1>4, <1>5
<1> QED  BY <1>2, <1>6 DEF s0

\* What a list register can hold.
LEMMA Registers ==
  /\ LRNum \in Nat \ {0} /\ LR = 1 .. LRNum
  /\ Levels \subseteq Nat
  /\ \A r \in Reg : /\ r.pri \in Nat
                    /\ r \in Interrupt <=> r # Blank
                    /\ r.st # "none" <=> r # Blank
  /\ \A r \in Interrupt : r.pri \in Levels /\ r.irq \in IRQ /\ r \in Reg
  /\ Blank \in Reg /\ Blank.pri = 0
<1>1. LRNum \in Nat \ {0} /\ LR = 1 .. LRNum
  BY GicAssumption DEF LR
<1>2. Levels \subseteq Nat
  BY GicAssumption DEF Levels
<1>3. \A r \in Interrupt : /\ r.pri \in Levels /\ r.irq \in IRQ
                           /\ r.st \in {"pend", "act"}
  BY DEF Interrupt
<1>4. Blank.st = "none" /\ Blank.pri = 0
  BY DEF Blank
<1>5. ASSUME NEW r \in Reg
      PROVE  /\ r.pri \in Nat
             /\ r \in Interrupt <=> r # Blank
             /\ r.st # "none" <=> r # Blank
  <2>1. CASE r \in Interrupt
    BY <1>2, <1>3, <1>4, <2>1
  <2>2. CASE r = Blank
    <3>1. r \notin Interrupt
      BY <1>3, <1>4, <2>2
    <3> QED  BY <1>4, <2>2, <3>1
  <2> QED  BY <2>1, <2>2 DEF Reg
<1> QED  BY <1>1, <1>2, <1>3, <1>4, <1>5 DEF Reg

LEMMA InContents ==
  ASSUME NEW lr \in [LR -> Reg], NEW m \in SUBSET Interrupt, NEW y
  PROVE  y \in Contents(lr, m)
           <=> y \in m \/ (y \in Interrupt /\ \E i \in LR : lr[i] = y)
BY Registers DEF Contents

LEMMA SameContents ==
  ASSUME NEW lr \in [LR -> Reg], NEW m \in SUBSET Interrupt,
         NEW lr1 \in [LR -> Reg], NEW m1 \in SUBSET Interrupt,
         \A y \in Interrupt : y \in m \/ (\E i \in LR : lr[i] = y)
                                <=> y \in m1 \/ (\E i \in LR : lr1[i] = y)
  PROVE  Contents(lr, m) = Contents(lr1, m1)
<1>1. \A y : y \in Contents(lr, m) <=> y \in Contents(lr1, m1)
  BY InContents
<1> QED  BY <1>1

\* The loop after i registers: lr0 and the carried interrupt, differently spread.
ScanTyped(lr0, i, s) ==
  /\ s \in [lr : [LR -> Reg], x : Interrupt, done : BOOLEAN]
  /\ \A j \in LR : j > i => s.lr[j] = lr0[j]
  /\ \A j \in LR : s.lr[j] # lr0[j] => s.lr[j] # Blank

Scanning(m, C, s) ==
  /\ s.done => Distinct(s.lr, m) /\ Contents(s.lr, m) = C
  /\ ~s.done => /\ s.x \notin m
                /\ Distinct(s.lr, m \cup {s.x})
                /\ Contents(s.lr, m \cup {s.x}) = C

LEMMA StepTyped ==
  ASSUME NEW lr0 \in [LR -> Reg], NEW empty, NEW i \in LR, NEW s,
         ScanTyped(lr0, i - 1, s), \A j \in empty : lr0[j] = Blank
  PROVE  ScanTyped(lr0, i, ScanStep(empty, s, i))
<1> DEFINE t == ScanStep(empty, s, i)
<1>0. ScanTyped(lr0, i - 1, s) /\ \A j \in empty : lr0[j] = Blank
  OBVIOUS
<1>1. /\ s.lr \in [LR -> Reg] /\ s.x \in Interrupt /\ s.x \in Reg /\ s.done \in BOOLEAN
      /\ s \in [lr : [LR -> Reg], x : Interrupt, done : BOOLEAN]
      /\ i \in Nat
      /\ s.lr[i] = lr0[i]
  BY <1>0, Registers DEF ScanTyped
<1>2. t \in [lr : [LR -> Reg], x : Interrupt, done : BOOLEAN]
  <2>1. s.lr[i].pri > s.x.pri => s.lr[i] \in Interrupt
    BY <1>1, Registers
  <2>2. [s.lr EXCEPT ![i] = s.x] \in [LR -> Reg]
    BY <1>1
  <2> QED  BY <1>1, <2>1, <2>2 DEF ScanStep
<1>3. \A j \in LR : j > i => t.lr[j] = s.lr[j]
  BY <1>1, Registers DEF ScanStep
<1>4. \A j \in LR : j > i => j > i - 1
  BY Registers
<1>5. \A j \in LR : t.lr[j] = s.lr[j] \/ t.lr[j] = s.x
  BY <1>1 DEF ScanStep
<1>6. s.x # Blank /\ \A j \in LR : s.lr[j] # lr0[j] => s.lr[j] # Blank
  BY <1>0, <1>1, Registers DEF ScanTyped
<1>7. \A j \in LR : t.lr[j] # lr0[j] => t.lr[j] # Blank
  BY <1>5, <1>6
<1> QED  BY <1>0, <1>2, <1>3, <1>4, <1>7 DEF ScanTyped

LEMMA StepKeeps ==
  ASSUME NEW lr0 \in [LR -> Reg], NEW empty, NEW i \in LR, NEW s,
         ScanTyped(lr0, i - 1, s), \A j \in empty : lr0[j] = Blank,
         NEW m \in SUBSET Interrupt, NEW C, Scanning(m, C, s)
  PROVE  Scanning(m, C, ScanStep(empty, s, i))
<1> DEFINE t == ScanStep(empty, s, i)
<1> SUFFICES Scanning(m, C, t)
  OBVIOUS
<1>0. /\ ScanTyped(lr0, i - 1, s) /\ \A j \in empty : lr0[j] = Blank
      /\ Scanning(m, C, s)
  OBVIOUS
<1>1. /\ s.lr \in [LR -> Reg] /\ s.x \in Interrupt /\ s.x \in Reg /\ s.x # Blank
      /\ s.done \in BOOLEAN /\ s.lr[i] = lr0[i]
  BY <1>0, Registers DEF ScanTyped
<1>2. CASE s.done
  BY <1>0, <1>2 DEF ScanStep
<1>3. CASE ~s.done /\ i \in empty
  <2> DEFINE lr == [s.lr EXCEPT ![i] = s.x]
  <2>1. t.lr = lr /\ t.done
    BY <1>3 DEF ScanStep
  <2>2. s.lr[i] = Blank
    BY <1>0, <1>1, <1>3
  <2>3. lr \in [LR -> Reg] /\ \A j \in LR : lr[j] = IF j = i THEN s.x ELSE s.lr[j]
    BY <1>1
  <2>4. Distinct(s.lr, m \cup {s.x}) /\ s.x \notin m
    BY <1>0, <1>3 DEF Scanning
  <2>5. Distinct(lr, m)
    BY <2>2, <2>3, <2>4 DEF Distinct
  <2>6. Contents(lr, m) = Contents(s.lr, m \cup {s.x})
    <3>1. \A y \in Interrupt : y \in m \/ (\E j \in LR : lr[j] = y)
            <=> y \in m \cup {s.x} \/ (\E j \in LR : s.lr[j] = y)
      BY <1>1, <2>2, <2>3, Registers
    <3> HIDE DEF lr
    <3> QED  BY <1>1, <2>3, <3>1, SameContents
  <2> HIDE DEF t, lr
  <2> QED  BY <1>0, <1>3, <2>1, <2>5, <2>6 DEF Scanning
<1>4. CASE ~s.done /\ i \notin empty /\ s.lr[i].pri > s.x.pri
  <2> DEFINE lr == [s.lr EXCEPT ![i] = s.x]
             x  == s.lr[i]
  <2>1. t.lr = lr /\ t.x = x /\ ~t.done
    BY <1>4 DEF ScanStep
  <2>2. x \in Interrupt /\ x # Blank
    BY <1>1, <1>4, Registers
  <2>3. lr \in [LR -> Reg] /\ \A j \in LR : lr[j] = IF j = i THEN s.x ELSE s.lr[j]
    BY <1>1
  <2>4. Distinct(s.lr, m \cup {s.x}) /\ s.x \notin m
    BY <1>0, <1>4 DEF Scanning
  <2>5. x \notin m
    BY <2>2, <2>4 DEF Distinct
  <2>6. Distinct(lr, m \cup {x})
    BY <1>1, <2>2, <2>3, <2>4 DEF Distinct
  <2>7. Contents(lr, m \cup {x}) = Contents(s.lr, m \cup {s.x})
    <3>1. \A y \in Interrupt : y \in m \cup {x} \/ (\E j \in LR : lr[j] = y)
            <=> y \in m \cup {s.x} \/ (\E j \in LR : s.lr[j] = y)
      BY <1>1, <2>2, <2>3
    <3> HIDE DEF lr, x
    <3> QED  BY <1>1, <2>2, <2>3, <3>1, SameContents
  <2> HIDE DEF t, lr, x
  <2> QED  BY <1>0, <1>4, <2>1, <2>4, <2>5, <2>6, <2>7 DEF Scanning
<1>5. CASE ~s.done /\ i \notin empty /\ ~(s.lr[i].pri > s.x.pri)
  BY <1>0, <1>5 DEF ScanStep
<1> QED  BY <1>1, <1>2, <1>3, <1>4, <1>5

\* What the loop leaves: the register values are moved, none is lost, and the
\* carried one is left over if no register was empty.
LEMMA ScanKeeps ==
  ASSUME NEW c, NEW x \in Interrupt,
         c.lr \in [LR -> Reg], \A j \in c.empty : c.lr[j] = Blank
  PROVE  /\ Scan(c, x).lr \in [LR -> Reg]
         /\ \A j \in LR : Scan(c, x).lr[j] # c.lr[j] => Scan(c, x).lr[j] # Blank
         /\ Scan(c, x).x \in Interrupt
         /\ Scan(c, x).done \in BOOLEAN
         /\ \A m \in SUBSET Interrupt :
              x \notin m /\ Distinct(c.lr, m \cup {x})
                => Scanning(m, Contents(c.lr, m \cup {x}), Scan(c, x))
<1>0. c.lr \in [LR -> Reg] /\ \A j \in c.empty : c.lr[j] = Blank
  OBVIOUS
<1> DEFINE s0 == [lr |-> c.lr, x |-> x, done |-> FALSE]
<1>1. PICK s : /\ s[0] = s0
               /\ \A i \in 1 .. LRNum : s[i] = ScanStep(c.empty, s[i-1], i)
               /\ Scan(c, x) = s[LRNum]
  BY ScanRuns
<1> DEFINE Ok(i) == /\ ScanTyped(c.lr, i, s[i])
                    /\ \A m \in SUBSET Interrupt : \A C :
                         Scanning(m, C, s0) => Scanning(m, C, s[i])
           Good  == {i \in Nat : i <= LRNum => Ok(i)}
<1>2. 0 \in Good
  <2>1. ScanTyped(c.lr, 0, s0)
    BY <1>0 DEF ScanTyped
  <2> HIDE DEF s0
  <2>2. Ok(0)
    BY <1>1, <2>1
  <2> QED  BY <2>2
<1>3. ASSUME NEW i \in Nat, i \in Good PROVE i + 1 \in Good
  <2>1. SUFFICES ASSUME i + 1 <= LRNum PROVE Ok(i + 1)
    <3> HIDE DEF Ok
    <3> QED  OBVIOUS
  <2>2. i + 1 \in LR /\ i + 1 - 1 = i /\ i <= LRNum
    BY <2>1, Registers
  <2>3. s[i + 1] = ScanStep(c.empty, s[i], i + 1)
    BY <1>1, <2>2, Registers
  <2>4. /\ ScanTyped(c.lr, i + 1 - 1, s[i])
        /\ \A m \in SUBSET Interrupt : \A C : Scanning(m, C, s0) => Scanning(m, C, s[i])
    BY <1>3, <2>2
  <2> HIDE DEF s0
  <2>5. ScanTyped(c.lr, i + 1, s[i + 1])
    BY <1>0, <2>2, <2>3, <2>4, StepTyped
  <2>6. ASSUME NEW m \in SUBSET Interrupt, NEW C, Scanning(m, C, s0)
        PROVE  Scanning(m, C, s[i + 1])
    BY <1>0, <2>2, <2>3, <2>4, <2>6, StepKeeps
  <2> QED  BY <2>5, <2>6
<1> HIDE DEF Good
<1>4. LRNum \in Nat
  BY Registers
<1>5. LRNum \in Good
  BY <1>2, <1>3, <1>4, Induction
<1>6. Ok(LRNum)
  <2> HIDE DEF Ok
  <2> QED  BY <1>4, <1>5 DEF Good
<1>7. ASSUME NEW m \in SUBSET Interrupt, x \notin m, Distinct(c.lr, m \cup {x})
      PROVE  Scanning(m, Contents(c.lr, m \cup {x}), s0)
  BY <1>7 DEF Scanning
<1> HIDE DEF s0
<1> QED  BY <1>1, <1>6, <1>7 DEF ScanTyped

-----------------------------------------------------------------------------
\* virtual_gic_set_lr.

LEMMA Minimum ==
  ASSUME NEW S \in SUBSET Nat, S # {}
  PROVE  Min(S) \in S /\ \A y \in S : Min(S) <= y
BY Least DEF Min

\* x is in none of the entries of lr and m.
Fresh(lr, m, x) == \A y \in Contents(lr, m) : y.irq # x.irq

\* If it is an SGI whose number is, then for the same source.
SameSource(lr, m, x) ==
  x.irq <= SGI_ID_MAX => \A y \in Contents(lr, m) : y.irq = x.irq => y.src = x.src

\* The view of a vCPU, as the invariant has it.
ViewOK(c) == c.lr \in [LR -> Reg] /\ MarkedBy(c)

\* For two interrupts of a vCPU, no number is in both its registers and its store.
LEMMA FreshDistinct ==
  ASSUME NEW lr \in [LR -> Reg], NEW m \in SUBSET Interrupt, NEW x \in Interrupt,
         Distinct(lr, m), Fresh(lr, m, x)
  PROVE  /\ x \notin m
         /\ Distinct(lr, m \cup {x})
         /\ Contents(lr, m \cup {x}) = Contents(lr, m) \cup {x}
<1>0. Distinct(lr, m) /\ Fresh(lr, m, x)
  OBVIOUS
<1>1. \A y \in m : y.irq # x.irq
  BY <1>0, InContents DEF Fresh
<1>2. \A i \in LR : lr[i] # Blank => lr[i].irq # x.irq
  BY <1>0, InContents, Registers DEF Fresh
<1>3. Distinct(lr, m \cup {x})
  BY <1>0, <1>1, <1>2 DEF Distinct
<1>4. Contents(lr, m \cup {x}) = Contents(lr, m) \cup {x}
  BY DEF Contents
<1> QED  BY <1>1, <1>3, <1>4

\* The ways it ends, for an interrupt x and the store m of vCPU v: it is refused,
\* it is in the registers, it has pushed one of them into the store, or it was
\* taken for active and pending and is in the store.
LEMMA SetLrCases ==
  ASSUME NEW v, NEW m, NEW x
  PROVE  LET c == View(v)
             s == Scan(c, x)
             r == SetLr(v, m, x)
             same == {i \in LR \ c.empty : SameInterrupt(c.lr[i], x)}
         IN  \/ r = Refused(v, m) /\ (InStore(m, x) \/ same # {})
             \/ ~InStore(m, x) /\ same = {} /\ s.done /\ r = Placed(s.lr, m)
             \/ ~InStore(m, x) /\ same = {} /\ ~s.done /\ r = Stored(s.lr, m, s.x, FALSE)
             \/ ~InStore(m, x) /\ same # {} /\ c.apr # {} /\ r = Stored(c.lr, m, x, TRUE)
<1> DEFINE c == View(v)
           same == {i \in LR \ c.empty : SameInterrupt(c.lr[i], x)}
<1>1. IsActive(c.apr, Min(same)) => c.apr # {}
  BY DEF IsActive
<1> QED  BY <1>1 DEF SetLr

\* A result for list registers lr and store m.
Result(lr, m, r) ==
  /\ r.lr \in [LR -> Reg] /\ r.mem \in SUBSET Interrupt
  /\ r.ok \in BOOLEAN /\ r.stored \in BOOLEAN /\ r.again \in BOOLEAN
  /\ r.stored => r.mem # {}
  /\ ~r.stored => r.mem = m
  /\ ~r.ok => r.lr = lr /\ r.mem = m
  /\ \A j \in LR : r.lr[j] # lr[j] => r.lr[j] # Blank

LEMMA SetLrTyped ==
  ASSUME NEW v, ViewOK(View(v)), NEW m \in SUBSET Interrupt, NEW x \in Interrupt
  PROVE  Result(View(v).lr, m, SetLr(v, m, x))
<1> DEFINE s == Scan(View(v), x)
           r == SetLr(v, m, x)
<1>1. View(v).lr \in [LR -> Reg] /\ \A j \in View(v).empty : View(v).lr[j] = Blank
  BY DEF ViewOK, MarkedBy
<1>2. /\ s.lr \in [LR -> Reg] /\ s.x \in Interrupt
      /\ \A j \in LR : s.lr[j] # View(v).lr[j] => s.lr[j] # Blank
  BY <1>1, ScanKeeps
<1>3. \/ r = Refused(v, m)
      \/ r = Placed(s.lr, m)
      \/ r = Stored(s.lr, m, s.x, FALSE)
      \/ r = Stored(View(v).lr, m, x, TRUE)
  BY SetLrCases
<1> HIDE DEF r, s
<1> SUFFICES Result(View(v).lr, m, r)
  BY DEF r
<1>4. CASE r = Refused(v, m)
  BY <1>1, <1>4 DEF Refused, Result
<1>5. CASE r = Placed(s.lr, m)
  BY <1>2, <1>5 DEF Placed, Result
<1>6. CASE r = Stored(s.lr, m, s.x, FALSE)
  BY <1>2, <1>6 DEF Stored, Result
<1>7. CASE r = Stored(View(v).lr, m, x, TRUE)
  BY <1>1, <1>7 DEF Stored, Result
<1> QED  BY <1>3, <1>4, <1>5, <1>6, <1>7

\* No interrupt is lost or doubled, and one that is refused changes nothing; or it
\* was taken for active and pending, and then it was there already.
LEMMA SetLrKeeps ==
  ASSUME NEW v, ViewOK(View(v)), NEW m \in SUBSET Interrupt, NEW x \in Interrupt,
         Distinct(View(v).lr, m), SameSource(View(v).lr, m, x)
  PROVE  LET r == SetLr(v, m, x)
         IN  /\ ~r.again =>
                  /\ Distinct(r.lr, r.mem)
                  /\ r.ok => /\ Fresh(View(v).lr, m, x)
                             /\ Contents(r.lr, r.mem) = Contents(View(v).lr, m) \cup {x}
             /\ r.again => \E y \in Contents(View(v).lr, m) : y.irq = x.irq
<1> DEFINE c == View(v)
           s == Scan(c, x)
           r == SetLr(v, m, x)
           same == {i \in LR \ c.empty : SameInterrupt(c.lr[i], x)}
<1>1. /\ c.lr \in [LR -> Reg] /\ \A j \in c.empty : c.lr[j] = Blank
      /\ Distinct(c.lr, m) /\ SameSource(c.lr, m, x)
  BY DEF ViewOK, MarkedBy
<1>2. CASE r = Refused(v, m)
  <2>1. r.lr = c.lr /\ r.mem = m /\ r.ok = FALSE /\ r.again = FALSE
    BY <1>2 DEF Refused
  <2> HIDE DEF c, r
  <2> QED  BY <1>1, <2>1 DEF c, r
<1>3. ASSUME ~InStore(m, x), same = {}
      PROVE  Fresh(c.lr, m, x) /\ Scanning(m, Contents(c.lr, m) \cup {x}, s)
  <2>1. \A y \in m : y.irq # x.irq
    BY <1>3 DEF InStore
  <2>2. ASSUME NEW i \in LR, c.lr[i] # Blank PROVE c.lr[i].irq # x.irq
    <3>1. i \notin c.empty /\ ~SameInterrupt(c.lr[i], x)
      <4>1. i \notin c.empty
        BY <1>1, <2>2
      <4> QED  BY <1>3, <2>2, <4>1
    <3>2. c.lr[i] \in Contents(c.lr, m)
      BY <1>1, <2>2, InContents, Registers
    <3> QED  BY <1>1, <3>1, <3>2 DEF SameInterrupt, SameSource
  <2>3. Fresh(c.lr, m, x)
    BY <1>1, <2>1, <2>2, InContents, Registers, SMTT(30) DEF Fresh
  <2>4. /\ x \notin m /\ Distinct(c.lr, m \cup {x})
        /\ Contents(c.lr, m \cup {x}) = Contents(c.lr, m) \cup {x}
    BY <1>1, <2>3, FreshDistinct
  <2> HIDE DEF c
  <2>5. Scanning(m, Contents(c.lr, m \cup {x}), s)
    BY <1>1, <2>4, ScanKeeps
  <2> QED  BY <2>3, <2>4, <2>5
<1>4. CASE ~InStore(m, x) /\ same = {} /\ s.done /\ r = Placed(s.lr, m)
  <2> HIDE DEF c, s, same, r
  <2>1. r.lr = s.lr /\ r.mem = m /\ Distinct(r.lr, r.mem) /\ r.again = FALSE
        /\ Contents(r.lr, r.mem) = Contents(c.lr, m) \cup {x}
    BY <1>3, <1>4 DEF Scanning, Placed
  <2> QED  BY <1>3, <1>4, <2>1 DEF c, r
<1>5. CASE ~InStore(m, x) /\ same = {} /\ ~s.done /\ r = Stored(s.lr, m, s.x, FALSE)
  <2>1. s.x \notin m /\ Distinct(s.lr, m \cup {s.x})
        /\ Contents(s.lr, m \cup {s.x}) = Contents(c.lr, m) \cup {x}
    BY <1>3, <1>5 DEF Scanning
  <2> HIDE DEF c, s, same, r
  <2>2. r.lr = s.lr /\ r.mem = {y \in m : y.irq # s.x.irq} \cup {s.x} /\ r.again = FALSE
    BY <1>5 DEF Stored
  <2>3. \A y \in m : y.irq # s.x.irq
    BY <2>1 DEF Distinct
  <2>4. r.mem = m \cup {s.x}
    BY <2>2, <2>3
  <2> QED  BY <1>3, <1>5, <2>1, <2>2, <2>4 DEF c, r
<1>6. CASE same # {} /\ c.apr # {} /\ r = Stored(c.lr, m, x, TRUE)
  <2>1. PICK i \in LR \ c.empty : SameInterrupt(c.lr[i], x)
    BY <1>6
  <2>2. c.lr[i] # Blank
    BY <1>6, <2>1 DEF ViewOK, MarkedBy
  <2>3. c.lr[i] \in Contents(c.lr, m) /\ c.lr[i].irq = x.irq
    BY <1>1, <2>1, <2>2, InContents, Registers DEF SameInterrupt
  <2> HIDE DEF c, s, same, r
  <2>4. r.again
    BY <1>6 DEF Stored
  <2> QED  BY <2>3, <2>4 DEF c, r
<1> QED  BY <1>2, <1>4, <1>5, <1>6, SetLrCases

\* An interrupt that is nowhere is accepted by a vCPU that has run.
LEMMA SetLrAccepts ==
  ASSUME NEW v, ViewOK(View(v)), NEW m \in SUBSET Interrupt, NEW x \in Interrupt,
         Fresh(View(v).lr, m, x), \A i \in LR \ View(v).empty : View(v).lr[i] # Blank
  PROVE  SetLr(v, m, x).ok
<1> DEFINE c == View(v)
           same == {i \in LR \ c.empty : SameInterrupt(c.lr[i], x)}
<1>1. /\ c.lr \in [LR -> Reg] /\ Fresh(c.lr, m, x)
      /\ \A i \in LR \ c.empty : c.lr[i] # Blank
  BY DEF ViewOK
<1>2. ~InStore(m, x)
  BY <1>1, InContents DEF InStore, Fresh
<1>3. \A i \in LR \ c.empty : c.lr[i].irq # x.irq
  BY <1>1, InContents, Registers DEF Fresh
<1>4. same = {}
  BY <1>3 DEF SameInterrupt
<1> QED  BY <1>2, <1>4, SetLrCases DEF Stored, Placed

-----------------------------------------------------------------------------
\* What every vCPU has, and what writes to several of them do.

LEMMA Numbers ==
  /\ VCPU \subseteq Nat /\ 0 \in VCPU /\ NULL \notin VCPU /\ IsFiniteSet(VCPU)
  /\ Target \in [Spi -> SUBSET VCPU]
  /\ Sgi \cap (Ppi \cup Spi) = {} /\ Ppi \cap Spi = {}
  /\ Written \subseteq Ppi \cup Spi /\ IRQ = Sgi \cup Ppi \cup Spi
  /\ \A i \in Ppi \cup Spi : i \in Nat /\ ~(i <= SGI_ID_MAX)
<1>1. Cardinality(VCPU) \in Nat
  BY GicAssumption, FS_CardinalityType
<1> QED  BY <1>1, GicAssumption DEF IRQ

LEMMA ViewsOK ==
  ASSUME TypeOK, CopiesMarked, NEW v \in VCPU
  PROVE  ViewOK(View(v)) /\ mem[v] \in SUBSET Interrupt
<1>1. /\ hw.lr \in [LR -> Reg]
      /\ saved[v].lr \in [LR -> Reg]
      /\ mem[v] \in SUBSET Interrupt
  BY DEF TypeOK
<1>2. \A j \in LR : j \in Empty(hw.lr) <=> hw.lr[j] = Blank
  BY <1>1, Registers DEF Empty
<1>3. MarkedBy(saved[v]) /\ Empty(hw.lr) \subseteq LR
  BY DEF CopiesMarked, Empty
<1>4. CASE v = exec
  BY <1>1, <1>2, <1>3, <1>4 DEF ViewOK, View, MarkedBy
<1>5. CASE v # exec
  BY <1>1, <1>3, <1>5 DEF ViewOK, View, MarkedBy
<1> QED  BY <1>1, <1>4, <1>5

LEMMA HeldIs == \A v : Held(v) = Contents(View(v).lr, mem[v])
BY DEF Held, Contents

\* What the results of injections into the vCPUs of T satisfy.
Results(T, r) ==
  \A v \in T : /\ r[v].lr \in [LR -> Reg] /\ r[v].mem \in SUBSET Interrupt
               /\ r[v].stored \in BOOLEAN
               /\ r[v].stored => r[v].mem # {}
               /\ ~r[v].stored => r[v].mem \subseteq mem[v]
               /\ \A j \in LR : r[v].lr[j] # View(v).lr[j] => r[v].lr[j] # Blank

LEMMA CommitWrites ==
  ASSUME TypeOK, NEW T \in SUBSET VCPU, NEW r, Results(T, r), Commit(T, r),
         exec' = exec
  PROVE  /\ \A v \in VCPU :
              /\ View(v)'.lr = IF v \in T THEN r[v].lr ELSE View(v).lr
              /\ mem'[v] = IF v \in T THEN r[v].mem ELSE mem[v]
              /\ saved'[v].np = saved[v].np
         /\ hw'.np = (hw.np \/ \E v \in T : r[v].stored)
         /\ hw'.eoi = hw.eoi
         /\ exec = NULL => hw'.lr = hw.lr
         /\ \A v \in stray' : mem'[v] # {}
         /\ \A v \in stray : mem'[v] # {} => v \in stray'
         /\ \A v \in T \ {exec} : r[v].stored => v \in stray'
<1>1. /\ hw' = [hw EXCEPT !.lr = IF exec \in T THEN r[exec].lr ELSE hw.lr,
                          !.np = hw.np \/ {v \in T : r[v].stored} # {}]
      /\ saved' = [v \in VCPU |-> IF v \in T \ {exec} THEN WriteLr(saved[v], r[v].lr)
                                  ELSE saved[v]]
      /\ mem' = [v \in VCPU |-> IF v \in T THEN r[v].mem ELSE mem[v]]
      /\ stray' = {v \in stray : mem'[v] # {}} \cup ({v \in T : r[v].stored} \ {exec})
  BY DEF Commit
<1>2. /\ hw'.lr = IF exec \in T THEN r[exec].lr ELSE hw.lr
      /\ hw'.np = (hw.np \/ {v \in T : r[v].stored} # {})
      /\ hw'.eoi = hw.eoi
  BY <1>1 DEF TypeOK
<1>3. \A v \in VCPU : WriteLr(saved[v], r[v].lr).lr = r[v].lr
                      /\ WriteLr(saved[v], r[v].lr).np = saved[v].np
  BY DEF WriteLr, TypeOK
<1>4. \A v \in VCPU : View(v)'.lr = IF v = exec THEN hw'.lr ELSE saved'[v].lr
  BY DEF View
<1>5. \A v \in VCPU : View(v).lr = IF v = exec THEN hw.lr ELSE saved[v].lr
  BY DEF View
<1>6. \A v \in VCPU :
        /\ View(v)'.lr = IF v \in T THEN r[v].lr ELSE View(v).lr
        /\ mem'[v] = IF v \in T THEN r[v].mem ELSE mem[v]
        /\ saved'[v].np = saved[v].np
  BY <1>1, <1>2, <1>3, <1>4, <1>5
<1>7. exec = NULL => hw'.lr = hw.lr
  BY <1>2, Numbers
<1>8. \A v \in T : r[v].stored => mem'[v] # {}
  BY <1>6 DEF Results
<1>9. hw'.np = (hw.np \/ \E v \in T : r[v].stored)
  <2>1. {v \in T : r[v].stored} # {} <=> \E v \in T : r[v].stored
    OBVIOUS
  <2> QED  BY <1>2, <2>1
<1>10. /\ \A v \in stray' : mem'[v] # {}
       /\ \A v \in stray : mem'[v] # {} => v \in stray'
       /\ \A v \in T \ {exec} : r[v].stored => v \in stray'
  <2>1. stray' = {v \in stray : mem'[v] # {}} \cup ({v \in T : r[v].stored} \ {exec})
    BY <1>1
  <2> QED  BY <1>8, <2>1
<1> QED  BY <1>2, <1>6, <1>7, <1>9, <1>10

LEMMA CommitTyped ==
  ASSUME TypeOK, NEW T \in SUBSET VCPU, NEW r, Results(T, r), Commit(T, r)
  PROVE  /\ hw' \in [lr : [LR -> Reg], apr : SUBSET Levels, np : BOOLEAN, eoi : BOOLEAN]
         /\ saved' \in [VCPU -> [lr : [LR -> Reg], empty : SUBSET LR, apr : SUBSET Levels,
                                 np : BOOLEAN, eoi : BOOLEAN]]
         /\ mem' \in [VCPU -> SUBSET Interrupt]
         /\ stray' \subseteq VCPU /\ twice' \subseteq VCPU
<1>1. /\ hw \in [lr : [LR -> Reg], apr : SUBSET Levels, np : BOOLEAN, eoi : BOOLEAN]
      /\ saved \in [VCPU -> [lr : [LR -> Reg], empty : SUBSET LR, apr : SUBSET Levels,
                             np : BOOLEAN, eoi : BOOLEAN]]
      /\ mem \in [VCPU -> SUBSET Interrupt]
      /\ stray \subseteq VCPU /\ twice \subseteq VCPU
  BY DEF TypeOK
<1>2. \A v \in T : r[v].lr \in [LR -> Reg] /\ r[v].mem \in SUBSET Interrupt
  BY DEF Results
<1>3. hw' \in [lr : [LR -> Reg], apr : SUBSET Levels, np : BOOLEAN, eoi : BOOLEAN]
  <2>1. hw' = [hw EXCEPT !.lr = IF exec \in T THEN r[exec].lr ELSE hw.lr,
                         !.np = hw.np \/ {v \in T : r[v].stored} # {}]
    BY DEF Commit
  <2>2. (IF exec \in T THEN r[exec].lr ELSE hw.lr) \in [LR -> Reg]
    BY <1>1, <1>2
  <2>3. (hw.np \/ {v \in T : r[v].stored} # {}) \in BOOLEAN
    OBVIOUS
  <2> QED  BY <1>1, <2>1, <2>2, <2>3
<1>4. ASSUME NEW v \in T
      PROVE  WriteLr(saved[v], r[v].lr)
               \in [lr : [LR -> Reg], empty : SUBSET LR, apr : SUBSET Levels,
                    np : BOOLEAN, eoi : BOOLEAN]
  <2> DEFINE e == saved[v].empty \ {i \in LR : r[v].lr[i] # saved[v].lr[i]}
  <2>1. WriteLr(saved[v], r[v].lr) = [saved[v] EXCEPT !.lr = r[v].lr, !.empty = e]
    BY DEF WriteLr
  <2>2. /\ saved[v] \in [lr : [LR -> Reg], empty : SUBSET LR, apr : SUBSET Levels,
                         np : BOOLEAN, eoi : BOOLEAN]
        /\ r[v].lr \in [LR -> Reg]
    BY <1>1, <1>2
  <2>3. e \in SUBSET LR
    BY <2>2
  <2> HIDE DEF e
  <2> QED  BY <2>1, <2>2, <2>3
<1> QED  BY <1>1, <1>2, <1>3, <1>4 DEF Commit

\* A register that is written is no longer called empty.
LEMMA CommitMarks ==
  ASSUME TypeOK, CopiesMarked, NEW T \in SUBSET VCPU, NEW r, Results(T, r), Commit(T, r)
  PROVE  CopiesMarked'
<1> SUFFICES ASSUME NEW v \in VCPU PROVE MarkedBy(saved'[v])
  BY DEF CopiesMarked, MarkedBy
<1>1. saved'[v] = IF v \in T \ {exec} THEN WriteLr(saved[v], r[v].lr) ELSE saved[v]
  BY DEF Commit
<1>2. /\ \A j \in saved[v].empty : j \in LR /\ saved[v].lr[j] = Blank
      /\ saved[v].apr # {} => \A j \in LR \ saved[v].empty : saved[v].lr[j] # Blank
  BY DEF CopiesMarked, MarkedBy, TypeOK
<1>3. CASE v \in T \ {exec}
  <2>1. /\ saved'[v].lr = r[v].lr /\ saved'[v].apr = saved[v].apr
        /\ saved'[v].empty = saved[v].empty \ {j \in LR : r[v].lr[j] # saved[v].lr[j]}
    BY <1>1, <1>3 DEF WriteLr, TypeOK
  <2>2. \A j \in LR : r[v].lr[j] # saved[v].lr[j] => r[v].lr[j] # Blank
    BY <1>3 DEF Results, View
  <2> QED  BY <1>2, <2>1, <2>2 DEF MarkedBy
<1>4. CASE v \notin T \ {exec}
  BY <1>1, <1>2, <1>4 DEF MarkedBy
<1> QED  BY <1>3, <1>4

\* What is stored enables the underflow interrupt, or is remembered as stray.
LEMMA CommitArms ==
  ASSUME TypeOK, UnderflowArmed, NEW T \in SUBSET VCPU, NEW r, Results(T, r),
         Commit(T, r), exec' = exec, lapsed' = lapsed
  PROVE  UnderflowArmed' /\ StrayStored'
<1>1. \A v \in VCPU : /\ mem'[v] = IF v \in T THEN r[v].mem ELSE mem[v]
                      /\ saved'[v].np = saved[v].np
  BY CommitWrites
<1>2. hw'.np = (hw.np \/ \E v \in T : r[v].stored)
  BY CommitWrites
<1>3. /\ \A v \in stray' : mem'[v] # {}
      /\ \A v \in stray : mem'[v] # {} => v \in stray'
      /\ \A v \in T \ {exec} : r[v].stored => v \in stray'
  BY CommitWrites
<1>4. ASSUME NEW v \in VCPU, v \notin lapsed, v \notin stray', mem'[v] # {}
      PROVE  IF v = exec THEN hw'.np ELSE saved'[v].np
  <2>1. v \notin stray
    BY <1>3, <1>4
  <2>2. mem[v] # {} => IF v = exec THEN hw.np ELSE saved[v].np
    BY <1>4, <2>1 DEF UnderflowArmed
  <2>3. CASE v \in T /\ r[v].stored
    BY <1>2, <1>3, <1>4, <2>3
  <2>4. CASE ~(v \in T /\ r[v].stored)
    <3>1. mem[v] # {}
      BY <1>1, <1>4, <2>4 DEF Results
    <3> QED  BY <1>1, <1>2, <2>2, <3>1
  <2> QED  BY <2>3, <2>4
<1> QED  BY <1>3, <1>4 DEF UnderflowArmed, StrayStored

\* In the idle loop every vCPU that is not off is asleep, so that an injection
\* either wakes or is for one that is off.
LEMMA CommitIdle ==
  ASSUME IInv, NEW T \in SUBSET VCPU, NEW r, Results(T, r), Commit(T, r),
         NEW W \in SUBSET VCPU, T \subseteq W, Waking(W),
         \A v \in T : ~r[v].stored => r[v].mem = mem[v]
  PROVE  NoIdleMaintenance'
<1> SUFFICES ASSUME pc' = "idle", Vmi', last \notin off
             PROVE  stray' \cap off # {}
  BY DEF NoIdleMaintenance, Waking
<1>1. /\ exec' = exec /\ off' = off /\ last' = last
      /\ pc = "idle" /\ exec = NULL /\ W \cap asleep = {}
  BY DEF Waking, IInv, TypeOK
<1>2. T \subseteq off /\ Awake = {}
  BY <1>1 DEF IInv, IdleFor, Awake
<1>3. /\ \A v \in VCPU : mem'[v] = IF v \in T THEN r[v].mem ELSE mem[v]
      /\ hw'.np = (hw.np \/ \E v \in T : r[v].stored)
      /\ hw'.eoi = hw.eoi /\ hw'.lr = hw.lr
  <2>1. TypeOK /\ exec' = exec
    BY <1>1 DEF IInv
  <2> QED  BY <1>1, <2>1, CommitWrites, ZenonT(40)
<1>4. /\ \A v \in stray : mem'[v] # {} => v \in stray'
      /\ \A v \in T \ {exec} : r[v].stored => v \in stray'
  BY <1>1, CommitWrites DEF IInv
<1>5. CASE \E v \in T : r[v].stored
  BY <1>1, <1>2, <1>4, <1>5, Numbers
<1>6. CASE ~ \E v \in T : r[v].stored
  <2>1. hw'.np = hw.np
    BY <1>3, <1>6 DEF IInv, TypeOK
  <2>2. Vmi
    BY <1>3, <2>1 DEF Vmi, MisrNP, MisrLRENP
  <2>3. PICK v \in stray \cap off : TRUE
    BY <1>1, <2>2 DEF IInv, NoIdleMaintenance
  <2>4. mem'[v] = mem[v] /\ mem[v] # {}
    BY <1>3, <1>6, <2>3 DEF IInv, StrayStored, TypeOK
  <2> QED  BY <1>4, <2>3, <2>4
<1> QED  BY <1>5, <1>6

-----------------------------------------------------------------------------
\* What InterruptDelivery sees of a step.

Pending  == [v \in VCPU |-> IF v \in Faithful THEN Irqs(v, "pend") ELSE {}]
Handling == [v \in VCPU |-> IF v \in Faithful THEN Irqs(v, "act") ELSE {}]
Stack    == [v \in VCPU |-> IF v \in Faithful THEN stack[v] ELSE <<>>]
Delivery == [ID!IDNext]_<<Faithful, Pending, Handling, Stack>>

\* What is seen of a faithful vCPU is as before.
SameFor(v) == /\ Irqs(v, "pend")' = Irqs(v, "pend") /\ Irqs(v, "act")' = Irqs(v, "act")
              /\ stack'[v] = stack[v]

LEMMA StutterIs ==
  ASSUME Faithful' = Faithful, \A v \in Faithful : SameFor(v)
  PROVE  Delivery
<1>1. Pending' = Pending /\ Handling' = Handling /\ Stack' = Stack
  BY DEF Pending, Handling, Stack, SameFor
<1> QED  BY <1>1 DEF Delivery

\* One interrupt, for the vCPUs of S; those of D are given up.
LEMMA RaiseIs ==
  ASSUME NEW i \in IRQ, NEW D \in SUBSET Faithful, NEW S \in SUBSET (Faithful \ D),
         Faithful' = Faithful \ D, stack' = stack,
         \A v \in D : i \in Irqs(v, "pend") \cup Irqs(v, "act"),
         \A v \in Faithful' : /\ Irqs(v, "pend")' = Irqs(v, "pend")
                                                     \cup (IF v \in S THEN {i} ELSE {})
                              /\ Irqs(v, "act")' = Irqs(v, "act")
  PROVE  Delivery
<1>1. \A v \in D : i \in Pending[v] \cup Handling[v]
  BY DEF Pending, Handling, Faithful
<1>2. Stack' = [v \in VCPU |-> IF v \in D THEN <<>> ELSE Stack[v]]
  BY DEF Stack
<1>3. Handling' = [v \in VCPU |-> IF v \in D THEN {} ELSE Handling[v]]
  BY DEF Handling
<1>4. Pending' = [v \in VCPU |-> IF v \in D THEN {}
                                 ELSE Pending[v] \cup (IF v \in S THEN {i} ELSE {})]
  <2>1. \A v \in VCPU : (IF v \in Faithful' THEN Irqs(v, "pend")' ELSE {})
                          = IF v \in D THEN {}
                            ELSE (IF v \in Faithful THEN Irqs(v, "pend") ELSE {})
                                   \cup (IF v \in S THEN {i} ELSE {})
    OBVIOUS
  <2> QED  BY <2>1 DEF Pending
<1> DEFINE P == [v \in VCPU |-> Pending[v] \cup (IF v \in S THEN {i} ELSE {})]
<1>5. Pending' = [v \in VCPU |-> IF v \in D THEN {} ELSE P[v]]
  BY <1>4
<1>6. ID!Raise(S, i, D)
        <=> /\ Faithful' = Faithful \ D
            /\ \A v \in D : i \in Pending[v] \cup Handling[v]
            /\ Stack' = [v \in VCPU |-> IF v \in D THEN <<>> ELSE Stack[v]]
            /\ Handling' = [v \in VCPU |-> IF v \in D THEN {} ELSE Handling[v]]
            /\ Pending' = [v \in VCPU |-> IF v \in D THEN {} ELSE P[v]]
  BY ZenonT(40) DEF ID!Raise, ID!Without, Pending, Handling, Stack
<1>7. ID!Raise(S, i, D)
  BY <1>1, <1>2, <1>3, <1>5, <1>6
<1> QED  BY <1>7 DEF Delivery, ID!IDNext

\* Only what v holds changes, to P and A, and the handlers it is in, to s.
Changes(v, P, A, s) ==
  /\ Faithful' = Faithful /\ v \in Faithful
  /\ Irqs(v, "pend")' = P /\ Irqs(v, "act")' = A /\ stack'[v] = s
  /\ \A u \in Faithful \ {v} : SameFor(u)

LEMMA ChangesMaps ==
  ASSUME NEW v \in VCPU, NEW P, NEW A, NEW s, Changes(v, P, A, s)
  PROVE  /\ Pending[v] = Irqs(v, "pend") /\ Handling[v] = Irqs(v, "act")
         /\ Stack[v] = stack[v] /\ Faithful' = Faithful
         /\ Pending' = [Pending EXCEPT ![v] = P]
         /\ Handling' = [Handling EXCEPT ![v] = A]
         /\ Stack' = [Stack EXCEPT ![v] = s]
<1>0. Changes(v, P, A, s)
  OBVIOUS
<1>1. /\ Pending' = [u \in VCPU |-> IF u \in Faithful THEN Irqs(u, "pend")' ELSE {}]
      /\ Handling' = [u \in VCPU |-> IF u \in Faithful THEN Irqs(u, "act")' ELSE {}]
      /\ Stack' = [u \in VCPU |-> IF u \in Faithful THEN stack'[u] ELSE <<>>]
  BY <1>0 DEF Pending, Handling, Stack, Changes
<1>2. /\ [Pending EXCEPT ![v] = P] = [u \in VCPU |-> IF u = v THEN P ELSE Pending[u]]
      /\ [Handling EXCEPT ![v] = A] = [u \in VCPU |-> IF u = v THEN A ELSE Handling[u]]
      /\ [Stack EXCEPT ![v] = s] = [u \in VCPU |-> IF u = v THEN s ELSE Stack[u]]
  BY DEF Pending, Handling, Stack
<1>3. \A u \in VCPU : /\ Pending[u] = (IF u \in Faithful THEN Irqs(u, "pend") ELSE {})
                      /\ Handling[u] = (IF u \in Faithful THEN Irqs(u, "act") ELSE {})
                      /\ Stack[u] = (IF u \in Faithful THEN stack[u] ELSE <<>>)
  BY DEF Pending, Handling, Stack
<1>4. /\ Irqs(v, "pend")' = P /\ Irqs(v, "act")' = A /\ stack'[v] = s
      /\ v \in Faithful /\ Faithful' = Faithful
      /\ \A u \in Faithful : u # v => /\ Irqs(u, "pend")' = Irqs(u, "pend")
                                      /\ Irqs(u, "act")' = Irqs(u, "act")
                                      /\ stack'[u] = stack[u]
  BY <1>0 DEF Changes, SameFor
<1>5. Pending' = [Pending EXCEPT ![v] = P]
  BY <1>1, <1>2, <1>3, <1>4, ZenonT(40)
<1>6. Handling' = [Handling EXCEPT ![v] = A]
  BY <1>1, <1>2, <1>3, <1>4, ZenonT(40)
<1>7. Stack' = [Stack EXCEPT ![v] = s]
  BY <1>1, <1>2, <1>3, <1>4, ZenonT(40)
<1> QED  BY <1>3, <1>4, <1>5, <1>6, <1>7

LEMMA TakeIs ==
  ASSUME NEW v \in VCPU, NEW i \in IRQ, i \in Irqs(v, "pend"),
         Changes(v, Irqs(v, "pend") \ {i}, Irqs(v, "act") \cup {i}, Append(stack[v], i))
  PROVE  Delivery
<1> DEFINE P == Irqs(v, "pend") \ {i}
           A == Irqs(v, "act") \cup {i}
           s == Append(stack[v], i)
<1>0. Changes(v, P, A, s)
  OBVIOUS
<1> HIDE DEF P, A, s
<1>1. /\ Stack[v] = stack[v] /\ Faithful' = Faithful
      /\ Pending[v] = Irqs(v, "pend") /\ Handling[v] = Irqs(v, "act")
      /\ Pending' = [Pending EXCEPT ![v] = P]
      /\ Handling' = [Handling EXCEPT ![v] = A]
      /\ Stack' = [Stack EXCEPT ![v] = s]
  BY <1>0, ChangesMaps
<1>2. ID!Take(v, i)
        <=> /\ Stack' = [Stack EXCEPT ![v] = Append(Stack[v], i)]
            /\ i \in Pending[v]
            /\ Pending' = [Pending EXCEPT ![v] = Pending[v] \ {i}]
            /\ Handling' = [Handling EXCEPT ![v] = Handling[v] \cup {i}]
            /\ Faithful' = Faithful
  BY ZenonT(40) DEF ID!Take, Pending, Handling, Stack
<1>3. ID!Take(v, i)
  BY <1>1, <1>2 DEF P, A, s
<1> QED  BY <1>3 DEF Delivery, ID!IDNext

LEMMA FinishIs ==
  ASSUME NEW v \in VCPU, stack[v] # <<>>,
         NEW A, A = Irqs(v, "act") \/ A = Irqs(v, "act") \ {Last(stack[v])},
         Changes(v, Irqs(v, "pend"), A, Front(stack[v]))
  PROVE  Delivery
<1>1. /\ Stack[v] = stack[v] /\ Faithful' = Faithful
      /\ Pending[v] = Irqs(v, "pend") /\ Handling[v] = Irqs(v, "act")
      /\ Pending' = [Pending EXCEPT ![v] = Irqs(v, "pend")]
      /\ Handling' = [Handling EXCEPT ![v] = A]
      /\ Stack' = [Stack EXCEPT ![v] = Front(stack[v])]
  BY ChangesMaps
<1>2. Pending' = Pending
  <2>1. Pending = [Pending EXCEPT ![v] = Pending[v]]
    BY DEF Pending
  <2> QED  BY <1>1, <2>1
<1>3. \/ Handling' = Handling
      \/ Handling' = [Handling EXCEPT ![v] = Handling[v] \ {Last(Stack[v])}]
  <2>1. Handling = [Handling EXCEPT ![v] = Handling[v]]
    BY DEF Handling
  <2> QED  BY <1>1, <2>1
<1>4. Stack' = [Stack EXCEPT ![v] = Front(Stack[v])] /\ Stack[v] # <<>>
  BY <1>1
<1>5. ID!Finish(v)
        <=> /\ Stack[v] # <<>>
            /\ Stack' = [Stack EXCEPT ![v] = Front(Stack[v])]
            /\ \/ Handling' = [Handling EXCEPT ![v] = Handling[v] \ {Last(Stack[v])}]
               \/ UNCHANGED Handling
            /\ UNCHANGED <<Faithful, Pending>>
  BY ZenonT(40) DEF ID!Finish, ID!Front, ID!Last, Front, Last, Pending, Handling, Stack
<1>6. ID!Finish(v)
  BY <1>1, <1>2, <1>3, <1>4, <1>5
<1> QED  BY <1>6 DEF Delivery, ID!IDNext

LEMMA CeaseIs ==
  ASSUME NEW v \in VCPU, v \in Faithful, stack[v] = <<>>, stack' = stack,
         Faithful' = Faithful \ {v},
         \A u \in Faithful' : SameFor(u)
  PROVE  Delivery
<1>1. /\ Pending' = [Pending EXCEPT ![v] = {}]
      /\ Handling' = [Handling EXCEPT ![v] = {}]
      /\ Stack' = Stack
  BY DEF Pending, Handling, Stack, SameFor
<1>2. Stack[v] = <<>>
  BY DEF Stack
<1>3. ID!Cease(v)
        <=> /\ v \in Faithful /\ Stack[v] = <<>>
            /\ Faithful' = Faithful \ {v}
            /\ Pending' = [Pending EXCEPT ![v] = {}]
            /\ Handling' = [Handling EXCEPT ![v] = {}]
            /\ Stack' = Stack
  BY ZenonT(40) DEF ID!Cease, Pending, Handling, Stack
<1>4. ID!Cease(v)
  BY <1>1, <1>2, <1>3
<1> QED  BY <1>4 DEF Delivery, ID!IDNext

\* A step that leaves each vCPU what it held.
LEMMA SameHeld ==
  ASSUME SpiOwned, Faithful' = Faithful, stack' = stack,
         \A v \in Faithful : Held(v)' = Held(v),
         \A p \in Spi : p \in physAct' <=> p \in physAct
  PROVE  SpiOwned' /\ Delivery
<1>1. \A v \in Faithful : SameFor(v)
  BY DEF Irqs, SameFor
<1>2. ASSUME Faithful = VCPU PROVE \A v \in VCPU, p \in Spi : HoldsHw(v, p)' <=> HoldsHw(v, p)
  BY <1>2 DEF HoldsHw
<1>3. SpiOwned'
  BY <1>2 DEF SpiOwned
<1> QED  BY <1>1, <1>3, StutterIs

\* A step of a vCPU that is not faithful is not seen.
LEMMA Unseen ==
  ASSUME NEW e \in VCPU, e \notin Faithful, Faithful' = Faithful,
         \A v \in VCPU \ {e} : Held(v)' = Held(v) /\ stack'[v] = stack[v]
  PROVE  SpiOwned' /\ Delivery
<1>1. \A v \in Faithful : SameFor(v)
  BY DEF Irqs, SameFor, Faithful
<1>2. SpiOwned'
  BY DEF SpiOwned
<1> QED  BY <1>1, <1>2, StutterIs

LEMMA Quiet ==
  ASSUME IInv, Faithful' = Faithful, stack' = stack,
         \A p \in Spi : p \in physAct' <=> p \in physAct,
         \A v \in VCPU : View(v)'.lr = View(v).lr /\ mem'[v] = mem[v]
  PROVE  OnceEach' /\ SpiOwned' /\ Delivery
<1>1. \A v \in VCPU : Held(v)' = Held(v)
  BY DEF Held
<1>2. \A v \in Faithful : v \in VCPU
  BY DEF Faithful
<1>3. OnceEach'
  BY <1>2 DEF IInv, OnceEach
<1> QED  BY <1>1, <1>2, <1>3, SameHeld DEF IInv

\* The vCPUs of S come to hold the pending interrupt x, the others nothing new.
Adds(S, x) == \A v \in Faithful' :
                Held(v)' = IF v \in S THEN Held(v) \cup {x} ELSE Held(v)

\* Those of D had it already, and are no longer faithful.
Doubled(D, x) == /\ D \subseteq Faithful /\ Faithful' = Faithful \ D
                 /\ \A v \in D : x.irq \in Irqs(v, "pend") \cup Irqs(v, "act")

LEMMA AddsRaises ==
  ASSUME stack' = stack, NEW S, NEW x \in Interrupt, x.st = "pend",
         NEW D, Doubled(D, x), Adds(S, x)
  PROVE  Delivery
<1> DEFINE R == S \cap (Faithful \ D)
<1>1. ASSUME NEW v \in Faithful'
      PROVE  /\ Irqs(v, "pend")' = Irqs(v, "pend") \cup (IF v \in R THEN {x.irq} ELSE {})
             /\ Irqs(v, "act")' = Irqs(v, "act")
  <2>1. Held(v)' = IF v \in R THEN Held(v) \cup {x} ELSE Held(v)
    BY DEF Adds, Doubled
  <2> HIDE DEF R
  <2> QED  BY <2>1 DEF Irqs
<1>2. x.irq \in IRQ
  BY Registers
<1>3. R \in SUBSET (Faithful \ D) /\ D \in SUBSET Faithful
  BY DEF Doubled
<1> HIDE DEF R
<1> QED  BY <1>1, <1>2, <1>3, RaiseIs DEF Doubled

\* virtual_gic_send_software_sgi and the others: what is accepted is added.
LEMMA Injected ==
  ASSUME IInv, NEW T \in SUBSET VCPU, NEW x \in Interrupt, Inject(T, x),
         exec' = exec, lapsed' = lapsed,
         \A v \in T \cap Faithful : SameSource(View(v).lr, mem[v], x)
  PROVE  /\ OnceEach'
         /\ Adds({v \in T : SetLr(v, mem[v], x).ok}, x)
         /\ \E D : Doubled(D, x)
<1> DEFINE r == [v \in T |-> SetLr(v, mem[v], x)]
<1>1. Commit(T, r)
  BY DEF Inject
<1>2. \A v \in VCPU : ViewOK(View(v)) /\ mem[v] \in SUBSET Interrupt
  BY ViewsOK DEF IInv
<1>3. \A v \in T : r[v] = SetLr(v, mem[v], x)
  OBVIOUS
<1>4. Results(T, r)
  <2> HIDE DEF r
  <2>1. \A v \in T : Result(View(v).lr, mem[v], r[v])
    BY <1>2, <1>3, SetLrTyped
  <2> QED  BY <2>1 DEF Result, Results
<1> HIDE DEF r
<1>5. ASSUME NEW v \in VCPU
      PROVE  /\ View(v)'.lr = IF v \in T THEN r[v].lr ELSE View(v).lr
             /\ mem'[v] = IF v \in T THEN r[v].mem ELSE mem[v]
  <2>1. TypeOK /\ Commit(T, r) /\ Results(T, r) /\ exec' = exec /\ T \in SUBSET VCPU
    BY <1>1, <1>4 DEF IInv
  <2>2. \A u \in VCPU : /\ View(u)'.lr = IF u \in T THEN r[u].lr ELSE View(u).lr
                        /\ mem'[u] = IF u \in T THEN r[u].mem ELSE mem[u]
    BY ONLY <2>1, CommitWrites, ZenonT(40)
  <2> QED  BY <2>2
<1> DEFINE D == {v \in T \cap Faithful : r[v].again}
<1>6. Faithful' = Faithful \ D /\ D \subseteq Faithful
      /\ \A v \in Faithful' : v \in Faithful /\ v \in VCPU /\ ~(v \in T /\ r[v].again)
  <2>1. twice' = twice \cup {v \in T : r[v].again}
    BY <1>1 DEF Commit
  <2> QED  BY <2>1 DEF Faithful
<1>7. ASSUME NEW v \in T \cap Faithful
      PROVE  /\ ~r[v].again =>
                  /\ Distinct(r[v].lr, r[v].mem)
                  /\ r[v].ok => Contents(r[v].lr, r[v].mem) = Contents(View(v).lr, mem[v]) \cup {x}
             /\ ~r[v].ok => r[v].lr = View(v).lr /\ r[v].mem = mem[v]
             /\ r[v].again => \E y \in Contents(View(v).lr, mem[v]) : y.irq = x.irq
  <2>1. /\ v \in VCPU /\ Distinct(View(v).lr, mem[v]) /\ r[v] = SetLr(v, mem[v], x)
        /\ SameSource(View(v).lr, mem[v], x)
    BY <1>3 DEF Faithful, IInv, OnceEach
  <2>2. Result(View(v).lr, mem[v], r[v])
    BY <1>2, <2>1, SetLrTyped
  <2> QED  BY <1>2, <2>1, <2>2, SetLrKeeps DEF Result
<1>8. ASSUME NEW v \in Faithful'
      PROVE  /\ Distinct(View(v)'.lr, mem'[v])
             /\ Held(v)' = IF v \in T /\ r[v].ok THEN Held(v) \cup {x} ELSE Held(v)
  <2>1. v \in VCPU /\ v \in Faithful /\ Distinct(View(v).lr, mem[v])
    BY <1>6 DEF IInv, OnceEach
  <2>2. Held(v)' = Contents(View(v)'.lr, mem'[v]) /\ Held(v) = Contents(View(v).lr, mem[v])
    BY HeldIs DEF Held, Contents
  <2>3. CASE v \notin T
    BY <1>5, <2>1, <2>2, <2>3
  <2>4. CASE v \in T
    <3>1. View(v)'.lr = r[v].lr /\ mem'[v] = r[v].mem /\ ~r[v].again
      BY <1>5, <1>6, <2>1, <2>4
    <3>2. /\ Distinct(r[v].lr, r[v].mem)
          /\ r[v].ok => Contents(r[v].lr, r[v].mem) = Contents(View(v).lr, mem[v]) \cup {x}
          /\ ~r[v].ok => r[v].lr = View(v).lr /\ r[v].mem = mem[v]
      BY <1>7, <2>1, <2>4, <3>1
    <3> QED  BY <2>2, <2>4, <3>1, <3>2
  <2> QED  BY <2>3, <2>4
<1>9. OnceEach'
  BY <1>8 DEF OnceEach
<1>10. ASSUME NEW v \in D PROVE x.irq \in Irqs(v, "pend") \cup Irqs(v, "act")
  <2>1. v \in VCPU /\ \E y \in Contents(View(v).lr, mem[v]) : y.irq = x.irq
    BY <1>7, <1>10
  <2>2. PICK y \in Held(v) : y.irq = x.irq
    BY <2>1, HeldIs
  <2>3. y \in Interrupt
    BY <1>2, <2>1, <2>2, HeldIs, InContents DEF ViewOK
  <2> QED  BY <2>2, <2>3 DEF Irqs, Interrupt
<1> HIDE DEF D
<1>11. Doubled(D, x)
  BY <1>6, <1>10 DEF Doubled
<1> QED  BY <1>3, <1>6, <1>8, <1>9, <1>11 DEF Adds

-----------------------------------------------------------------------------
\* The steps, one lemma for each action.

Kept == IInv' /\ Delivery

LEMMA WakingKeeps ==
  ASSUME IInv, NEW W \in SUBSET VCPU, Waking(W)
  PROVE  /\ exec' = exec /\ off' = off /\ last' = last
         /\ pc' \in {"guest", "idle", "sched"} /\ asleep' \subseteq VCPU
         /\ asleep' \cap off = {} /\ exec \notin asleep' \cup off
         /\ pc' = "guest" <=> exec # NULL
         /\ IdleFor'
<1>1. /\ exec' = exec /\ off' = off /\ last' = last /\ asleep' = asleep \ W
      /\ pc' = IF exec = NULL /\ W \cap asleep # {} THEN "sched" ELSE pc
  BY DEF Waking
<1>2. /\ pc \in {"guest", "idle", "sched"}
      /\ asleep \subseteq VCPU /\ off \subseteq VCPU /\ asleep \cap off = {}
      /\ exec \notin asleep \cup off
      /\ pc = "guest" <=> exec # NULL
  BY DEF IInv, TypeOK
<1>3. pc' = "idle" => pc = "idle" /\ asleep' = asleep
  BY <1>1, <1>2
<1>4. IdleFor'
  BY <1>1, <1>3 DEF IInv, IdleFor, Awake
<1> QED  BY <1>1, <1>2, <1>4

LEMMA CommitKeeps ==
  ASSUME IInv, NEW T \in SUBSET VCPU, NEW r, Results(T, r), Commit(T, r),
         NEW W \in SUBSET VCPU, T \subseteq W, Waking(W),
         \A v \in T : ~r[v].stored => r[v].mem = mem[v],
         UNCHANGED <<stack, distVars, lapsed>>, physAct' \subseteq Ppi \cup Spi
  PROVE  /\ TypeOK' /\ CopiesMarked' /\ UnderflowArmed'
         /\ StrayStored' /\ IdleFor' /\ NoIdleMaintenance'
<1>1. TypeOK
  BY DEF IInv
<1>2. /\ exec' = exec /\ off' = off /\ last' = last
      /\ pc' \in {"guest", "idle", "sched"} /\ asleep' \subseteq VCPU
      /\ asleep' \cap off = {} /\ exec \notin asleep' \cup off
      /\ pc' = "guest" <=> exec # NULL
      /\ IdleFor'
  BY WakingKeeps
<1>3. /\ hw' \in [lr : [LR -> Reg], apr : SUBSET Levels, np : BOOLEAN, eoi : BOOLEAN]
      /\ saved' \in [VCPU -> [lr : [LR -> Reg], empty : SUBSET LR, apr : SUBSET Levels,
                              np : BOOLEAN, eoi : BOOLEAN]]
      /\ mem' \in [VCPU -> SUBSET Interrupt]
      /\ stray' \subseteq VCPU /\ twice' \subseteq VCPU
  BY <1>1, CommitTyped
<1>4. TypeOK'
  BY <1>1, <1>2, <1>3 DEF TypeOK, distVars
<1>5. CopiesMarked'
  BY <1>1, CommitMarks DEF IInv
<1>6. UnderflowArmed' /\ StrayStored'
  BY <1>1, <1>2, CommitArms DEF IInv
<1>7. NoIdleMaintenance'
  BY CommitIdle
<1> QED  BY <1>2, <1>4, <1>5, <1>6, <1>7 DEF IInv

\* Everything an injection must keep, but for the owners of the SPIs.
LEMMA InjectKeeps ==
  ASSUME IInv, NEW T \in SUBSET VCPU, NEW x \in Interrupt, x.st = "pend", Inject(T, x),
         NEW W \in SUBSET VCPU, T \subseteq W, Waking(W),
         UNCHANGED <<stack, distVars, lapsed>>, physAct' \subseteq Ppi \cup Spi,
         \A v \in T \cap Faithful : SameSource(View(v).lr, mem[v], x)
  PROVE  /\ Adds({v \in T : SetLr(v, mem[v], x).ok}, x)
         /\ Faithful' \subseteq Faithful
         /\ SpiOwned' => Kept
<1> DEFINE r == [v \in T |-> SetLr(v, mem[v], x)]
<1>1. Commit(T, r) /\ \A v \in T : r[v] = SetLr(v, mem[v], x)
  BY DEF Inject
<1>2. \A v \in VCPU : ViewOK(View(v)) /\ mem[v] \in SUBSET Interrupt
  BY ViewsOK DEF IInv
<1> HIDE DEF r
<1>3. \A v \in T : Result(View(v).lr, mem[v], r[v])
  BY <1>1, <1>2, SetLrTyped
<1>4. Results(T, r) /\ \A v \in T : ~r[v].stored => r[v].mem = mem[v]
  BY <1>3 DEF Result, Results
<1>5. /\ TypeOK' /\ CopiesMarked' /\ UnderflowArmed'
      /\ StrayStored' /\ IdleFor' /\ NoIdleMaintenance'
  BY <1>1, <1>4, CommitKeeps
<1>6. exec' = exec /\ lapsed' = lapsed
  BY DEF Waking
<1>7. /\ OnceEach' /\ Adds({v \in T : SetLr(v, mem[v], x).ok}, x)
      /\ \E D : Doubled(D, x)
  BY <1>6, Injected
<1>8. PICK D : Doubled(D, x)
  BY <1>7
<1>9. Delivery
  BY <1>7, <1>8, AddsRaises
<1>10. Faithful' \subseteq Faithful
  BY <1>8 DEF Doubled
<1> QED  BY <1>5, <1>7, <1>9, <1>10 DEF Kept, IInv

LEMMA MadeIs ==
  ASSUME NEW i \in IRQ, NEW src \in VCPU, NEW h \in BOOLEAN
  PROVE  /\ Made(i, src, h) \in Interrupt
         /\ Made(i, src, h).st = "pend" /\ Made(i, src, h).irq = i
         /\ Made(i, src, h).src = src /\ Made(i, src, h).hw = h
BY DEF Made, Interrupt, Levels

\* A software interrupt owns no SPI.
LEMMA AddsSoftware ==
  ASSUME SpiOwned, Faithful' \subseteq Faithful, physAct' = physAct, NEW S, NEW x,
         x.hw = FALSE, Adds(S, x)
  PROVE  SpiOwned'
<1> SUFFICES ASSUME Faithful' = VCPU PROVE SpiOwned'
  BY DEF SpiOwned
<1>1. Faithful = VCPU
  BY DEF Faithful
<1>2. \A v \in VCPU, p \in Spi : HoldsHw(v, p)' <=> HoldsHw(v, p)
  BY DEF HoldsHw, Adds
<1> QED  BY <1>1, <1>2 DEF SpiOwned

LEMMA SendSgiKeeps ==
  ASSUME IInv, NEW i \in Sgi, NEW T \in SUBSET VCPU, SendSgi(i, T)
  PROVE  Kept
<1> DEFINE on == {v \in T : i \in en[v]}
           x  == Made(i, exec, FALSE)
<1>1. /\ Waking(on) /\ Inject(on, x) /\ OneSource(T, x)
      /\ UNCHANGED <<stack, distVars, physAct, lapsed>>
  BY DEF SendSgi
<1>2. exec \in VCPU
  BY DEF SendSgi, Guest, IInv, TypeOK
<1>3. x \in Interrupt /\ x.st = "pend" /\ x.hw = FALSE
  BY <1>2, MadeIs, Numbers, ZenonT(40)
<1>4. on \in SUBSET VCPU /\ on \subseteq T
  OBVIOUS
<1> HIDE DEF on, x
<1>5. \A v \in on \cap Faithful : SameSource(View(v).lr, mem[v], x)
  BY <1>1, <1>4, HeldIs DEF OneSource, SameSource
<1>6. physAct' \subseteq Ppi \cup Spi
  BY <1>1 DEF IInv, TypeOK
<1>7. /\ Adds({v \in on : SetLr(v, mem[v], x).ok}, x) /\ Faithful' \subseteq Faithful
      /\ SpiOwned' => Kept
  BY <1>1, <1>3, <1>4, <1>5, <1>6, InjectKeeps
<1> QED  BY <1>1, <1>3, <1>7, AddsSoftware DEF IInv

LEMMA BalanceIn ==
  ASSUME NEW mask \in SUBSET VCPU, mask # {}
  PROVE  Balance(mask) \in mask
<1>1. mask \in SUBSET Nat
  BY Numbers
<1> QED  BY <1>1, Minimum DEF Balance

LEMMA VintSendKeeps ==
  ASSUME IInv, NEW i \in Spi, VintSend(i)
  PROVE  Kept
<1> DEFINE v == Balance(Target[i])
           x == Made(i, 0, FALSE)
<1>1. /\ Waking({v}) /\ Inject({v}, x) /\ Target[i] # {}
      /\ UNCHANGED <<stack, distVars, physAct, lapsed>>
  BY DEF VintSend
<1>2. v \in VCPU
  <2>1. Target[i] \in SUBSET VCPU
    BY Numbers
  <2> QED  BY <1>1, <2>1, BalanceIn
<1>3. x \in Interrupt /\ x.st = "pend" /\ x.hw = FALSE /\ ~(x.irq <= SGI_ID_MAX)
  <2>1. i \in IRQ /\ 0 \in VCPU /\ ~(i <= SGI_ID_MAX)
    BY Numbers
  <2> QED  BY <2>1, MadeIs
<1> HIDE DEF v, x
<1>4. {v} \in SUBSET VCPU /\ \A u \in {v} \cap Faithful : SameSource(View(u).lr, mem[u], x)
  BY <1>2, <1>3 DEF SameSource
<1>5. physAct' \subseteq Ppi \cup Spi
  BY <1>1 DEF IInv, TypeOK
<1>6. /\ Adds({u \in {v} : SetLr(u, mem[u], x).ok}, x) /\ Faithful' \subseteq Faithful
      /\ SpiOwned' => Kept
  BY <1>1, <1>3, <1>4, <1>5, InjectKeeps
<1> QED  BY <1>1, <1>3, <1>6, AddsSoftware DEF IInv

\* A step without an injection, that writes none of the lists.
LEMMA UncommittedKeeps ==
  ASSUME IInv, UNCHANGED <<exec, coreVars, stack, lapsed>>, TypeOK',
         IdleFor', NoIdleMaintenance',
         \A p \in Spi : p \in physAct' <=> p \in physAct
  PROVE  Kept
<1>1. \A v \in VCPU : View(v)'.lr = View(v).lr /\ mem'[v] = mem[v]
  BY DEF View, coreVars
<1>2. Faithful' = Faithful
  BY DEF Faithful, coreVars
<1>3. OnceEach' /\ SpiOwned' /\ Delivery
  BY <1>1, <1>2, Quiet
<1>4. CopiesMarked' /\ UnderflowArmed' /\ StrayStored'
  BY DEF IInv, CopiesMarked, MarkedBy, UnderflowArmed, StrayStored, coreVars
<1> QED  BY <1>3, <1>4 DEF Kept, IInv

LEMMA SpiIrqKeeps ==
  ASSUME IInv, NEW p \in Spi, SpiIrq(p)
  PROVE  Kept
<1>0. p \in physEn \ physAct /\ UNCHANGED <<stack, distVars, lapsed>>
  BY DEF SpiIrq, Arrives
<1>1. CASE UNCHANGED <<cpuVars, coreVars, physAct>>
  <2>1. TypeOK' /\ IdleFor'
    BY <1>0, <1>1 DEF IInv, TypeOK, IdleFor, Awake, cpuVars, coreVars, distVars
  <2>2. NoIdleMaintenance'
    BY <1>0, <1>1
       DEF IInv, NoIdleMaintenance, Vmi, MisrNP, MisrLRENP, cpuVars, coreVars
  <2> QED  BY <1>0, <1>1, <2>1, <2>2, UncommittedKeeps DEF cpuVars
<1>2. CASE ctl /\ p \in spiEn /\ Target[p] # {}
  <2> DEFINE v == Balance(Target[p])
             x == Made(p, 0, TRUE)
             r == SetLr(v, mem[v], x)
  <2>1. /\ Waking(Target[p]) /\ Commit({v}, [u \in {v} |-> r]) /\ AfterSpi(p, r.ok)
    BY <1>2 DEF SpiIrq
  <2>2. Target[p] \in SUBSET VCPU
    BY Numbers
  <2>3. v \in Target[p] /\ v \in VCPU
    BY <1>2, <2>2, BalanceIn
  <2>4. x \in Interrupt /\ x.st = "pend" /\ x.hw /\ x.irq = p /\ ~(x.irq <= SGI_ID_MAX)
    <3>1. p \in IRQ /\ 0 \in VCPU /\ ~(p <= SGI_ID_MAX)
      BY Numbers
    <3> QED  BY <3>1, MadeIs
  <2> HIDE DEF v, x
  <2>5. Inject({v}, x)
    <3>1. [u \in {v} |-> r] = [u \in {v} |-> SetLr(u, mem[u], x)]
      OBVIOUS
    <3> QED  BY <2>1, <3>1 DEF Inject
  <2> DEFINE S == {u \in {v} : SetLr(u, mem[u], x).ok}
  <2>6. {v} \in SUBSET VCPU /\ {v} \subseteq Target[p]
        /\ \A u \in {v} \cap Faithful : SameSource(View(u).lr, mem[u], x)
    BY <2>3, <2>4 DEF SameSource
  <2>7. physAct' = IF r.ok THEN physAct \cup {p} ELSE physAct
    BY <2>1 DEF AfterSpi
  <2>8. physAct' \subseteq Ppi \cup Spi
    BY <2>7 DEF IInv, TypeOK
  <2>9. Adds(S, x) /\ Faithful' \subseteq Faithful /\ (SpiOwned' => Kept)
    BY <1>0, <2>1, <2>2, <2>4, <2>5, <2>6, <2>8, InjectKeeps
  <2>10. S = IF r.ok THEN {v} ELSE {}
    OBVIOUS
  <2> HIDE DEF S, r
  <2>11. ASSUME Faithful' = VCPU
         PROVE  \A q \in Spi :
                  /\ q \in physAct' => \E w \in VCPU : HoldsHw(w, q)'
                  /\ \A w \in VCPU : HoldsHw(w, q)' => q \in physAct'
                  /\ \A u, w \in VCPU : HoldsHw(u, q)' /\ HoldsHw(w, q)' => u = w
    <3>1. Faithful = VCPU
      BY <2>9, <2>11 DEF Faithful
    <3>2. \A w \in VCPU, q \in Spi :
            HoldsHw(w, q)' <=> HoldsHw(w, q) \/ (w \in S /\ q = p)
      BY <2>4, <2>9, <2>11 DEF Adds, HoldsHw
    <3>3. \A q \in Spi :
            /\ q \in physAct => \E w \in VCPU : HoldsHw(w, q)
            /\ \A w \in VCPU : HoldsHw(w, q) => q \in physAct
            /\ \A u, w \in VCPU : HoldsHw(u, q) /\ HoldsHw(w, q) => u = w
      BY <3>1 DEF IInv, SpiOwned
    <3>4. CASE r.ok
      BY <1>0, <2>3, <2>7, <2>10, <3>2, <3>3, <3>4
    <3>5. CASE ~r.ok
      BY <2>7, <2>10, <3>2, <3>3, <3>5
    <3> QED  BY <3>4, <3>5
  <2>12. SpiOwned'
    BY <2>11 DEF SpiOwned
  <2> QED  BY <2>9, <2>12
<1> QED  BY <1>1, <1>2 DEF SpiIrq

LEMMA PpiIrqKeeps ==
  ASSUME IInv, NEW p \in Ppi, PpiIrq(p)
  PROVE  Kept
<1>1. /\ UNCHANGED <<stack, distVars, lapsed>> /\ last # NULL
      /\ physAct' = physAct \cup {p}
  BY DEF PpiIrq, Arrives
<1>2. physAct' \subseteq Ppi \cup Spi /\ \A q \in Spi : q \in physAct' <=> q \in physAct
  BY <1>1, Numbers DEF IInv, TypeOK
<1>3. last \in VCPU
  BY <1>1 DEF IInv, TypeOK
<1>4. CASE UNCHANGED <<cpuVars, coreVars>>
  <2>1. TypeOK' /\ IdleFor'
    BY <1>1, <1>2, <1>4 DEF IInv, TypeOK, IdleFor, Awake, cpuVars, coreVars, distVars
  <2>2. NoIdleMaintenance'
    BY <1>4 DEF IInv, NoIdleMaintenance, Vmi, MisrNP, MisrLRENP, cpuVars, coreVars
  <2> QED  BY <1>1, <1>2, <1>4, <2>1, <2>2, UncommittedKeeps DEF cpuVars
<1>5. CASE Waking({last}) /\ UNCHANGED coreVars
  <2>1. {last} \in SUBSET VCPU
    BY <1>3
  <2>2. /\ exec' = exec /\ off' = off /\ last' = last
        /\ pc' \in {"guest", "idle", "sched"} /\ asleep' \subseteq VCPU
        /\ asleep' \cap off = {} /\ exec \notin asleep' \cup off
        /\ pc' = "guest" <=> exec # NULL
        /\ IdleFor'
    BY <1>5, <2>1, WakingKeeps
  <2>3. TypeOK'
    BY <1>1, <1>2, <1>5, <2>2 DEF IInv, TypeOK, coreVars, distVars
  <2>4. pc' = "idle" => pc = "idle"
    BY <1>5 DEF Waking
  <2>5. NoIdleMaintenance'
    BY <1>5, <2>2, <2>4
       DEF IInv, NoIdleMaintenance, Vmi, MisrNP, MisrLRENP, coreVars
  <2> QED  BY <1>1, <1>2, <1>5, <2>2, <2>3, <2>5, UncommittedKeeps
<1>6. CASE Waking({last}) /\ Inject({last}, Made(p, 0, TRUE))
  <2> DEFINE x == Made(p, 0, TRUE)
  <2>1. x \in Interrupt /\ x.st = "pend" /\ x.irq = p /\ ~(x.irq <= SGI_ID_MAX)
    <3>1. p \in IRQ /\ 0 \in VCPU /\ ~(p <= SGI_ID_MAX)
      BY Numbers
    <3> QED  BY <3>1, MadeIs
  <2>2. Waking({last}) /\ Inject({last}, x) /\ lapsed' = lapsed
    BY <1>1, <1>6
  <2> HIDE DEF x
  <2>3. {last} \in SUBSET VCPU
        /\ \A u \in {last} \cap Faithful : SameSource(View(u).lr, mem[u], x)
    BY <1>3, <2>1 DEF SameSource
  <2> DEFINE S == {u \in {last} : SetLr(u, mem[u], x).ok}
  <2>4. Adds(S, x) /\ Faithful' \subseteq Faithful /\ (SpiOwned' => Kept)
    BY <1>1, <1>2, <2>1, <2>2, <2>3, InjectKeeps
  <2> HIDE DEF S
  <2>5. p \notin Spi
    BY Numbers
  <2>6. ASSUME Faithful' = VCPU
        PROVE  /\ Faithful = VCPU
               /\ \A v \in VCPU, q \in Spi : HoldsHw(v, q)' <=> HoldsHw(v, q)
    <3>1. Faithful = VCPU
      BY <2>4, <2>6 DEF Faithful
    <3> QED  BY <2>1, <2>4, <2>5, <2>6, <3>1 DEF HoldsHw, Adds
  <2>7. SpiOwned'
    BY <1>2, <2>6 DEF IInv, SpiOwned
  <2> QED  BY <2>4, <2>7
<1> QED  BY <1>4, <1>5, <1>6 DEF PpiIrq

\* World switches: each vCPU sees the registers it saw.
LEMMA SwitchKeeps ==
  ASSUME IInv, UNCHANGED <<mem, stray, twice, stack, distVars, physAct, lapsed>>, TypeOK',
         CopiesMarked', IdleFor', pc' = "idle" => ~Vmi',
         \A v \in VCPU : View(v)'.lr = View(v).lr,
         \A v \in VCPU : (IF v = exec THEN hw.np ELSE saved[v].np)
                           => (IF v = exec' THEN hw'.np ELSE saved'[v].np)
  PROVE  Kept
<1>1. Faithful' = Faithful
  BY DEF Faithful
<1>2. OnceEach' /\ SpiOwned' /\ Delivery
  BY <1>1, Quiet
<1>3. UnderflowArmed' /\ StrayStored'
  BY DEF IInv, UnderflowArmed, StrayStored
<1>4. NoIdleMaintenance'
  BY DEF NoIdleMaintenance
<1> QED  BY <1>2, <1>3, <1>4 DEF Kept, IInv

LEMMA SaveIs ==
  ASSUME TypeOK, CopiesMarked, NEW v \in VCPU, saved' = Save(v)
  PROVE  /\ saved' \in [VCPU -> [lr : [LR -> Reg], empty : SUBSET LR, apr : SUBSET Levels,
                                 np : BOOLEAN, eoi : BOOLEAN]]
         /\ saved'[v].lr = hw.lr /\ saved'[v].np = hw.np
         /\ \A u \in VCPU \ {v} : saved'[u] = saved[u]
         /\ CopiesMarked'
<1> DEFINE s == [lr |-> hw.lr, empty |-> Empty(hw.lr), apr |-> hw.apr,
                 np |-> hw.np, eoi |-> hw.eoi]
           Copy == [lr : [LR -> Reg], empty : SUBSET LR, apr : SUBSET Levels,
                    np : BOOLEAN, eoi : BOOLEAN]
<1>1. s \in Copy
  BY DEF TypeOK, Empty
<1>2. MarkedBy(s)
  BY Registers DEF TypeOK, Empty, MarkedBy
<1>3. s.lr = hw.lr /\ s.np = hw.np
  OBVIOUS
<1>4. saved' = [saved EXCEPT ![v] = s] /\ saved \in [VCPU -> Copy]
  BY DEF Save, TypeOK
<1> HIDE DEF s, Copy
<1>5. saved' \in [VCPU -> Copy] /\ saved'[v] = s /\ \A u \in VCPU \ {v} : saved'[u] = saved[u]
  BY <1>1, <1>4
<1>6. CopiesMarked'
  BY <1>2, <1>5 DEF CopiesMarked
<1> QED  BY <1>3, <1>5, <1>6 DEF Copy

LEMMA EnterKeeps ==
  ASSUME IInv, NEW v \in VCPU, Enter(v)
  PROVE  Kept
<1>1. TypeOK /\ CopiesMarked
  BY DEF IInv
<1>2. /\ v \in Awake \ {exec} /\ pc' = "guest" /\ exec' = v /\ last' = v
      /\ saved' = IF exec = NULL THEN saved ELSE Save(exec)
      /\ hw' = Restore(saved[v])
      /\ UNCHANGED <<asleep, off, mem, stray, twice, stack, distVars, physAct, lapsed>>
  BY DEF Enter
<1>3. exec # NULL => exec \in VCPU
  BY <1>1 DEF TypeOK
<1>4. /\ saved' \in [VCPU -> [lr : [LR -> Reg], empty : SUBSET LR, apr : SUBSET Levels,
                              np : BOOLEAN, eoi : BOOLEAN]]
      /\ CopiesMarked'
      /\ \A u \in VCPU \ {exec} : saved'[u] = saved[u]
      /\ exec # NULL => saved'[exec].lr = hw.lr /\ saved'[exec].np = hw.np
  <2>1. CASE exec = NULL
    BY <1>1, <1>2, <2>1 DEF TypeOK, CopiesMarked
  <2>2. CASE exec # NULL
    BY <1>1, <1>2, <1>3, <2>2, SaveIs
  <2> QED  BY <2>1, <2>2
<1>5. /\ hw' \in [lr : [LR -> Reg], apr : SUBSET Levels, np : BOOLEAN, eoi : BOOLEAN]
      /\ hw'.lr = saved[v].lr /\ hw'.np = saved[v].np
  BY <1>1, <1>2 DEF Restore, TypeOK
<1>6. TypeOK'
  BY <1>1, <1>2, <1>4, <1>5, Numbers DEF TypeOK, distVars, Awake
<1>7. ASSUME NEW u \in VCPU
      PROVE  /\ View(u)'.lr = View(u).lr
             /\ (IF u = exec' THEN hw'.np ELSE saved'[u].np)
                  = (IF u = exec THEN hw.np ELSE saved[u].np)
  <2>1. CASE u = v
    BY <1>2, <1>5, <2>1 DEF View
  <2>2. CASE u = exec
    BY <1>2, <1>4, <2>2, Numbers DEF View
  <2>3. CASE u # v /\ u # exec
    BY <1>2, <1>4, <2>3 DEF View
  <2> QED  BY <2>1, <2>2, <2>3
<1>8. IdleFor'
  BY <1>2 DEF IdleFor, IInv
<1> QED  BY <1>2, <1>4, <1>6, <1>7, <1>8, SwitchKeeps

LEMMA RunningIs ==
  ASSUME IInv, pc = "guest"
  PROVE  exec \in VCPU /\ last = exec /\ exec # NULL
BY DEF IInv, TypeOK, IdleFor

LEMMA SleepKeeps ==
  ASSUME IInv, Sleep
  PROVE  Kept
<1>1. TypeOK /\ CopiesMarked /\ exec \in VCPU /\ last = exec /\ exec # NULL /\ ~Vmi
  BY RunningIs DEF IInv, Sleep, Guest
<1>2. /\ saved' = Save(exec) /\ asleep' = asleep \cup {exec} /\ exec' = NULL
      /\ pc' = Rest(TRUE, Awake \ {exec})
      /\ UNCHANGED <<last, off, hw, mem, stray, twice, stack, distVars, physAct, lapsed>>
  BY DEF Sleep
<1>3. /\ saved' \in [VCPU -> [lr : [LR -> Reg], empty : SUBSET LR, apr : SUBSET Levels,
                              np : BOOLEAN, eoi : BOOLEAN]]
      /\ CopiesMarked'
      /\ \A u \in VCPU \ {exec} : saved'[u] = saved[u]
      /\ saved'[exec].lr = hw.lr /\ saved'[exec].np = hw.np
  BY <1>1, <1>2, SaveIs
<1>4. pc' \in {"idle", "sched"} /\ (pc' = "idle" => Awake \ {exec} = {})
  BY <1>2 DEF Rest
<1>5. TypeOK'
  <2>1. /\ pc' \in {"guest", "idle", "sched"} /\ (pc' = "guest" <=> exec' # NULL)
        /\ exec' \in VCPU \cup {NULL} /\ last' \in VCPU \cup {NULL}
    BY <1>1, <1>2, <1>4
  <2>2. exec \notin off /\ asleep \subseteq VCPU /\ off \subseteq VCPU
        /\ asleep \cap off = {} /\ NULL \notin VCPU
    BY <1>1, Numbers DEF TypeOK
  <2>3. /\ asleep' \subseteq VCPU /\ off' \subseteq VCPU /\ asleep' \cap off' = {}
        /\ exec' \notin asleep' \cup off'
    BY <1>1, <1>2, <2>2
  <2> QED  BY <1>1, <1>2, <1>3, <2>1, <2>3 DEF TypeOK, distVars
<1>6. ASSUME NEW u \in VCPU
      PROVE  /\ View(u)'.lr = View(u).lr
             /\ (IF u = exec' THEN hw'.np ELSE saved'[u].np)
                  = (IF u = exec THEN hw.np ELSE saved[u].np)
  BY <1>1, <1>2, <1>3, Numbers DEF View
<1>7. IdleFor'
  BY <1>1, <1>2, <1>4 DEF IdleFor, IInv, Awake
<1>8. ~Vmi'
  BY <1>1, <1>2 DEF Vmi, MisrNP, MisrLRENP
<1> QED  BY <1>2, <1>3, <1>5, <1>6, <1>7, <1>8, SwitchKeeps

LEMMA CpuOnKeeps ==
  ASSUME IInv, NEW v \in VCPU, CpuOn(v)
  PROVE  Kept
<1>1. /\ off' = off \ {v} /\ pc = "guest"
      /\ UNCHANGED <<pc, exec, last, asleep, coreVars, stack, distVars, physAct, lapsed>>
  BY DEF CpuOn, Guest
<1>2. TypeOK' /\ IdleFor' /\ NoIdleMaintenance'
  BY <1>1 DEF IInv, TypeOK, IdleFor, NoIdleMaintenance, coreVars, distVars
<1> QED  BY <1>1, <1>2, UncommittedKeeps

LEMMA CpuOffKeeps ==
  ASSUME IInv, CpuOff
  PROVE  Kept
<1>1. TypeOK /\ exec \in VCPU /\ last = exec /\ exec # NULL /\ stack[exec] = <<>> /\ ~Vmi
  BY RunningIs DEF IInv, CpuOff, Guest
<1>2. /\ off' = off \cup {exec} /\ exec' = NULL /\ lapsed' = lapsed \cup {exec}
      /\ UNCHANGED <<last, asleep, coreVars, stack, distVars, physAct>>
  BY DEF CpuOff
<1>3. pc' \in {"idle", "sched"} /\ (pc' = "idle" => last' \in off')
  BY <1>1, <1>2 DEF CpuOff, Rest
<1>4. TypeOK'
  <2>1. /\ pc' \in {"guest", "idle", "sched"} /\ (pc' = "guest" <=> exec' # NULL)
        /\ exec' \in VCPU \cup {NULL} /\ last' \in VCPU \cup {NULL}
    BY <1>1, <1>2, <1>3
  <2>2. exec \notin asleep /\ asleep \subseteq VCPU /\ off \subseteq VCPU
        /\ asleep \cap off = {} /\ NULL \notin VCPU /\ lapsed \subseteq VCPU
    BY <1>1, Numbers DEF TypeOK
  <2>3. /\ asleep' \subseteq VCPU /\ off' \subseteq VCPU /\ asleep' \cap off' = {}
        /\ exec' \notin asleep' \cup off' /\ lapsed' \subseteq VCPU
    BY <1>1, <1>2, <2>2
  <2> QED  BY <1>1, <1>2, <2>1, <2>3 DEF TypeOK, distVars, coreVars
<1>5. Faithful' = Faithful \ {exec}
  BY <1>2 DEF Faithful, coreVars
<1>6. \A v \in VCPU \ {exec} : /\ v # exec' /\ View(v)'.lr = View(v).lr /\ mem'[v] = mem[v]
                               /\ Held(v)' = Held(v)
  <2>1. \A v \in VCPU \ {exec} : v # exec' /\ View(v)'.lr = View(v).lr /\ mem'[v] = mem[v]
    BY <1>2, Numbers DEF View, coreVars
  <2> QED  BY <2>1 DEF Held
<1>7. OnceEach' /\ CopiesMarked' /\ UnderflowArmed' /\ StrayStored'
  <2>1. OnceEach'
    BY <1>5, <1>6 DEF IInv, OnceEach, Faithful
  <2>2. CopiesMarked' /\ StrayStored'
    BY <1>2 DEF IInv, CopiesMarked, MarkedBy, StrayStored, coreVars
  <2>3. UnderflowArmed'
    BY <1>2, <1>6 DEF IInv, UnderflowArmed, coreVars
  <2> QED  BY <2>1, <2>2, <2>3
<1>8. IdleFor' /\ NoIdleMaintenance' /\ SpiOwned'
  BY <1>1, <1>2, <1>3, <1>5 DEF IInv, IdleFor, NoIdleMaintenance, SpiOwned
<1>9. \A v \in Faithful \ {exec} : SameFor(v)
  BY <1>2, <1>6 DEF SameFor, Irqs, Faithful
<1>10. Delivery
  <2>1. CASE exec \in Faithful
    BY <1>1, <1>2, <1>5, <1>9, <2>1, CeaseIs
  <2>2. CASE exec \notin Faithful
    <3>1. Faithful' = Faithful /\ Faithful \ {exec} = Faithful
      BY <1>5, <2>2
    <3> QED  BY <1>9, <3>1, StutterIs
  <2> QED  BY <2>1, <2>2
<1> QED  BY <1>4, <1>7, <1>8, <1>10 DEF Kept, IInv

\* The enables decide what is injected, never what is held.
LEMMA WriteKeeps ==
  ASSUME IInv, (\E b \in BOOLEAN : WriteCtrl(b))
               \/ (\E i \in Written : WriteIsenabler(i) \/ WriteIcenabler(i))
  PROVE  Kept
<1>1. UNCHANGED <<cpuVars, coreVars, stack, physAct, lapsed>>
  BY DEF WriteCtrl, WriteIsenabler, WriteIcenabler
<1>2. /\ ctl \in BOOLEAN /\ en \in [VCPU -> SUBSET (Sgi \cup Ppi)] /\ spiEn \subseteq Spi
      /\ useIrq \subseteq Ppi \cup Spi /\ physEn \subseteq Ppi \cup Spi
      /\ Written \subseteq Ppi \cup Spi
  BY Numbers DEF IInv, TypeOK
<1>3. /\ ctl' \in BOOLEAN /\ en' \in [VCPU -> SUBSET (Sgi \cup Ppi)] /\ spiEn' \subseteq Spi
      /\ useIrq' \subseteq Ppi \cup Spi /\ physEn' \subseteq Ppi \cup Spi
  <2>1. ASSUME NEW b \in BOOLEAN, WriteCtrl(b)
        PROVE  /\ ctl' \in BOOLEAN /\ en' = en /\ spiEn' = spiEn /\ useIrq' = useIrq
               /\ physEn' \subseteq Ppi \cup Spi
    BY <1>2, <2>1 DEF WriteCtrl
  <2>2. ASSUME NEW i \in Written, WriteIsenabler(i)
        PROVE  /\ ctl' = ctl /\ en' \in [VCPU -> SUBSET (Sgi \cup Ppi)]
               /\ spiEn' \subseteq Spi
               /\ useIrq' \subseteq Ppi \cup Spi /\ physEn' \subseteq Ppi \cup Spi
    BY <1>2, <2>2 DEF WriteIsenabler, Physical
  <2>3. ASSUME NEW i \in Written, WriteIcenabler(i)
        PROVE  /\ ctl' = ctl /\ en' \in [VCPU -> SUBSET (Sgi \cup Ppi)]
               /\ spiEn' \subseteq Spi
               /\ useIrq' \subseteq Ppi \cup Spi /\ physEn' \subseteq Ppi \cup Spi
    BY <1>2, <2>3 DEF WriteIcenabler, Physical
  <2> QED  BY <1>2, <2>1, <2>2, <2>3
<1>4. TypeOK' /\ IdleFor'
  BY <1>1, <1>3 DEF IInv, TypeOK, IdleFor, Awake, cpuVars, coreVars
<1>5. NoIdleMaintenance'
  BY <1>1 DEF IInv, NoIdleMaintenance, Vmi, MisrNP, MisrLRENP, cpuVars, coreVars
<1> QED  BY <1>1, <1>4, <1>5, UncommittedKeeps DEF cpuVars

\* A step of the executing vCPU that writes its list registers only.
LEMMA GuestKeeps ==
  ASSUME IInv, pc = "guest", NEW e \in VCPU, e = exec,
         UNCHANGED <<cpuVars, saved, mem, stray, twice, distVars, lapsed>>,
         physAct' \subseteq physAct,
         hw' \in [lr : [LR -> Reg], apr : SUBSET Levels, np : BOOLEAN, eoi : BOOLEAN],
         stack' \in [VCPU -> Seq(IRQ)], hw'.np = hw.np,
         \A v \in VCPU \ {e} : stack'[v] = stack[v],
         e \in Faithful => Distinct(hw'.lr, mem[e])
  PROVE  /\ SpiOwned' /\ Delivery => Kept
         /\ Faithful' = Faithful
         /\ Held(e) = Contents(hw.lr, mem[e]) /\ Held(e)' = Contents(hw'.lr, mem[e])
         /\ \A v \in VCPU \ {e} : Held(v)' = Held(v)
         /\ e \notin Faithful => Kept
<1>1. TypeOK /\ Faithful' = Faithful /\ \A v \in Faithful : v \in VCPU
  BY DEF IInv, Faithful
<1>2. TypeOK'
  BY <1>1 DEF TypeOK, cpuVars, distVars
<1>3. /\ CopiesMarked' /\ UnderflowArmed' /\ StrayStored'
      /\ IdleFor' /\ NoIdleMaintenance'
  <2>1. CopiesMarked' /\ StrayStored' /\ IdleFor' /\ NoIdleMaintenance'
    BY DEF IInv, CopiesMarked, MarkedBy, StrayStored, IdleFor, Awake, NoIdleMaintenance, cpuVars
  <2>2. UnderflowArmed'
    BY DEF IInv, UnderflowArmed, cpuVars
  <2> QED  BY <2>1, <2>2
<1>4. \A v \in VCPU : /\ mem'[v] = mem[v]
                      /\ View(v).lr = (IF v = e THEN hw.lr ELSE saved[v].lr)
                      /\ View(v)'.lr = (IF v = e THEN hw'.lr ELSE saved[v].lr)
  BY DEF View, cpuVars
<1>5. OnceEach'
  <2>1. \A v \in Faithful : Distinct(View(v)'.lr, mem'[v])
    BY <1>1, <1>4 DEF IInv, OnceEach
  <2> QED  BY <1>1, <2>1 DEF OnceEach
<1>6. \A v \in VCPU : /\ Held(v) = Contents(View(v).lr, mem[v])
                      /\ Held(v)' = Contents(View(v)'.lr, mem'[v])
  BY DEF Held, Contents
<1>7. \A v \in VCPU \ {e} : Held(v)' = Held(v)
  BY <1>4, <1>6
<1>8. SpiOwned' /\ Delivery => Kept
  BY <1>2, <1>3, <1>5 DEF Kept, IInv
<1>9. e \notin Faithful => Kept
  BY <1>1, <1>7, <1>8, Unseen
<1> QED  BY <1>1, <1>4, <1>6, <1>7, <1>8, <1>9

\* Register i is overwritten by z, a new state of the same interrupt, or by Blank.
LEMMA Overwritten ==
  ASSUME NEW lr \in [LR -> Reg], NEW m \in SUBSET Interrupt, Distinct(lr, m),
         NEW i \in LR, NEW y, y = lr[i], y # Blank,
         NEW z \in Reg, z # Blank => z.irq = y.irq,
         NEW lr1 \in [LR -> Reg], lr1[i] = z, \A j \in LR : j # i => lr1[j] = lr[j]
  PROVE  /\ Distinct(lr1, m)
         /\ y \in Contents(lr, m)
         /\ \A w \in Contents(lr, m) : w.irq = y.irq => w = y
         /\ Contents(lr1, m) = (Contents(lr, m) \ {y}) \cup ({z} \ {Blank})
<1>1. \A j \in LR : lr[j] # Blank /\ lr[j].irq = y.irq => j = i
  BY DEF Distinct
<1>2. \A w \in m : w.irq # y.irq
  BY DEF Distinct
<1>3. Distinct(lr1, m)
  BY <1>1, <1>2 DEF Distinct
<1>4. y \in Interrupt /\ y \in Contents(lr, m)
  BY InContents, Registers
<1>5. ASSUME NEW w \in Contents(lr, m), w.irq = y.irq
      PROVE  w = y
  <2>1. w \notin m /\ w \in Interrupt /\ \E j \in LR : lr[j] = w
    BY <1>2, <1>5, InContents
  <2> QED  BY <1>1, <1>5, <2>1, Registers
<1>6. \A w : w \in Contents(lr1, m) <=> w \in (Contents(lr, m) \ {y}) \cup ({z} \ {Blank})
  <2>1. y \notin m /\ \A j \in LR : lr[j] = y => j = i
    BY <1>1, <1>2
  <2>2. z = Blank <=> z \notin Interrupt
    BY Registers
  <2>3. \A w : w \in Contents(lr1, m)
                 <=> w \in m \/ (w \in Interrupt /\ \E j \in LR : lr1[j] = w)
    BY InContents
  <2>4. \A w : w \in Contents(lr, m)
                 <=> w \in m \/ (w \in Interrupt /\ \E j \in LR : lr[j] = w)
    BY InContents
  <2>5. ASSUME NEW w
        PROVE  (w \in Interrupt /\ \E j \in LR : lr1[j] = w)
                 <=> \/ w = z /\ z # Blank
                     \/ w \in Interrupt /\ \E j \in LR : j # i /\ lr[j] = w
    BY <2>2
  <2> QED  BY <2>1, <2>3, <2>4, <2>5
<1> QED  BY <1>3, <1>4, <1>5, <1>6

\* The guest takes an interrupt: pending becomes active, in the same register.
LEMMA AckKeeps ==
  ASSUME IInv, Ack
  PROVE  Kept
<1>1. PICK e \in VCPU : e = exec
  BY RunningIs DEF Ack, Guest
<1>2. PICK i \in LR :
        /\ hw.lr[i].st = "pend"
        /\ hw' = [hw EXCEPT !.lr[i].st = "act", !.apr = @ \cup {hw.lr[i].pri}]
        /\ stack' = [stack EXCEPT ![exec] = Append(@, hw.lr[i].irq)]
  BY DEF Ack, Signalled
<1>3. /\ UNCHANGED <<cpuVars, saved, mem, stray, twice, distVars, physAct, lapsed>>
      /\ pc = "guest" /\ TypeOK
  BY DEF Ack, Guest, IInv
<1> DEFINE y == hw.lr[i]
           z == [y EXCEPT !.st = "act"]
<1>4. y \in Interrupt /\ y # Blank /\ y.st = "pend" /\ hw.lr \in [LR -> Reg]
  <2>1. hw.lr \in [LR -> Reg]
    BY <1>3 DEF TypeOK
  <2>2. y \in Reg /\ y.st = "pend"
    BY <1>2, <2>1
  <2> QED  BY <2>1, <2>2, Registers
<1>5. /\ z \in Interrupt /\ z.irq = y.irq /\ z.hw = y.hw /\ z.st = "act"
      /\ y.irq \in IRQ /\ y.pri \in Levels
  BY <1>4 DEF Interrupt
<1>6. /\ hw' = [hw EXCEPT !.lr = [hw.lr EXCEPT ![i] = z], !.apr = hw.apr \cup {y.pri}]
      /\ hw \in [lr : [LR -> Reg], apr : SUBSET Levels, np : BOOLEAN, eoi : BOOLEAN]
  BY <1>2, <1>3 DEF TypeOK
<1>7. z \in Reg /\ z # Blank
  BY <1>5, Registers
<1>8. y = hw.lr[i]
  OBVIOUS
<1>9. /\ stack' \in [VCPU -> Seq(IRQ)] /\ stack'[e] = Append(stack[e], y.irq)
      /\ \A v \in VCPU \ {e} : stack'[v] = stack[v]
  <2>1. stack' = [stack EXCEPT ![e] = Append(stack[e], y.irq)]
        /\ stack \in [VCPU -> Seq(IRQ)]
    BY <1>1, <1>2, <1>3 DEF TypeOK
  <2>2. Append(stack[e], y.irq) \in Seq(IRQ)
    BY <1>5, <2>1
  <2> QED  BY <2>1, <2>2
<1> HIDE DEF y, z
<1>10. /\ hw'.lr = [hw.lr EXCEPT ![i] = z]
       /\ hw' \in [lr : [LR -> Reg], apr : SUBSET Levels, np : BOOLEAN, eoi : BOOLEAN]
       /\ hw'.np = hw.np
  BY <1>4, <1>5, <1>6, <1>7
<1>11. /\ hw'.lr \in [LR -> Reg] /\ hw'.lr[i] = z
       /\ \A j \in LR : j # i => hw'.lr[j] = hw.lr[j]
  BY <1>4, <1>7, <1>10
<1>12. mem[e] \in SUBSET Interrupt /\ (e \in Faithful => Distinct(hw.lr, mem[e]))
  BY <1>1, <1>3 DEF TypeOK, IInv, OnceEach, View
<1> DEFINE C  == Contents(hw.lr, mem[e])
           C1 == Contents(hw'.lr, mem[e])
<1>13. ASSUME e \in Faithful
       PROVE  /\ Distinct(hw'.lr, mem[e])
              /\ y \in C /\ (\A w \in C : w.irq = y.irq => w = y)
              /\ C1 = (C \ {y}) \cup ({z} \ {Blank})
  <2>1. Distinct(hw.lr, mem[e])
    BY <1>12, <1>13
  <2> QED  BY <1>4, <1>5, <1>7, <1>8, <1>11, <1>12, <2>1, Overwritten
<1>14. physAct' \subseteq physAct
  BY <1>3
<1>15. /\ SpiOwned' /\ Delivery => Kept
       /\ Faithful' = Faithful
       /\ Held(e) = C /\ Held(e)' = C1
       /\ \A v \in VCPU \ {e} : Held(v)' = Held(v)
       /\ e \notin Faithful => Kept
  BY <1>1, <1>3, <1>9, <1>10, <1>13, <1>14, GuestKeeps
<1> SUFFICES ASSUME e \in Faithful PROVE Kept
  BY <1>15
<1>16. C1 = (C \ {y}) \cup {z} /\ y \in C /\ (\A w \in C : w.irq = y.irq => w = y)
  BY <1>7, <1>13
<1> HIDE DEF C, C1
<1>17. SpiOwned'
  <2>1. \A p : (\E x \in C1 : x.irq = p /\ x.hw) <=> (\E x \in C : x.irq = p /\ x.hw)
    BY <1>5, <1>16
  <2>2. \A v \in VCPU, p \in Spi : HoldsHw(v, p)' <=> HoldsHw(v, p)
    BY <1>15, <2>1 DEF HoldsHw
  <2> QED  BY <1>3, <1>15, <2>2 DEF IInv, SpiOwned
<1>18. /\ Irqs(e, "pend")' = Irqs(e, "pend") \ {y.irq}
       /\ Irqs(e, "act")' = Irqs(e, "act") \cup {y.irq}
       /\ y.irq \in Irqs(e, "pend")
  BY <1>4, <1>5, <1>15, <1>16 DEF Irqs
<1>19. \A v \in Faithful \ {e} : SameFor(v)
  BY <1>9, <1>15 DEF Irqs, SameFor, Faithful
<1>20. Changes(e, Irqs(e, "pend") \ {y.irq}, Irqs(e, "act") \cup {y.irq},
               Append(stack[e], y.irq))
  BY <1>9, <1>15, <1>18, <1>19 DEF Changes
<1>21. Delivery
  BY <1>5, <1>18, <1>20, TakeIs
<1> QED  BY <1>15, <1>17, <1>21

\* The guest ends one: the register that has it, if one has, is emptied.
LEMMA EoiKeeps ==
  ASSUME IInv, Eoi
  PROVE  Kept
<1>1. PICK e \in VCPU : e = exec
  BY RunningIs DEF Eoi, Guest
<1> DEFINE n    == Last(stack[exec])
           held == {i \in LR : hw.lr[i].st = "act" /\ hw.lr[i].irq = n}
<1>2. /\ stack' = [stack EXCEPT ![exec] = Front(@)] /\ stack[exec] # <<>>
      /\ hw' = [hw EXCEPT !.lr  = [i \in LR |-> IF i \in held THEN Blank ELSE hw.lr[i]],
                          !.apr = Drop(hw.apr),
                          !.eoi = hw.eoi \/ held = {}]
      /\ physAct' = physAct \ {hw.lr[i].irq : i \in {j \in held : hw.lr[j].hw}}
  BY DEF Eoi
<1>3. /\ UNCHANGED <<cpuVars, saved, mem, stray, twice, distVars, lapsed>>
      /\ pc = "guest" /\ TypeOK
  BY DEF Eoi, Guest, IInv
<1>4. /\ stack' \in [VCPU -> Seq(IRQ)] /\ stack'[e] = Front(stack[e])
      /\ \A v \in VCPU \ {e} : stack'[v] = stack[v]
  <2>1. stack \in [VCPU -> Seq(IRQ)] /\ stack[e] # <<>>
    BY <1>1, <1>2, <1>3 DEF TypeOK
  <2>2. Front(stack[e]) \in Seq(IRQ)
    <3>1. stack[e] \in Seq(IRQ) /\ Len(stack[e]) \in Nat
          /\ \A i \in 1 .. Len(stack[e]) - 1 : stack[e][i] \in IRQ
      BY <2>1, LenProperties, ElementOfSeq
    <3> QED  BY <3>1, SubSeqProperties DEF Front
  <2> QED  BY <1>1, <1>2, <2>1, <2>2
<1>5. hw \in [lr : [LR -> Reg], apr : SUBSET Levels, np : BOOLEAN, eoi : BOOLEAN]
  BY <1>3 DEF TypeOK
<1>6. held \subseteq LR /\ \A i \in held : hw.lr[i].st = "act" /\ hw.lr[i].irq = n
  OBVIOUS
<1> HIDE DEF held, n
<1>7. /\ hw'.lr = [i \in LR |-> IF i \in held THEN Blank ELSE hw.lr[i]]
      /\ hw' \in [lr : [LR -> Reg], apr : SUBSET Levels, np : BOOLEAN, eoi : BOOLEAN]
      /\ hw'.np = hw.np
  <2> DEFINE lr == [i \in LR |-> IF i \in held THEN Blank ELSE hw.lr[i]]
  <2>1. lr \in [LR -> Reg]
    BY <1>5, Registers
  <2>2. Drop(hw.apr) \in SUBSET Levels
    BY <1>5 DEF Drop
  <2>3. (hw.eoi \/ held = {}) \in BOOLEAN
    OBVIOUS
  <2>4. hw' = [hw EXCEPT !.lr  = lr, !.apr = Drop(hw.apr), !.eoi = hw.eoi \/ held = {}]
    BY <1>2
  <2> HIDE DEF lr
  <2>5. hw'.lr = lr /\ hw'.np = hw.np
        /\ hw' \in [lr : [LR -> Reg], apr : SUBSET Levels, np : BOOLEAN, eoi : BOOLEAN]
    BY <1>5, <2>1, <2>2, <2>3, <2>4
  <2> QED  BY <2>5 DEF lr
<1>8. mem[e] \in SUBSET Interrupt /\ hw.lr \in [LR -> Reg]
      /\ (e \in Faithful => Distinct(hw.lr, mem[e]))
  BY <1>1, <1>3 DEF TypeOK, IInv, OnceEach, View
<1> DEFINE C  == Contents(hw.lr, mem[e])
           C1 == Contents(hw'.lr, mem[e])
<1>9. physAct' \subseteq physAct
  BY <1>2
<1>10. e \in Faithful => Distinct(hw'.lr, mem[e])
  <2>1. \A i \in LR : hw'.lr[i] # Blank => hw'.lr[i] = hw.lr[i]
    BY <1>7
  <2> QED  BY <1>8, <2>1 DEF Distinct
<1>11. /\ SpiOwned' /\ Delivery => Kept
       /\ Faithful' = Faithful
       /\ Held(e) = C /\ Held(e)' = C1
       /\ \A v \in VCPU \ {e} : Held(v)' = Held(v)
       /\ e \notin Faithful => Kept
  BY <1>1, <1>3, <1>4, <1>7, <1>9, <1>10, GuestKeeps
<1> SUFFICES ASSUME e \in Faithful PROVE Kept
  BY <1>11
<1>12. \A v \in Faithful \ {e} : SameFor(v)
  BY <1>4, <1>11 DEF Irqs, SameFor, Faithful
<1>13. Distinct(hw.lr, mem[e])
  BY <1>8
<1>14. stack[e] # <<>> /\ n = Last(stack[e])
  BY <1>1, <1>2 DEF n
<1>15. CASE held = {}
  <2>1. hw'.lr = hw.lr /\ physAct' = physAct
    BY <1>2, <1>7, <1>8, <1>15
  <2>2. Held(e)' = Held(e) /\ \A v \in VCPU : Held(v)' = Held(v)
    BY <1>11, <2>1
  <2>3. SpiOwned'
    BY <1>11, <2>1, <2>2 DEF IInv, SpiOwned, HoldsHw
  <2>4. Changes(e, Irqs(e, "pend"), Irqs(e, "act"), Front(stack[e]))
    BY <1>4, <1>11, <1>12, <2>2 DEF Changes, Irqs
  <2>5. Delivery
    BY <1>14, <2>4, FinishIs
  <2> QED  BY <1>11, <2>3, <2>5
<1>16. CASE held # {}
  <2>1. PICK i \in held : TRUE
    BY <1>16
  <2> DEFINE y == hw.lr[i]
  <2>2. y \in Interrupt /\ y # Blank /\ y.st = "act" /\ y.irq = n /\ y.irq \in IRQ
    <3>1. y \in Reg /\ y.st = "act" /\ y.irq = n
      BY <1>6, <1>8, <2>1
    <3> QED  BY <3>1, Registers
  <2>3. held = {i}
    <3>1. \A j \in held : hw.lr[j] # Blank /\ hw.lr[j].irq = n /\ j \in LR
      BY <1>6, <1>8, Registers
    <3>2. \A j \in held : j = i
      BY <1>13, <2>1, <3>1 DEF Distinct
    <3> QED  BY <2>1, <3>2
  <2>4. physAct' = IF y.hw THEN physAct \ {y.irq} ELSE physAct
    BY <1>2, <2>3
  <2>5. y = hw.lr[i] /\ i \in LR
    BY <1>6, <2>1
  <2> HIDE DEF y
  <2>6. /\ hw'.lr \in [LR -> Reg] /\ hw'.lr[i] = Blank /\ Blank \in Reg
        /\ \A j \in LR : j # i => hw'.lr[j] = hw.lr[j]
    BY <1>7, <2>3, <2>5, Registers
  <2>7. y \in C /\ (\A w \in C : w.irq = y.irq => w = y)
        /\ C1 = (C \ {y}) \cup ({Blank} \ {Blank})
    BY <1>8, <1>13, <2>2, <2>5, <2>6, Overwritten
  <2>8. C1 = C \ {y}
    BY <2>7
  <2> HIDE DEF C, C1
  <2>10. ASSUME Faithful = VCPU
         PROVE  \A p \in Spi :
                  /\ p \in physAct' => \E w \in VCPU : HoldsHw(w, p)'
                  /\ \A w \in VCPU : HoldsHw(w, p)' => p \in physAct'
                  /\ \A u, w \in VCPU : HoldsHw(u, p)' /\ HoldsHw(w, p)' => u = w
    <3>1. \A p \in Spi :
            /\ p \in physAct => \E w \in VCPU : HoldsHw(w, p)
            /\ \A w \in VCPU : HoldsHw(w, p) => p \in physAct
            /\ \A u, w \in VCPU : HoldsHw(u, p) /\ HoldsHw(w, p) => u = w
      BY <2>10 DEF IInv, SpiOwned
    <3>2. \A w \in VCPU \ {e}, p \in Spi : HoldsHw(w, p)' <=> HoldsHw(w, p)
      BY <1>11 DEF HoldsHw
    <3>3. \A p \in Spi : HoldsHw(e, p)' <=> HoldsHw(e, p) /\ ~(y.irq = p /\ y.hw)
      BY <1>11, <2>7, <2>8 DEF HoldsHw
    <3>4. \A p \in Spi : y.irq = p /\ y.hw => HoldsHw(e, p)
      BY <1>11, <2>7 DEF HoldsHw
    <3>5. \A w \in VCPU, p \in Spi :
            HoldsHw(w, p)' <=> HoldsHw(w, p) /\ ~(y.irq = p /\ y.hw)
      <4> SUFFICES ASSUME NEW w \in VCPU, NEW p \in Spi
                   PROVE  HoldsHw(w, p)' <=> HoldsHw(w, p) /\ ~(y.irq = p /\ y.hw)
        OBVIOUS
      <4>1. CASE w = e
        BY <3>3, <4>1
      <4>2. CASE w # e
        BY <3>1, <3>2, <3>4, <4>2
      <4> QED  BY <4>1, <4>2
    <3>6. \A p \in Spi : p \in physAct' <=> p \in physAct /\ ~(y.irq = p /\ y.hw)
      BY <2>4
    <3> QED  BY <3>1, <3>5, <3>6
  <2>11. SpiOwned'
    BY <1>11, <2>10 DEF SpiOwned
  <2>12. /\ Irqs(e, "pend")' = Irqs(e, "pend")
         /\ Irqs(e, "act")' = Irqs(e, "act") \ {n}
    BY <1>11, <2>2, <2>7, <2>8 DEF Irqs
  <2>13. Changes(e, Irqs(e, "pend"), Irqs(e, "act") \ {n}, Front(stack[e]))
    BY <1>4, <1>11, <1>12, <2>12 DEF Changes
  <2>14. Delivery
    BY <1>14, <2>13, FinishIs
  <2> QED  BY <1>11, <2>11, <2>14
<1> QED  BY <1>15, <1>16

\* The interrupts are finitely many, so one of those stored is the best.
LEMMA Finitely ==
  IsFiniteSet(IRQ) /\ IRQ \subseteq Nat
<1>1. SGI_ID_MAX \in Nat /\ Sgi \subseteq 0 .. SGI_ID_MAX - 1 /\ IsFiniteSet(Ppi \cup Spi)
  BY GicAssumption
<1>2. IsFiniteSet(0 .. SGI_ID_MAX - 1)
  BY <1>1, FS_Interval
<1>3. IsFiniteSet(Sgi)
  BY <1>1, <1>2, FS_Subset
<1>4. IRQ = Sgi \cup (Ppi \cup Spi)
  BY DEF IRQ
<1>5. IsFiniteSet(IRQ)
  BY <1>1, <1>3, <1>4, FS_Union
<1>6. Sgi \subseteq Nat
  BY <1>1
<1> QED  BY <1>5, <1>6, Numbers

LEMMA BestIn ==
  ASSUME NEW m \in SUBSET Interrupt, m # {}
  PROVE  Best(m) \in m
<1> DEFINE top  == {x \in m : \A y \in m : x.pri <= y.pri}
           pend == {x \in top : x.st = "pend"}
<1>1. \A x \in m : x.pri \in Nat /\ x.irq \in IRQ /\ x.irq \in Nat
  BY Registers, Finitely
<1>2. top # {}
  <2> DEFINE P == {x.pri : x \in m}
  <2>1. P \in SUBSET Nat /\ P # {}
    BY <1>1
  <2>2. PICK l \in P : \A k \in P : l <= k
    BY <2>1, Least
  <2> QED  BY <2>2
<1>3. pend # {} => \E x \in pend : \A y \in pend : x.irq <= y.irq
  <2>1. SUFFICES ASSUME pend # {} PROVE \E x \in pend : \A y \in pend : x.irq <= y.irq
    OBVIOUS
  <2> DEFINE N == {x.irq : x \in pend}
  <2>2. N \in SUBSET Nat /\ N # {}
    BY <1>1, <2>1
  <2>3. PICK l \in N : \A k \in N : l <= k
    BY <2>2, Least
  <2> QED  BY <2>3
<1>4. \E x \in top : \A y \in top : x.irq >= y.irq
  <2> DEFINE N == {x.irq : x \in top}
  <2>1. N \in SUBSET Nat /\ N # {} /\ N \in SUBSET IRQ
    BY <1>1, <1>2
  <2>2. IsFiniteSet(N)
    BY <2>1, Finitely, FS_Subset
  <2>3. PICK l \in N : \A k \in N : k <= l
    BY <2>1, <2>2, Greatest
  <2>4. PICK x \in top : x.irq = l
    OBVIOUS
  <2>5. \A y \in top : y.irq \in N /\ y.irq \in Nat
    BY <1>1
  <2> HIDE DEF N
  <2>6. \A y \in top : x.irq >= y.irq
    BY <2>3, <2>4, <2>5
  <2> QED  BY <2>6
<1>5. Best(m) = IF pend # {} THEN CHOOSE x \in pend : \A y \in pend : x.irq <= y.irq
                ELSE CHOOSE x \in top : \A y \in top : x.irq >= y.irq
  BY DEF Best
<1>6. top \subseteq m /\ pend \subseteq m
  OBVIOUS
<1> HIDE DEF top, pend
<1>7. pend # {} => (CHOOSE x \in pend : \A y \in pend : x.irq <= y.irq) \in pend
  BY <1>3
<1>8. (CHOOSE x \in top : \A y \in top : x.irq >= y.irq) \in top
  BY <1>4
<1> QED  BY <1>5, <1>6, <1>7, <1>8

\* The maintenance interrupt moves the best stored interrupt to the registers,
\* from which a worse one may return to the store; nothing is lost on the way.
LEMMA RefillKeeps ==
  ASSUME IInv, pc = "guest", mem[exec] # {}, Refill(exec),
         UNCHANGED <<cpuVars, stack, distVars, physAct, lapsed>>
  PROVE  Kept
<1>1. PICK e \in VCPU : e = exec
  BY RunningIs
<1> DEFINE x == Best(mem[e])
           m == mem[e] \ {x}
           y == SetLr(e, m, x)
           r == [u \in {e} |-> y]
<1>2. TypeOK /\ CopiesMarked /\ Commit({e}, r)
  BY <1>1 DEF IInv, Refill
<1>3. /\ ViewOK(View(e)) /\ View(e).lr = hw.lr /\ View(e).empty = Empty(hw.lr)
      /\ mem[e] \in SUBSET Interrupt /\ hw.lr \in [LR -> Reg]
      /\ (e \in Faithful => Distinct(View(e).lr, mem[e]))
  BY <1>1, <1>2, ViewsOK DEF View, TypeOK, IInv, OnceEach
<1>4. x \in mem[e]
  BY <1>1, <1>3, BestIn
<1> HIDE DEF x
<1>5. m \in SUBSET Interrupt /\ x \in Interrupt /\ m \cup {x} = mem[e] /\ m \subseteq mem[e]
  BY <1>3, <1>4
<1>6. ASSUME e \in Faithful
      PROVE  Distinct(View(e).lr, m) /\ Fresh(View(e).lr, m, x)
  <2>0. Distinct(View(e).lr, mem[e])
    BY <1>3, <1>6
  <2>1. \A z \in m : z.irq # x.irq
    BY <1>3, <1>4, <2>0 DEF Distinct
  <2>2. \A i \in LR : hw.lr[i] # Blank => hw.lr[i].irq # x.irq
    BY <1>3, <1>4, <2>0 DEF Distinct
  <2>3. Fresh(hw.lr, m, x)
    <3> SUFFICES ASSUME NEW z \in Contents(hw.lr, m) PROVE z.irq # x.irq
      BY DEF Fresh
    <3>1. m \in SUBSET Interrupt
      BY <1>5
    <3> HIDE DEF m
    <3>2. z \in m \/ (z \in Interrupt /\ \E i \in LR : hw.lr[i] = z)
      BY <1>3, <3>1, InContents
    <3> QED  BY <2>1, <2>2, <3>2, Registers
  <2>4. Distinct(View(e).lr, m)
    BY <2>0 DEF Distinct
  <2> QED  BY <1>3, <2>3, <2>4
<1> HIDE DEF m
<1>7. ASSUME e \in Faithful PROVE y.ok
  <2>1. \A i \in LR \ View(e).empty : View(e).lr[i] # Blank
    BY <1>3, Registers DEF Empty
  <2> QED  BY <1>3, <1>5, <1>6, <1>7, <2>1, SetLrAccepts
<1>8. ASSUME e \in Faithful PROVE SameSource(View(e).lr, m, x)
  BY <1>6, <1>8 DEF Fresh, SameSource
<1>9. ASSUME e \in Faithful
      PROVE  /\ Distinct(y.lr, y.mem) /\ ~y.again
             /\ Contents(y.lr, y.mem) = Contents(View(e).lr, m) \cup {x}
  <2>1. /\ Distinct(View(e).lr, m) /\ Fresh(View(e).lr, m, x) /\ y.ok
        /\ SameSource(View(e).lr, m, x)
    BY <1>6, <1>7, <1>8, <1>9
  <2>2. ~y.again
    <3>1. y.again => \E z \in Contents(View(e).lr, m) : z.irq = x.irq
      BY <1>3, <1>5, <2>1, SetLrKeeps
    <3>2. y.again \in BOOLEAN
      BY <1>3, <1>5, SetLrTyped DEF Result
    <3> QED  BY <2>1, <3>1, <3>2 DEF Fresh
  <2> QED  BY <1>3, <1>5, <2>1, <2>2, SetLrKeeps
<1>10. Result(View(e).lr, m, y)
  BY <1>3, <1>5, SetLrTyped
<1> HIDE DEF y
<1>11. \A v \in {e} : r[v] = y
  OBVIOUS
<1> HIDE DEF r
<1>12. Results({e}, r)
  BY <1>5, <1>10, <1>11 DEF Result, Results
<1>13. /\ exec' = exec /\ lapsed' = lapsed /\ pc' = pc /\ off' = off /\ {e} \in SUBSET VCPU
       /\ UNCHANGED <<cpuVars, stack, distVars, physAct, lapsed>>
  BY DEF cpuVars
<1>14. TypeOK'
  <2>1. /\ hw' \in [lr : [LR -> Reg], apr : SUBSET Levels, np : BOOLEAN, eoi : BOOLEAN]
        /\ saved' \in [VCPU -> [lr : [LR -> Reg], empty : SUBSET LR, apr : SUBSET Levels,
                                np : BOOLEAN, eoi : BOOLEAN]]
        /\ mem' \in [VCPU -> SUBSET Interrupt]
        /\ stray' \subseteq VCPU /\ twice' \subseteq VCPU
    BY <1>2, <1>12, <1>13, CommitTyped
  <2> QED  BY <1>2, <1>13, <2>1 DEF TypeOK, cpuVars, distVars
<1>15. CopiesMarked'
  BY <1>2, <1>12, <1>13, CommitMarks
<1>16. UnderflowArmed' /\ StrayStored'
  BY <1>2, <1>12, <1>13, CommitArms DEF IInv
<1>17. IdleFor' /\ NoIdleMaintenance'
  BY <1>13 DEF IInv, IdleFor, NoIdleMaintenance, Awake, cpuVars
<1>18. \A v \in VCPU :
         /\ View(v)'.lr = IF v \in {e} THEN r[v].lr ELSE View(v).lr
         /\ mem'[v] = IF v \in {e} THEN r[v].mem ELSE mem[v]
  <2>1. TypeOK /\ Commit({e}, r) /\ Results({e}, r) /\ exec' = exec /\ {e} \in SUBSET VCPU
    BY <1>2, <1>12, <1>13
  <2> QED  BY ONLY <2>1, CommitWrites, ZenonT(40)
<1>19. \A v \in VCPU : /\ Held(v) = Contents(View(v).lr, mem[v])
                       /\ Held(v)' = Contents(View(v)'.lr, mem'[v])
  BY DEF Held, Contents
<1>20. Faithful' = Faithful
  <2>1. twice' = twice \cup {v \in {e} : r[v].again}
    BY <1>2 DEF Commit
  <2>2. Faithful' = Faithful \ {v \in {e} : r[v].again}
    BY <1>13, <2>1 DEF Faithful
  <2>3. e \in Faithful => ~r[e].again
    BY <1>9, <1>11
  <2> QED  BY <2>2, <2>3
<1>21. OnceEach'
  <2>1. \A v \in Faithful : Distinct(View(v)'.lr, mem'[v])
    BY <1>9, <1>11, <1>18 DEF IInv, OnceEach, Faithful
  <2> QED  BY <1>20, <2>1 DEF OnceEach
<1>22. \A v \in VCPU \ {e} : Held(v)' = Held(v) /\ stack'[v] = stack[v]
  BY <1>13, <1>18, <1>19
<1>23. SpiOwned' /\ Delivery
  <2>1. CASE e \notin Faithful
    BY <1>20, <1>22, <2>1, Unseen
  <2>2. CASE e \in Faithful
    <3>1. Contents(View(e).lr, m) \cup {x} = Contents(View(e).lr, mem[e])
      BY <1>5 DEF Contents
    <3>2. Held(e)' = Held(e)
      BY <1>9, <1>11, <1>18, <1>19, <2>2, <3>1
    <3>3. \A v \in Faithful : Held(v)' = Held(v)
      BY <1>22, <3>2 DEF Faithful
    <3> QED  BY <1>13, <1>20, <3>3, SameHeld DEF IInv
  <2> QED  BY <2>1, <2>2
<1> QED  BY <1>14, <1>15, <1>16, <1>17, <1>21, <1>23 DEF Kept, IInv

LEMMA MaintenanceKeeps ==
  ASSUME IInv, Maintenance
  PROVE  Kept
<1>1. /\ pc = "guest" /\ UNCHANGED <<cpuVars, stack, distVars, physAct, lapsed>>
      /\ TypeOK /\ exec \in VCPU
  BY RunningIs DEF Maintenance, IInv
<1>2. CASE mem[exec] # {}
  BY <1>1, <1>2, RefillKeeps DEF Maintenance
<1>3. CASE mem[exec] = {}
  <2>1. hw' = [hw EXCEPT !.np = FALSE] /\ UNCHANGED <<saved, mem, stray, twice>>
    BY <1>3 DEF Maintenance
  <2>2. /\ hw'.lr = hw.lr
        /\ hw' \in [lr : [LR -> Reg], apr : SUBSET Levels, np : BOOLEAN, eoi : BOOLEAN]
    BY <1>1, <2>1 DEF TypeOK
  <2>3. TypeOK'
    BY <1>1, <2>1, <2>2 DEF TypeOK, cpuVars, distVars
  <2>4. \A v \in VCPU : View(v)'.lr = View(v).lr /\ mem'[v] = mem[v]
    BY <1>1, <2>1, <2>2 DEF View, cpuVars
  <2>5. OnceEach' /\ SpiOwned' /\ Delivery
    BY <1>1, <2>1, <2>4, Quiet DEF Faithful
  <2>6. UnderflowArmed'
    BY <1>1, <1>3, <2>1 DEF IInv, UnderflowArmed, Faithful, cpuVars
  <2>7. /\ IdleFor' /\ NoIdleMaintenance'
        /\ CopiesMarked' /\ StrayStored'
    BY <1>1, <2>1
       DEF IInv, IdleFor, NoIdleMaintenance, CopiesMarked, MarkedBy, StrayStored, Awake, cpuVars
  <2> QED  BY <2>3, <2>5, <2>6, <2>7 DEF Kept, IInv
<1> QED  BY <1>2, <1>3

-----------------------------------------------------------------------------
\* The theorems.

LEMMA Initially == Init => IInv /\ ID!IDInit
<1> SUFFICES ASSUME Init PROVE IInv /\ ID!IDInit
  OBVIOUS
<1>1. 0 \in VCPU /\ NULL \notin VCPU
  BY Numbers
<1> DEFINE none == [i \in LR |-> Blank]
<1>2. none \in [LR -> Reg] /\ \A i \in LR : none[i] = Blank
  BY Registers
<1>3. /\ hw = [lr |-> none, apr |-> {}, np |-> FALSE, eoi |-> FALSE]
      /\ saved = [v \in VCPU |-> [lr |-> none, empty |-> {}, apr |-> {},
                                  np |-> FALSE, eoi |-> FALSE]]
      /\ mem = [v \in VCPU |-> {}] /\ stray = {} /\ lapsed = {} /\ twice = {}
      /\ stack = [v \in VCPU |-> <<>>]
      /\ pc = "sched" /\ exec = NULL /\ last = NULL /\ physAct = {}
  BY DEF Init
<1> HIDE DEF none
<1>4. TypeOK
  <2>1. /\ hw \in [lr : [LR -> Reg], apr : SUBSET Levels, np : BOOLEAN, eoi : BOOLEAN]
        /\ saved \in [VCPU -> [lr : [LR -> Reg], empty : SUBSET LR, apr : SUBSET Levels,
                               np : BOOLEAN, eoi : BOOLEAN]]
    BY <1>2, <1>3
  <2>2. stack \in [VCPU -> Seq(IRQ)] /\ mem \in [VCPU -> SUBSET Interrupt]
    BY DEF Init
  <2>3. /\ ctl \in BOOLEAN /\ en \in [VCPU -> SUBSET (Sgi \cup Ppi)] /\ spiEn \subseteq Spi
        /\ useIrq \subseteq Ppi \cup Spi
        /\ physEn \subseteq Ppi \cup Spi /\ physAct \subseteq Ppi \cup Spi
    BY DEF Init
  <2>4. asleep = {} /\ off = VCPU \ {0}
    BY DEF Init
  <2> QED  BY <1>1, <1>3, <2>1, <2>2, <2>3, <2>4 DEF TypeOK
<1>5. \A v \in VCPU : View(v).lr = none /\ mem[v] = {} /\ Held(v) = {}
  <2>1. \A v \in VCPU : View(v).lr = none /\ mem[v] = {}
    BY <1>3 DEF View
  <2>2. Blank.st = "none"
    BY DEF Blank
  <2> QED  BY <1>2, <2>1, <2>2 DEF Held
<1>6. CopiesMarked /\ OnceEach /\ UnderflowArmed /\ IdleFor /\ StrayStored
  BY <1>2, <1>3, <1>5
     DEF CopiesMarked, MarkedBy, OnceEach, UnderflowArmed, IdleFor, StrayStored, Distinct,
         Faithful
<1>7. NoIdleMaintenance /\ SpiOwned
  BY <1>3, <1>5 DEF NoIdleMaintenance, SpiOwned, HoldsHw
<1>8. \A v \in VCPU : Irqs(v, "pend") = {} /\ Irqs(v, "act") = {}
  BY <1>5 DEF Irqs
<1>9. ID!IDInit
  <2>1. Faithful = VCPU
    BY <1>3 DEF Faithful
  <2> QED  BY <1>3, <1>8, <2>1 DEF ID!IDInit
<1> QED  BY <1>3, <1>4, <1>6, <1>7, <1>9 DEF IInv

LEMMA StepKeepsAll == IInv /\ [Next]_vars => Kept
<1> SUFFICES ASSUME IInv, [Next]_vars PROVE Kept
  OBVIOUS
<1>1. CASE UNCHANGED vars
  <2>1. UNCHANGED <<pc, exec, last, asleep, off, coreVars, stack, distVars, physAct, lapsed>>
    BY <1>1 DEF vars, cpuVars
  <2>2. TypeOK' /\ IdleFor' /\ NoIdleMaintenance'
    BY <2>1 DEF IInv, TypeOK, IdleFor, Awake, NoIdleMaintenance, Vmi, MisrNP, MisrLRENP,
         coreVars, distVars
  <2> QED  BY <2>1, <2>2, UncommittedKeeps
<1>2. ASSUME NEW v \in VCPU, Enter(v) \/ CpuOn(v) PROVE Kept
  BY <1>2, EnterKeeps, CpuOnKeeps
<1>3. CASE Sleep
  BY <1>3, SleepKeeps
<1>4. CASE CpuOff
  BY <1>4, CpuOffKeeps
<1>5. CASE Ack
  BY <1>5, AckKeeps
<1>6. CASE Eoi
  BY <1>6, EoiKeeps
<1>7. CASE Maintenance
  BY <1>7, MaintenanceKeeps
<1>8. ASSUME NEW i \in Sgi, NEW T \in SUBSET VCPU, SendSgi(i, T) PROVE Kept
  BY <1>8, SendSgiKeeps
<1>9. ASSUME NEW i \in Spi, VintSend(i) \/ SpiIrq(i) PROVE Kept
  BY <1>9, VintSendKeeps, SpiIrqKeeps
<1>10. ASSUME NEW i \in Ppi, PpiIrq(i) PROVE Kept
  BY <1>10, PpiIrqKeeps
<1>11. CASE \/ \E b \in BOOLEAN : WriteCtrl(b)
            \/ \E i \in Written : WriteIsenabler(i) \/ WriteIcenabler(i)
  BY <1>11, WriteKeeps
<1> QED
  BY <1>1, <1>2, <1>3, <1>4, <1>5, <1>6, <1>7, <1>8, <1>9, <1>10, <1>11 DEF Next

LEMMA Invariant == Spec => []IInv
<1>1. Init => IInv
  BY Initially
<1>2. IInv /\ [Next]_vars => IInv'
  BY StepKeepsAll DEF Kept
<1> QED  BY <1>1, <1>2, PTL DEF Spec

\* Sets that an injective function into the interrupts counts.
LEMMA Counted ==
  ASSUME NEW S, NEW f \in [S -> IRQ], \A a, b \in S : f[a] = f[b] => a = b,
         NEW T, T = {f[a] : a \in S}
  PROVE  IsFiniteSet(S) /\ IsFiniteSet(T) /\ Cardinality(T) = Cardinality(S)
<1>1. f \in Injection(S, IRQ)
  BY DEF Injection, IsInjective
<1>2. IsFiniteSet(S)
  BY <1>1, Finitely, FS_Injection
<1>3. f \in Bijection(S, T)
  BY DEF Bijection, Injection, Surjection, IsInjective
<1>4. ExistsBijection(S, T)
  BY <1>3 DEF ExistsBijection
<1> QED  BY <1>2, <1>4, FS_Bijection

LEMMA ListedOnce == TypeOK /\ OnceEach => UniqueListing
<1> SUFFICES ASSUME TypeOK, OnceEach, NEW v \in Faithful
             PROVE  LET used == {i \in LR : View(v).lr[i].st # "none"} IN
                    Cardinality(used) + Cardinality(mem[v])
                      = Cardinality({x.irq : x \in Held(v)})
  BY DEF UniqueListing
<1> DEFINE lr   == View(v).lr
           m    == mem[v]
           used == {i \in LR : lr[i].st # "none"}
           A    == {lr[i].irq : i \in used}
           B    == {y.irq : y \in m}
<1>1. /\ lr \in [LR -> Reg] /\ m \in SUBSET Interrupt
      /\ Distinct(lr, m)
  BY DEF TypeOK, View, Faithful, OnceEach
<1>2. {x.irq : x \in Held(v)} = A \cup B
  BY DEF Held
<1> HIDE DEF lr, m
<1>3. \A i \in used : lr[i] # Blank /\ lr[i].irq \in IRQ
  BY <1>1, Registers
<1>4. IsFiniteSet(used) /\ IsFiniteSet(A) /\ Cardinality(A) = Cardinality(used)
  <2> DEFINE f == [i \in used |-> lr[i].irq]
  <2>1. f \in [used -> IRQ] /\ \A i, j \in used : f[i] = f[j] => i = j
    BY <1>1, <1>3 DEF Distinct
  <2>2. A = {f[i] : i \in used}
    OBVIOUS
  <2> HIDE DEF f, used, A
  <2> QED  BY <2>1, <2>2, Counted
<1>5. IsFiniteSet(m) /\ IsFiniteSet(B) /\ Cardinality(B) = Cardinality(m)
  <2> DEFINE f == [y \in m |-> y.irq]
  <2>1. f \in [m -> IRQ]
    BY <1>1, Registers
  <2>2. \A y, z \in m : f[y] = f[z] => y = z
    BY <1>1 DEF Distinct
  <2>3. B = {f[y] : y \in m}
    OBVIOUS
  <2> HIDE DEF f, B
  <2> QED  BY <2>1, <2>2, <2>3, Counted
<1>6. A \cap B = {}
  BY <1>1, <1>3 DEF Distinct
<1> HIDE DEF used, A, B
<1>7. Cardinality(A \cup B) = Cardinality(A) + Cardinality(B)
  <2>1. Cardinality(A) \in Nat /\ Cardinality(B) \in Nat /\ Cardinality({}) = 0
    BY <1>4, <1>5, FS_CardinalityType, FS_EmptySet
  <2>2. Cardinality(A \cup B) = Cardinality(A) + Cardinality(B) - Cardinality(A \cap B)
    BY <1>4, <1>5, FS_Union
  <2>3. Cardinality(A \cap B) = 0
    BY <1>6, <2>1
  <2> DEFINE a == Cardinality(A)
             b == Cardinality(B)
             c == Cardinality(A \cap B)
             d == Cardinality(A \cup B)
  <2>4. a \in Nat /\ b \in Nat /\ c = 0 /\ d = a + b - c
    BY <2>1, <2>2, <2>3
  <2> HIDE DEF a, b, c, d
  <2>5. d = a + b
    BY <2>4
  <2> QED  BY <2>5 DEF a, b, d
<1> QED  BY <1>2, <1>4, <1>5, <1>7 DEF used, lr, m

LEMMA HeldOnce == SpiOwned => SpiHeldOnce
<1> SUFFICES ASSUME SpiOwned, lapsed \cup twice = {}, NEW p \in Spi
             PROVE  Cardinality({v \in VCPU : \E x \in Held(v) : x.irq = p /\ x.hw})
                      = IF p \in physAct THEN 1 ELSE 0
  BY DEF SpiHeldOnce
<1>0. Faithful = VCPU
  BY DEF Faithful
<1> DEFINE W == {v \in VCPU : \E x \in Held(v) : x.irq = p /\ x.hw}
<1>1. \A v : v \in W <=> v \in VCPU /\ HoldsHw(v, p)
  BY DEF HoldsHw
<1>2. /\ p \in physAct => \E v \in VCPU : HoldsHw(v, p)
      /\ \A v \in VCPU : HoldsHw(v, p) => p \in physAct
      /\ \A u, v \in VCPU : HoldsHw(u, p) /\ HoldsHw(v, p) => u = v
  BY <1>0 DEF SpiOwned
<1> HIDE DEF W
<1>3. CASE p \in physAct
  <2>1. PICK v \in VCPU : W = {v}
    BY <1>1, <1>2, <1>3
  <2> QED  BY <1>3, <2>1, FS_Singleton DEF W
<1>4. CASE p \notin physAct
  <2>1. W = {}
    BY <1>1, <1>2, <1>4
  <2> QED  BY <1>4, <2>1, FS_EmptySet DEF W
<1> QED  BY <1>3, <1>4

\* The types: virtual_gic.c writes only what a list register, a copy or the
\* store can have.
THEOREM TypeCorrect == Spec => []TypeOK
BY Invariant, PTL DEF IInv

\* No interrupt is listed twice for a faithful vCPU, in whichever order set_lr,
\* the maintenance interrupt, the guest and the world switches work on the lists:
\* only what set_lr takes for active and pending can be.
THEOREM UniqueListingAlways == Spec => []UniqueListing
<1>1. IInv => UniqueListing
  BY ListedOnce DEF IInv
<1> QED  BY <1>1, Invariant, PTL

\* What set_lr had to store will be fetched: the underflow interrupt of its
\* vCPU is enabled, or it was stored while that vCPU did not execute.
THEOREM UnderflowArmedAlways == Spec => []UnderflowArmed
BY Invariant, PTL DEF IInv

\* vmi_handle, which relies on an executing vCPU, is not called in the idle loop
\* but in the two cases that NoIdleMaintenance names.
THEOREM NoIdleMaintenanceAlways == Spec => []NoIdleMaintenance
BY Invariant, PTL DEF IInv

\* A physical SPI stays active exactly as long as one vCPU has it to end.
THEOREM SpiHeldOnceAlways == Spec => []SpiHeldOnce
<1>1. IInv => SpiHeldOnce
  BY HeldOnce DEF IInv
<1> QED  BY <1>1, Invariant, PTL

\* The virtual GIC implements InterruptDelivery: with its list registers, its
\* store and its world switches, an accepted interrupt of a faithful vCPU is
\* pending until it is taken, and handled until the handler that took it ends.
THEOREM DeliveryImplemented == Spec => ImplementsDelivery
<1>1. Init => ID!IDInit
  BY Initially
<1>2. IInv /\ [Next]_vars
        => [ID!IDNext]_<<Faithful,
                         [v \in VCPU |-> IF v \in Faithful THEN Irqs(v, "pend") ELSE {}],
                         [v \in VCPU |-> IF v \in Faithful THEN Irqs(v, "act") ELSE {}],
                         [v \in VCPU |-> IF v \in Faithful THEN stack[v] ELSE <<>>]>>
  BY StepKeepsAll DEF Kept, Delivery, Pending, Handling, Stack
<1> QED  BY <1>1, <1>2, Invariant, PTL
       DEF Spec, ImplementsDelivery, ID!IDSpec, ID!idVars

=============================================================================
