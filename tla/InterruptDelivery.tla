-------------------------- MODULE InterruptDelivery --------------------------
(***************************************************************************)
(* What a virtual GIC promises about the interrupts it has accepted, with  *)
(* no list register, no pending store and no world switch: a pending       *)
(* interrupt stays pending until its vCPU takes it, and one that was taken *)
(* stays handled until the handler that took it ends.                      *)
(* VirtualGic implements it.                                               *)
(***************************************************************************)
EXTENDS Sequences, SequencesExt

CONSTANTS VCPU, IRQ

VARIABLES
  served,    \* the vCPUs the promises are made to
  pending, handling,   \* vCPU -> interrupts
  stack      \* vCPU -> the interrupts its handlers are in, the innermost last

idVars == <<served, pending, handling, stack>>

\* What is kept for a vCPU that is no longer served.
Without(f, D, nothing) == [v \in VCPU |-> IF v \in D THEN nothing ELSE f[v]]

IDInit ==
  /\ served = VCPU
  /\ pending = [v \in VCPU |-> {}] /\ handling = [v \in VCPU |-> {}]
  /\ stack = [v \in VCPU |-> <<>>]

\* One interrupt, for the vCPUs of S; how many it reaches is not promised.  It
\* may be the last thing done for those of D, which had that interrupt already.
Raise(S, i, D) ==
  /\ served'   = served \ D
  /\ \A v \in D : i \in pending[v] \cup handling[v]
  /\ stack'    = Without(stack, D, <<>>)
  /\ handling' = Without(handling, D, {})
  /\ pending'  = Without([v \in VCPU |-> pending[v] \cup (IF v \in S THEN {i} ELSE {})],
                         D, {})

\* A vCPU takes a pending interrupt, in a handler inside those it is in.
Take(v, i) ==
  /\ stack'    = [stack EXCEPT ![v] = Append(@, i)]
  /\ i \in pending[v]
  /\ pending'  = [pending EXCEPT ![v] = @ \ {i}]
  /\ handling' = [handling EXCEPT ![v] = @ \cup {i}]
  /\ UNCHANGED served

\* Its innermost handler ends, and with it, or not yet, the handling of that
\* interrupt; never of another.
Finish(v) ==
  /\ stack[v] # <<>>
  /\ stack' = [stack EXCEPT ![v] = Front(@)]
  /\ \/ handling' = [handling EXCEPT ![v] = @ \ {Last(stack[v])}]
     \/ UNCHANGED handling
  /\ UNCHANGED <<served, pending>>

\* A vCPU that is in no handler turns itself off, and is promised nothing more.
Cease(v) ==
  /\ v \in served /\ stack[v] = <<>>
  /\ served'   = served \ {v}
  /\ pending'  = [pending EXCEPT ![v] = {}]
  /\ handling' = [handling EXCEPT ![v] = {}]
  /\ UNCHANGED stack

IDNext ==
  \/ \E v \in VCPU : Finish(v) \/ Cease(v) \/ \E i \in IRQ : Take(v, i)
  \/ \E i \in IRQ, D \in SUBSET served : \E S \in SUBSET (served \ D) : Raise(S, i, D)

IDSpec == IDInit /\ [][IDNext]_idVars
=============================================================================
