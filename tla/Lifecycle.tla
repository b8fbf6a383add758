----------------------------- MODULE Lifecycle -----------------------------
(***************************************************************************)
(* What the hypervisor promises about each virtual CPU, with no queue, no  *)
(* flag, no timer and no saved context: the one physical CPU runs at most  *)
(* one vCPU, and a vCPU goes round off -> ready -> running -> (ready |     *)
(* blocked | off), blocked -> ready.  Hypervisor implements it.            *)
(***************************************************************************)
CONSTANTS VCPU, Group     \* Group: what a single wake-up may reach at once

VARIABLES status

Status == {"off", "ready", "running", "blocked"}

Nobody == \A v \in VCPU : status[v] # "running"

\* The integrator's user_init has readied a few vCPUs.
LCInit == status \in [VCPU -> {"off", "ready"}]

\* A running vCPU turns on another.
TurnOn(u, v) ==
  /\ status[u] = "running" /\ status[v] = "off"
  /\ status' = [status EXCEPT ![v] = "ready"]

\* The running vCPU gives the CPU up for itself.
TurnOff(v) ==
  /\ status[v] = "running"
  /\ status' = [status EXCEPT ![v] = "off"]

Block(v) ==
  /\ status[v] = "running"
  /\ status' = [status EXCEPT ![v] = "blocked"]

\* One interrupt wakes blocked vCPUs of one group.
Unblock(W) ==
  /\ W # {}
  /\ \E G \in Group : W \subseteq G
  /\ \A v \in W : status[v] = "blocked"
  /\ status' = [v \in VCPU |-> IF v \in W THEN "ready" ELSE status[v]]

Run(v) ==
  /\ Nobody
  /\ status[v] = "ready"
  /\ status' = [status EXCEPT ![v] = "running"]

Switch(u, v) ==
  /\ status[u] = "running" /\ status[v] = "ready"
  /\ status' = [status EXCEPT ![u] = "ready", ![v] = "running"]

LCNext ==
  \/ \E u, v \in VCPU : TurnOn(u, v) \/ Switch(u, v)
  \/ \E v \in VCPU : TurnOff(v) \/ Block(v) \/ Run(v)
  \/ \E W \in SUBSET VCPU : Unblock(W)

LCSpec == LCInit /\ [][LCNext]_status

AtMostOneRunning ==
  \A u, v \in VCPU : status[u] = "running" /\ status[v] = "running" => u = v
=============================================================================
