---------------------------- MODULE MCHypervisor ----------------------------
EXTENDS Hypervisor, TLC
CONSTANTS n1, n2, n3
MCTNode == {n1, n2, n3}
MC2Node == {n1, n2}
TimerSymmetry == Permutations(MCTNode)
SameVm  == [v \in VCPU |-> 1]
TwoVms  == [v \in VCPU |-> IF v < 2 THEN 1 ELSE 2]
MCBoot1 == <<0>>
MCBoot2 == <<0, 2>>
MCPri   == [v \in VCPU |-> IF v = 2 THEN 9 ELSE 0]
=============================================================================
