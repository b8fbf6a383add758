SPECIFICATION Spec
CONSTANTS
  n1 = n1
  n2 = n2
  n3 = n3
  NULL = NULL
  Lost = Lost
  VM = {1, 2}
  VCPU = {0, 1, 2}
  VmOf <- TwoVms
  BootOrder <- MCBoot2
  Policy = "fp"
  Pri <- MCPri
  SchedNodes = 5
  TNode <- MCTNode
  MaxTime = 1
SYMMETRY TimerSymmetry
PROPERTIES
  IdleWakeupReschedules
  NoOvertaking
