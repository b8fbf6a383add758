SPECIFICATION Spec
CONSTANTS
  n1 = n1
  n2 = n2
  n3 = n3
  NULL = NULL
  Lost = Lost
  VM = {1, 2}
  VCPU = {0, 1, 2}
  VmOf <- TwoVms
  BootOrder <- MCBoot2
  Policy = "my"
  Pri <- MCPri
  SchedNodes = 5
  TNode <- MCTNode
  MaxTime = 1
SYMMETRY TimerSymmetry
INVARIANTS
  TypeOK
  SingleRunning
  ReadyExact
  TimerHandles
  TimerPoolSuffices
  ContextSaved
  HcrMatches
  IdleMeansNoWork
  NoLateWakeup
PROPERTIES
  IdleWakeupReschedules
  NoOvertaking
  ImplementsLifecycle
