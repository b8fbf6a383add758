CONSTANTS
  VM = {1, 2}
  VCPU <- MCVCPU
  VmOf <- MCVmOf
  BootOrder <- MCBoot
  Node <- MCNode
  first_time <- MCFirst
  period <- MCPeriod
  exection_time <- MCBudget
  Word = 4
  Long = 64
  MaxTime = 5
  NULL = NULL
  n0 = n0
  n1 = n1
  n2 = n2
  n3 = n3
SPECIFICATION Spec
INVARIANT TypeOK ListsExact 
PROPERTY EarliestOfWaiting ImplementsLifecycle
