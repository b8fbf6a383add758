SPECIFICATION FairSpec
CONSTANTS
  n1 = n1
  n2 = n2
  n3 = n3
  NULL = NULL
  Lost = Lost
  VM = {1}
  VCPU = {0, 1}
  VmOf <- SameVm
  BootOrder <- MCBoot1
  Policy = "my"
  Pri <- MCPri
  SchedNodes = 4
  TNode <- MC2Node
  MaxTime = 1
PROPERTIES
  SleeperWoken
  LastTimerWakes
