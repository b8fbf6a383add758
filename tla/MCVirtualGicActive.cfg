CONSTANTS
  VCPU <- MCVCPU
  Sgi <- MCSgi
  Ppi <- MCPpi
  Spi <- MCSpi
  SGI_ID_MAX = 1
  LRNum = 2
  Level <- MCLevel
  Target <- MCTarget
  MayTurnOff = {}
  Written <- MCSpi
  NULL = NULL
SPECIFICATION Spec
PROPERTY ActiveAndPending
CHECK_DEADLOCK FALSE
