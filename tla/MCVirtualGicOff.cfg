CONSTANTS
  VCPU <- MCVCPU
  Sgi <- MCSgi
  Ppi = {}
  Spi <- MCSpi
  SGI_ID_MAX = 1
  LRNum = 1
  Level <- MCLowLevel
  Target <- MCTarget
  MayTurnOff <- MCVcpu1
  Written <- MCSpi
  NULL = NULL
SPECIFICATION Spec
INVARIANT UnderflowArmed NoIdleMaintenance
PROPERTY ImplementsDelivery
CHECK_DEADLOCK FALSE
