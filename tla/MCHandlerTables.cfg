SPECIFICATION Spec
CONSTANTS
  Irq = {24, 27, 28, 32}
  Sender = {0, 1}
  Target <- MCTarget
  AddrRange <- MCRange
  Addr = {2, 4}
  Mode = {"usr", "sys", "irq", "fiq"}
  Reg = {8, 14, 15}
  KeyShift = 8
  PoolSize = 8
  MaxTraps = 1
INVARIANT TreesExact FindsRegistered SendsArePermitted RegistersExact
