SPECIFICATION LiveSpec
CONSTANTS
  NProcs = 2
  LastBarrier = 0
  ExitReliable = TRUE
INVARIANTS
  ServesProcessZero
PROPERTIES
  AcquireReturns
  ConsumersFinish
  SlavesReturn
  EverySessionEnds
CHECK_DEADLOCK FALSE
