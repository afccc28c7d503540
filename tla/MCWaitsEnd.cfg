CONSTANTS
  NProcs = 3
  size = 5
  iters = 4
SPECIFICATION LiveSpec
INVARIANTS
  PivotOfSweep
PROPERTIES
  BarrierReturns
  EveryoneDone
  PipeEnds
  EveryoneServed
  CallReturns
CHECK_DEADLOCK FALSE
