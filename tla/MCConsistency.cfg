CONSTANTS
  NProcs = 2
  NBarriers = 1
  RepoEpisodes = {1}
  Reliable = FALSE
  MaxEpisodes = 2
  MaxIntervals = 1
SPECIFICATION ConsistencySpec
INVARIANTS
  TypeOK
  NoGap
  NoEarlyExit
PROPERTIES
  BarrierPublishes
  ClosedBeforeLearning
  LockImplementsAbstract
CHECK_DEADLOCK FALSE
