CONSTANTS
  NProcs = 3
  Locks = {1, 3}
  Ordered = FALSE
  MaxSeqno = 3
  MaxIntervals = 1
SPECIFICATION CasesSpec
INVARIANTS
  TypeOK
  MutualExclusion
  OneOwner
  OrderedNoErrexit
PROPERTIES
  IntervalsAdvance
