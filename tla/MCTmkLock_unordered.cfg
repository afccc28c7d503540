CONSTANTS
  NProcs = 3
  Locks = {1}
  Ordered = FALSE
  MaxSeqno = 2
  MaxIntervals = 0
SPECIFICATION Spec
INVARIANTS
  NoErrexit
