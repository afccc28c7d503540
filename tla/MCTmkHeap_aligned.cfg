CONSTANTS
  NProcs = 2
  NPages = 6
  MallocSizes = {28, 40, 100, 140, 4096, 8192}
  SbrkSizes = {12, 24320}
  MaxOps = 6
SPECIFICATION Spec
INVARIANT PageAligned
CHECK_DEADLOCK FALSE
