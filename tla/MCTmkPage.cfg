SPECIFICATION Spec
CONSTANTS
  NProcs = 3
  Words = {w1, w2}
  Values = 2
  Ordered = TRUE
  MaxSyncs = 5
  MaxLate = 1
SYMMETRY WordSymmetry
CHECK_DEADLOCK FALSE
INVARIANTS
  TypeOK
  ReadsLatest
  DiffServable
  ManagerHasCopy
  WritableWhileApplying
