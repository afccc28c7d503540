CONSTANTS
  Players = {p1, p2}
  Distances = {1, 2, 3}
  Workers = 2
  Shots = 2
SPECIFICATION Spec
INVARIANT BestIsBest
CHECK_DEADLOCK FALSE
