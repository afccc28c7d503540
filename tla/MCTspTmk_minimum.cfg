CONSTANTS
  Workers = {0, 1}
  TspSize = 6
  NodesFromEnd = 2
  Graphs <- SixCities
  MAX_NUM_TOURS = 60
  BIGINT = 2000000
SPECIFICATION Spec
INVARIANT MinimumTour
CHECK_DEADLOCK FALSE
