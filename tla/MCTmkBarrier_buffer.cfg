CONSTANTS
  NProcs = 2
  NBarriers = 2
  RepoEpisodes = {}
  Reliable = FALSE
  MaxEpisodes = 2
  MaxIntervals = 1
SPECIFICATION Spec
PROPERTIES
  BarrierPublishes
