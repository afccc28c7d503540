CONSTANTS
  NProcs = 2
  NBarriers = 1
  RepoEpisodes = {1, 2}
  Reliable = FALSE
  MaxEpisodes = 2
  MaxIntervals = 0
SPECIFICATION Spec
INVARIANTS
  RepoTogether
