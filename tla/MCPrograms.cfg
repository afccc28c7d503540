CONSTANTS
  NProcs = 3
  Forks = 2
  Pressure = {1, 2}
SPECIFICATION ProgramsSpec
INVARIANTS
  AllTypesOK
  ForkInOrder
  ForkPublishes
  BufferLeft
  NoLostWakeup
  HeapSound
  TcpRidesAlone
  BusyHasReason
  FiguresAgree
  BestHasName
  NaturalOrder
  DoneMeansSorted
  MinimumTour
CHECK_DEADLOCK FALSE
