SPECIFICATION FairSpec
CONSTANTS
  N = 3
  Mode = "safe"
  IterWidth = 6
  TickMax = 1
INVARIANTS
  TypeOK
  Exclusion
  WellFormed
  FlipParity
PROPERTIES
  RunQueueSpec
  EveryNodeMoved
  TickHandled
