CONSTANTS
  Images <- MCImages
  Modes <- MCModes
  MaxPrefix = 9
SPECIFICATION Spec
INVARIANTS ContextsApart EachSampleOnce NeighboursDecoded ScratchHolds ChunksAddUp
CHECK_DEADLOCK FALSE
