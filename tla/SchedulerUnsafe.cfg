SPECIFICATION FairSpec
CONSTANTS
  N = 32
  Mode = "unsafe"
  IterWidth = 64
  TickMax = 3
PROPERTIES
  UnsafeFaults
\* A program that dereferenced NULL is gone.
CHECK_DEADLOCK FALSE
