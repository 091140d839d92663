CONSTANTS
  Lengths = {0, 1, 2, 3, 4, 5}
  Spreads = {0, 1, 3, 7}
  SizeMax = 31
  PageSize = 8
  NodeSize = 2
SPECIFICATION Spec
INVARIANTS NothingLost OnePath MiddleFound NodesApart
CHECK_DEADLOCK FALSE
