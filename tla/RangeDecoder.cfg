CONSTANTS
  Base = 8
  Limit = 5
  Contexts = {1, 2}
SPECIFICATION RangeSpec
INVARIANT CodeInRange
