CONSTANTS
  KeyCounts = {0, 1, 2, 4, 7}
  Fanout = 3
  LeafCap = 2
  LookupCounts = {0, 1}
  RepCounts = {2}
  Word = 32
  Arguments <- MCArguments
SPECIFICATION Spec
INVARIANTS NothingLeaks FindsExactly LeavesTile SameChecksum
CHECK_DEADLOCK FALSE
