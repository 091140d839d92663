CONSTANT n = 4
SPECIFICATION SortSpec
INVARIANT BottomUpPermutes
CHECK_DEADLOCK FALSE
