CONSTANT n = 6
SPECIFICATION SortSpec
INVARIANTS HeapOrder SortsRight
CHECK_DEADLOCK FALSE
