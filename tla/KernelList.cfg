CONSTANT N = 4
SPECIFICATION Spec
INVARIANTS SlotsPointBack RingBothWays SafeVisitsAll
PROPERTY ListSpec
CHECK_DEADLOCK FALSE
