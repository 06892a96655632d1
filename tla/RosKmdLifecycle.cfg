SPECIFICATION Spec
CONSTANT MaxOutstanding = 2
INVARIANT RegistersReachable
INVARIANT NothingLeftBehind
PROPERTY HeldWhenUsed
PROPERTY CallsReturn
CHECK_DEADLOCK FALSE
