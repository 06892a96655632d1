\* Claims that the code does not keep (README, section 7).
SPECIFICATION Spec
CONSTANT MaxOutstanding = 2
CHECK_DEADLOCK FALSE
INVARIANT InterruptFindsRegisters
