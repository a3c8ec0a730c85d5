CONSTANT MaxAttempts = 1
SPECIFICATION Spec
INVARIANT ErrorEventInStream
CHECK_DEADLOCK FALSE
