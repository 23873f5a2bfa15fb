SPECIFICATION Spec
CONSTANT MaxEvents = 1
INVARIANT StopDeselects
CHECK_DEADLOCK FALSE
