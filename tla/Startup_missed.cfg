SPECIFICATION Spec
CONSTANTS
    Threads = {t1}
    First = t1
    Stop = stop
    OldSockets = {}
    Faults = FALSE
INVARIANT SleepsOnlyWhileEmpty
CHECK_DEADLOCK FALSE
