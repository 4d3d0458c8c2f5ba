SPECIFICATION FairSpec
CONSTANTS
    Threads = {t1}
    First = t1
    Stop = stop
    OldSockets = {}
    Faults = FALSE
PROPERTY BothConnect
CHECK_DEADLOCK FALSE
