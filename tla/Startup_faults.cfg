SPECIFICATION FairSpec
CONSTANTS
    Threads = {t1, t2, t3}
    First = t1
    Stop = stop
    OldSockets = {t3}
    Faults = TRUE
INVARIANTS TypeOK NoLostWakeup OneReceiver 
PROPERTIES LateFilesServed ConnectedServed
CHECK_DEADLOCK FALSE
