SPECIFICATION FairSpec
CONSTANTS
    Threads = {t1, t2}
    MaxBuffers = 0
    MaxStale = 0
    UseCompression = TRUE
    Faults = TRUE
PROPERTY BlockedReleased
CHECK_DEADLOCK FALSE
