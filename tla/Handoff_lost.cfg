SPECIFICATION Spec
CONSTANTS
    Threads = {t1}
    MaxBuffers = 1
    MaxStale = 1
    UseCompression = TRUE
    Faults = FALSE
INVARIANT NothingLost
