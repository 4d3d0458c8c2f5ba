SPECIFICATION Spec
CONSTANTS
    Threads = {t1, t2}
    MaxBuffers = 1
    MaxStale = 1
    UseCompression = TRUE
    Faults = TRUE
INVARIANTS TypeOK ShmExclusion InOrder AtMostOneAhead NeverBothWait IndInv
PROPERTY ImplementsStream
CHECK_DEADLOCK FALSE
