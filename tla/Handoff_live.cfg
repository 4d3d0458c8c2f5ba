SPECIFICATION FairSpec
CONSTANTS
    Threads = {t1, t2}
    MaxBuffers = 1
    MaxStale = 1
    UseCompression = FALSE
    Faults = FALSE
INVARIANT ExitIsClean
  
