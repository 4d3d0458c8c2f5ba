SPECIFICATION Spec
CONSTANTS
    N = 2
    MaxBuffers = 2
    MaxPeriods = 2
    Works = {0, 1, 3}
    TrackFcalls = TRUE
INVARIANTS TypeOK DelayJustified
  
CHECK_DEADLOCK FALSE
