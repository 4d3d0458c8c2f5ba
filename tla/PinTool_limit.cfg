SPECIFICATION FairSpec
CONSTANTS
    Threads = {t1, t2}
    Limit = 2
    Cap = 3
    AppBuffers = 2
INVARIANTS TypeOK AtLeastLimit  DumpComplete
PROPERTIES LimitEnds ExitCompletes
