SPECIFICATION FairSpec
CONSTANTS
    Procs = {p1, p2}
    Denominator = 4
    Half = 16
    MaxFactor = 6
    Requests = {0, 3, 9, 15}
INVARIANTS TypeOK NothingDangles DilationExact 
PROPERTIES FactorFollows UnloadEnds
