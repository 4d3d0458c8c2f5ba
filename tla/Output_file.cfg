SPECIFICATION Spec
CONSTANTS
    Block = 2
    BufSize = 2
    BufMin = 4
    Overhead = 1
    WrapAt = 4
    MaxBuffers = 6
    MaxOld = 9
INVARIANTS TypeOK NothingLeft RoundIntact FilePrefix DirectAligned FileBounded
CHECK_DEADLOCK FALSE
