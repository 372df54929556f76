CONSTANTS
    w1 = w1
    w2 = w2
    Writers = {w1, w2}
    Modes <- Mixed
    Flushers = {w2}
    Backups = {w2}
    Sizes = {1, 3}
    BufMax = 2
    FileMax = 100
    Pool = 3
    MaxRecords = 2
    MaxFiles = 2
SPECIFICATION Spec
INVARIANTS TypeOK NoHoles RecordsFill ClosedDurable FlushWritten
PROPERTY LsnsForward
CHECK_DEADLOCK FALSE
