CONSTANTS
    w1 = w1
    w2 = w2
    Writers = {w1, w2}
    Modes <- Flushing
    Flushers = {}
    Backups = {}
    Sizes = {2}
    BufMax = 2
    FileMax = 9
    Pool = 4
    MaxRecords = 4
    MaxFiles = 2
SPECIFICATION FairSpec
PROPERTIES EverythingWritten WritesReturn
CHECK_DEADLOCK FALSE
