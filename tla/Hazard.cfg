CONSTANTS
    N = 2
    Pages = {p, q}
    p = p
    q = q
    NoPage = NoPage
    InitialSlots = 1
    MaxHazards = 2
    Users = {1, 2}
    Evictors = {2}
SPECIFICATION FairSpec
INVARIANTS TypeOK NoPageLost CountsAgree
PROPERTY LockEnds
CHECK_DEADLOCK FALSE
