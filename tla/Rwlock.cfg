SPECIFICATION FairSpec
CONSTANTS
    Threads = {t1, t2, t3, t4, t5}
    Tickets = 4
    ActiveMax = 4
INVARIANTS
    IInv
PROPERTIES
    ImplementsRwlock
    QueuedServed
