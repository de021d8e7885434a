SPECIFICATION Safety
CONSTANTS
    Threads = {t1, t2, t3}
    NoThread = NoThread
    Parallel = 1
    CleanupPeriod = 2
INVARIANTS
    SwapAssertHolds
