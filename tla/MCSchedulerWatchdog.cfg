SPECIFICATION Safety
CONSTANTS
    t1 = t1
    t2 = t2
    t3 = t3
    Threads = {t1, t2, t3}
    Contexts <- TwoContexts
    Mask <- LastIsPinned
    Nobody = Nobody
    Quantum = 2
    MaxSleep = 1
    FakeBound = 0
CHECK_DEADLOCK FALSE
INVARIANTS
    JoinAssertHolds
