SPECIFICATION Spec
CONSTANTS
    t1 = t1
    t2 = t2
    t3 = t3
    Threads = {t1, t2, t3}
    Contexts <- OneContext
    Mask <- SharedContext
    Nobody = Nobody
    Quantum = 1
    MaxSleep = 1
    FakeBound = 0
CHECK_DEADLOCK FALSE
PROPERTIES
    QueuedRun
    SleepersWake
