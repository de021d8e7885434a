SPECIFICATION Spec
CONSTANTS
    Threads = {t1, t2, t3}
    NoThread = NoThread
    Parallel = 2
    CleanupPeriod = 2
INVARIANTS
    NoWakeupRace
    CountersMatch
    ListSound
PROPERTIES
    ImplementsPhaseBarrier
    EveryWaiterRuns
