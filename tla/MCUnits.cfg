SPECIFICATION UnitsSpec
CONSTANTS
    Threads = {t1, t2, t3}
    NoThread = NoThread
    SpinTries = 2
    RWThreads = {r1, r2, r3, r4}
    None = None
    Procs = {p1}
    v3 = v3
    w1 = w1
    w2 = w2
    VLines = {v1, v2, v3}
    Sets <- MCSets
    SetOf <- MCSetOf
    Ways = 1
    Elems = {e1, e2, e3}
    Blocks = 4
    Width = 2
    Delays = {0, 1, 5, 8, 13}
    MaxCycle = 20
    Slabs = {s1, s2, s3}
    SlabSize = 6
    Sizes = {2, 3}
    SimThreads = {i1, i2}
    Crossings = FALSE
    Uses <- MCUses
INVARIANTS
    NoLostWakeup
    WriterIsAlone
    FilterCoherent
    RecycledAreEmpty
    FiresInTime
    CoreSound
PROPERTIES
    ImplementsMutex
    Progress
    ImplementsSortedBag
