SPECIFICATION MemSpec
CONSTANTS
    Addrs3 = {a1, a2, a3}
    Addrs4 = {a1, a2, a3, a4}
    Addrs5 = {a1, a2, a3, a4, a5}
    NoLine = NoLine
    z1 = z1
    z2 = z2
    z3 = z3
    z4 = z4
    z5 = z5
    z6 = z6
    Signatures = {g1, g2}
    PCs = {p1, p2}
INVARIANTS
    ArraysSound
    DramSound
    HeapSound
    CacheTimingSound
PROPERTIES
    VictimsInOrder
