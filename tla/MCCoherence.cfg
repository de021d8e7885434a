SPECIFICATION Spec
CONSTANTS
    c1 = c1
    c2 = c2
    l1 = l1
    l2 = l2
    Cores = {c1, c2}
    Caches = {1, 2, 3, 4, 5, 6}
    Lines = {l1, l2}
    Parent <- BankedParent
    Terminal <- CoreTerminals
    ICaches = {5}
    Ways <- OneWay
    Level <- MCLevel
    Depth = 2
    Memory = Memory
    NoLine = NoLine
    Nobody = Nobody
INVARIANTS
    SingleWriter
    DirectoryExact
    NoAssertFails
    NoLostWriteback
    NoCircularWait
