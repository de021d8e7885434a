SPECIFICATION SlabSpec
CONSTANTS
    Slabs = {s1, s2, s3}
    SimThreads = {t1, t2}
    SlabSize = 6
    Sizes = {2, 3}
    Crossings = TRUE
CHECK_DEADLOCK FALSE
INVARIANT RecycledAreEmpty
