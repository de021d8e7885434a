SPECIFICATION HostSpec
CONSTANTS
    p0 = p0
    p1 = p1
    p2 = p2
    Procs = {p0, p1, p2}
    Proc0 = p0
    None = None
    Uses <- PassUses
    Intervals = {1, 2}
INVARIANTS FFCounted DecoderSound ProgramSound
PROPERTIES OnlyTogglesHang AllEnds
CHECK_DEADLOCK FALSE
