SPECIFICATION HostSpec
CONSTANTS
    p0 = p0
    p1 = p1
    p2 = p2
    Procs = {p0, p1}
    Proc0 = p0
    None = None
    Uses <- BadUses
    Intervals = {1, 2}
PROPERTIES EndOfPhaseEnds
CHECK_DEADLOCK FALSE
