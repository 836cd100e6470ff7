SPECIFICATION LifeFairSpec
CONSTANTS
    Sessions = {s1, s2}
    Procs = {p1, p2}
    None = None
INVARIANTS
    NoOrphan
PROPERTIES
    SpawnOnlyWhenNeeded
    TermEnds
CHECK_DEADLOCK FALSE
