SPECIFICATION LifeSpec
CONSTANTS
    Sessions = {s1, s2}
    Procs = {p1, p2}
    None = None
INVARIANT
    StartedRelayServes
CHECK_DEADLOCK FALSE
