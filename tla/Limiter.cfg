SPECIFICATION LimiterSpec
CONSTANTS
    Clients = {a, b}
    Calls = {k1, k2}
    Burst = 2
    Refill = 2
    SweepInterval = 5
    MaxBuckets = 1
    Skew = 1
    MaxClock = 7
    None = None
SYMMETRY Symmetry
INVARIANTS
    NeverTooMany
PROPERTIES
    RefusedOnlyWhenSpent
CHECK_DEADLOCK FALSE
