SPECIFICATION PushFairSpec
CONSTANTS
    Subscription <- Registrations
    e1 = e1
    e2 = e2
    e3 = e3
    old = old
    new = new
    Sends = {s1, s2}
    MaxSubs = 2
INVARIANTS
    DistinctWithinCap
    AcceptedKept
PROPERTIES
    GonePruned
    AllNotified
CHECK_DEADLOCK FALSE
