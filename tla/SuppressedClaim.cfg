SPECIFICATION CompanionSpec
CONSTANTS
    Conns = {c1}
    Phones = {p1}
    Msgs = {m1}
    MaxSubs = 1
    BufCap = 1
    Capacity = 1
INVARIANTS
    SuppressedIsStreamed
CHECK_DEADLOCK FALSE
