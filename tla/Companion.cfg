SPECIFICATION CompanionFairSpec
CONSTANTS
    Conns = {c1, c2}
    Phones = {p1}
    Msgs = {m1, m2}
    MaxSubs = 1
    BufCap = 1
    Capacity = 1
INVARIANTS
    StoreKeepsNewest
    AnnouncedIsFetchable
    PushedNotStreamed
    NoHubPanic
    SlotsAccounted
PROPERTIES
    ImplementsClipFeed
    BroadcastEnds
    DeadPeerFreed
    ClipSettles
CHECK_DEADLOCK FALSE
