SPECIFICATION PoolPlayerSpec
CONSTANTS
    Jobs = {j1, j2, j3}
    Workers = {w1, w2}
    Callers = {w1, w2}
    Stoppers = {s1, s2}
    Clearers = {c1}
    QueueSize = 1
    Modes = {"computer"}
    TelegramConfigured = TRUE
    None = None
SYMMETRY Symmetry
INVARIANTS
    TypeOK
    NoPanic
    OneOwner
    AcceptedAccounted
    CountersExact
    OnePlaybackFlagged
    NothingLeftBehind
PROPERTIES
    StatusFinal
    AtMostOnePerPause
    ImplementsJobQueue
