SPECIFICATION ServerFairSpec
CONSTANTS
    Jobs = {j1, j2}
    Workers = {w1}
    Stoppers = {s1}
    Clearers = {c1}
    QueueSize = 1
    Modes = {"off", "computer", "phone", "both"}
    TelegramConfigured = TRUE
    None = None
INVARIANTS
    DeliveryMatchesMode
    NothingSpentInVain
    GracefulExit
PROPERTIES
    SignalEndsProcess
    AcceptedSettles
CHECK_DEADLOCK FALSE
