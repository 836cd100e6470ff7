SPECIFICATION StatusSpec
CONSTANTS
    Jobs = {j1, j2, j3}
    Workers = {w1}
    Stoppers = {}
    Clearers = {}
    QueueSize = 1
    Modes = {"off", "phone"}
    TelegramConfigured = FALSE
    None = None
    Readers = {r1}
    HistoryCap = 2
    RecentCap = 2
SYMMETRY Symmetry
PROPERTIES
    ReportAddsUp
    ReportsNeverGoBack
