SPECIFICATION Spec
CONSTANTS
    a = a
    b = b
    c = c
    Tickets = {a, b}
    BlocksIn <- Chained
    Epic <- OneEpic
    Critical = {}
    Ss08Tickets = {b}
    Collides = {}
    MaxParallel = 1
    PerEpicCap = 1
    RetryBudget = 1
    MaxReviewCycles = 1
    TriageThreshold = 1
    PhantomMax = 2
    ChainLen = 0
    MaxAttempts = 2
    HardTimeout = 0
    Backoff = 1
    StuckChild = 0
    Grace = 0
    PhantomWindow = 1
    StallWindow = 2
    HistoryCap = 5
    Hydrated = {"PENDING"}
    InheritedPrs = {"none", "open"}
    Signals = {"budget", "down"}
    MaxFaults = 0
    MaxCrashes = 1
INVARIANTS
    BuiltOnGreen
    LedgerReleased
PROPERTIES
    TicketContract
    AckSurvivesRestart
