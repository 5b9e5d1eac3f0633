SPECIFICATION Spec
CONSTANTS
    a = a
    b = b
    c = c
    Tickets = {a}
    BlocksIn <- NoDeps
    Epic <- OneEpic
    Critical = {}
    Ss08Tickets = {}
    Collides = {}
    MaxParallel = 1
    PerEpicCap = 1
    RetryBudget = 1
    MaxReviewCycles = 1
    TriageThreshold = 2
    PhantomMax = 2
    ChainLen = 1
    MaxAttempts = 2
    HardTimeout = 1
    Backoff = 1
    StuckChild = 2
    Grace = 2
    PhantomWindow = 1
    StallWindow = 3
    HistoryCap = 1
    Hydrated = {"PENDING"}
    InheritedPrs = {"none"}
    Signals = {}
    MaxFaults = 0
    MaxCrashes = 0
PROPERTIES
    FixRoundsTimeOut
