SPECIFICATION Spec
CONSTANTS
    a = a
    b = b
    c = c
    Tickets = {a, b, c}
    BlocksIn <- NoDeps
    Epic <- EpicOfThree
    Critical = {c}
    Ss08Tickets = {}
    Collides <- FilesOfThree
    MaxParallel = 2
    PerEpicCap = 1
    RetryBudget = 0
    MaxReviewCycles = 0
    TriageThreshold = 2
    PhantomMax = 2
    ChainLen = 1
    MaxAttempts = 2
    HardTimeout = 0
    Backoff = 1
    StuckChild = 0
    Grace = 0
    PhantomWindow = 1
    StallWindow = 3
    HistoryCap = 1
    Hydrated = {"PENDING"}
    InheritedPrs = {"none"}
    Signals = {}
    MaxFaults = 0
    MaxCrashes = 0
PROPERTIES
    DispatchWithinLimits
