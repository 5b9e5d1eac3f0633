SPECIFICATION FairSpec
CONSTANTS
    a = a
    b = b
    c = c
    Tickets = {a, b}
    Wave <- TwoWaves
    WaveOrder <- InOrder
    Critical = {a}
    Thresholds = {0, 1}
    Den = 1
    WaveRetryBudget = 1
    Start = {"backlog"}
    Hints = {"repo_missing", "unfit"}
    Drifting = {b}
    Signals = {"cancel"}
    MaxTrouble = 1
INVARIANTS
    TypeOK
    LaterWavesWait
    RetriesBounded
    ReleasedOnce
PROPERTIES
    EndsUnlessUnscoped
