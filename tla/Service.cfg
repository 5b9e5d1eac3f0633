SPECIFICATION Spec
CONSTANTS
    p = p
    Ids <- ThreeIds
    Projects = {p}
    Sites <- AllSites
    PollLimit = 2
    ClaimedLimit = 1
    AttemptBudget = 2
    Window = 4
    Cooldown = 2
    Freshness = 1
    LoopThreshold = 2
    LoopWindow = 1
    SickFor = 1
    AlertCooldown = 2
    MaxCount = 2
    Cap = 3
    LoopAfter = 2
    Models = {"gpt-oss", "qwen", "kimi"}
    FallbackChain <- DefaultChain
    Primary = "kimi"
    RegistrySlots = 4
    Baseline = "gpt-oss"
    Preferred = "gpt-oss"
    PersonaFallback = "kimi"
    Tagged = {"qwen"}
    MaxDispatches = 2
    RetryBudget = 1
    MaxStrikes = 2
    Prices = {1, 2}
    MaxEdits = 1
INVARIANTS
    TypeOK
    OneOrchestratorPerProject
    StrandedOnlyByLostCalls
    DoctorChain
    RestartsPaced
    AlertsSpaced
    LoopAlertsTrue
    AbortJustified
    DispatchesBounded
    SectionOnce
PROPERTIES
    OneOwner
    LoopReturns
    RollbackStands
    BudgetStops
