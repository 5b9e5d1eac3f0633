SPECIFICATION Spec
CONSTANTS
    a = a
    b = b
    c = c
    Tickets = {a}
    Wave <- OneWave
    WaveOrder <- OneOnly
    Critical = {}
    Thresholds = {1}
    Den = 1
    WaveRetryBudget = 1
    Start = {"backlog"}
    Hints = {"fine"}
    Drifting = {}
    Signals = {}
    MaxTrouble = 0
INVARIANTS
    CanceledByPeople
