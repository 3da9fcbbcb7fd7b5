CONSTANTS
    Turns = {1, 2, 3}
    Calls = {"exec", "read", "spawn", "message", "complete_bootstrap"}
    Councils <- SomeCouncils
    Batches <- BatchesOf
    Faults <- FaultsOf
    Crowds <- Together
    MaxBatch = 2
    MaxIterations = 4
    MaxRetries = 2
    MaxSubagentIterations = 1
    OldMessages = 3
    HistorySize = 3
    WarnThreshold = 2
    CriticalThreshold = 3
    CircuitBreaker = 4
    NoProgressConsec = 2
    PingPongLength = 3
SPECIFICATION Spec
INVARIANTS
    EveryTurnIsAnswered
    StuckTurnIsStopped
    CallsAreAnsweredOnTheWire

PROPERTIES
    TurnsEnd
CHECK_DEADLOCK FALSE
