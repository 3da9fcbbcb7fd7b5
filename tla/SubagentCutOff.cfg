CONSTANTS
    Turns = {2}
    Calls = {"exec", "read", "spawn", "message", "complete_bootstrap"}
    Councils <- SomeCouncils
    Batches <- BatchesOf
    Faults <- FaultsOf
    Crowds <- Alone
    MaxBatch = 2
    MaxIterations = 4
    MaxRetries = 2
    MaxSubagentIterations = 1
    OldMessages = 3
    HistorySize = 3
    WarnThreshold = 2
    CriticalThreshold = 3
    CircuitBreaker = 4
    NoProgressConsec = 2
    PingPongLength = 3
SPECIFICATION Spec
INVARIANT SubagentKeepsItsContext
CHECK_DEADLOCK FALSE
