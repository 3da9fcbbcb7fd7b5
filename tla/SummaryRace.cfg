SPECIFICATION FairSpec
CONSTANTS
    Turns = {t1, t2}
    OversizedTurns = {}
    ToolTurns = {}
    OverflowTurns = {}
    MaxIterations = 1
    MaxCalls = 1
    MaxRetries = 2
    KeepLast = 1
    CompressMin = 4
    BatchMax = 10
    MaxCrashes = 0
CHECK_DEADLOCK FALSE
PROPERTIES
    ArrivingMessagesAreNotDropped
