SPECIFICATION FairSpec
CONSTANTS
    Turns = {t1, t2}
    OversizedTurns = {t2}
    ToolTurns = {t1}
    OverflowTurns = {t1}
    MaxIterations = 2
    MaxCalls = 1
    MaxRetries = 1
    KeepLast = 1
    CompressMin = 3
    BatchMax = 1
    MaxCrashes = 1
CHECK_DEADLOCK FALSE
INVARIANTS
    PromptCoversMemory
    OneSummarizer
    QuestionAtMostOnce
    TranscriptInOrder
    UnansweredCallIsBeingAnswered
PROPERTIES
    QuietTruncationIsCovered
    SettlesDown
