SPECIFICATION FairSpec
CONSTANTS
    Kinds = {mail}
    Priorities = {0}
    RetryChoices = {2}
    DueChoices = {FALSE}
    MaxJobs = 2
    MaxRuns = 2
    MaxCrashes = 1
    MaxWriteFaults = 1
CHECK_DEADLOCK FALSE
INVARIANTS
    RunningIffHandled
    AttemptsBounded
    EveryCallIsCounted
    OnlyTheCurrentLoopIsOpen
PROPERTIES
    RetiredForAReason
    Drains
    ImplementsLedger
