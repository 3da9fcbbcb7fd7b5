SPECIFICATION FairSpec
CONSTANTS
    MaxJobs = 1
    Shell = {1}
    MaxRuns = 2
    MaxEvents = 3
CHECK_DEADLOCK FALSE
INVARIANTS
    MarkedIsInABatch
    OneOpenLoop
PROPERTIES
    OneShotsAreNotRepeated
    GoneUnlessReloaded
    RecurringJobsRecur
