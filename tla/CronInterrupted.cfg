SPECIFICATION FairSpec
CONSTANTS
    MaxJobs = 1
    Shell = {}
    MaxRuns = 2
    MaxEvents = 1
CHECK_DEADLOCK FALSE
PROPERTY RecoveredJobsAreDue
