CONSTANTS
    r1 = r1
    r2 = r2
    NoRun = NoRun
    Runs <- OneRun
    Interface = "cli"
    RequireConfirmation = FALSE
    MaxConcurrentRuns = 1
    MaxJobs = 1
    MaxTools = 0
    MaxStages = 1
    MaxRestarts = 0
SPECIFICATION FairSpec
PROPERTY SubmittedRunsEnd
CHECK_DEADLOCK FALSE
