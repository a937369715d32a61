CONSTANTS
    r1 = r1
    r2 = r2
    NoRun = NoRun
    Runs <- OneRun
    Interface = "telegram"
    RequireConfirmation = TRUE
    MaxConcurrentRuns = 1
    MaxJobs = 3
    MaxTools = 1
    MaxStages = 2
    MaxRestarts = 1
SPECIFICATION FairSpec
INVARIANT TypeOK
INVARIANT StartedWithApprovedPlan
INVARIANT WaitingToolHasThread
PROPERTY ImplementsContract
PROPERTY PlanningEnds
PROPERTY QueuedRunsEnd
PROPERTY StopReturns
CHECK_DEADLOCK FALSE
