CONSTANTS
    r1 = r1
    r2 = r2
    NoRun = NoRun
    Runs <- OneRun
    Interface = "telegram"
    RequireConfirmation = TRUE
    MaxConcurrentRuns = 1
    MaxJobs = 1
    MaxTools = 0
    MaxStages = 1
    MaxRestarts = 0
SPECIFICATION Spec
INVARIANT ExecutesAgreedPlan
CHECK_DEADLOCK FALSE
