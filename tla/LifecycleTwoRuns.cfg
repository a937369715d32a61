CONSTANTS
    r1 = r1
    r2 = r2
    NoRun = NoRun
    Runs <- TwoRuns
    Interface = "telegram"
    RequireConfirmation = FALSE
    MaxConcurrentRuns = 1
    MaxJobs = 3
    MaxTools = 0
    MaxStages = 1
    MaxRestarts = 0
SPECIFICATION Spec
SYMMETRY RunSymmetry
INVARIANT ExecutesOnce
INVARIANT QueueConsistent
INVARIANT NoLostJob
INVARIANT NoAbandonedRun
CHECK_DEADLOCK FALSE
