CONSTANTS
    w1 = w1
    w2 = w2
    plan = plan
    exec = exec
    NoWorker = NoWorker
    Workers <- TwoWorkers
    Jobs <- BothJobs
    PlanningJobs <- PlanOnly
    Lease = 2
    HeartbeatInterval = 1
    MaxDelay = 1
    DatabaseMayFail = FALSE
SPECIFICATION Spec
SYMMETRY WorkerSymmetry
INVARIANT TypeOK
INVARIANT ExclusiveProcessing
INVARIANT CompletedJobMeansFinishedRun
PROPERTY OutcomeFinal
CHECK_DEADLOCK FALSE
