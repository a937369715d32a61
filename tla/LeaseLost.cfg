CONSTANTS
    w1 = w1
    w2 = w2
    plan = plan
    exec = exec
    NoWorker = NoWorker
    Workers <- TwoWorkers
    Jobs <- ExecOnly
    PlanningJobs <- NoJob
    Lease = 1
    HeartbeatInterval = 2
    MaxDelay = 0
    DatabaseMayFail = TRUE
SPECIFICATION Spec
SYMMETRY WorkerSymmetry
INVARIANT ExecutesOnceAcrossWorkers
CHECK_DEADLOCK FALSE
