CONSTANTS
    j1 = j1
    j2 = j2
    ExecJobs <- TwoJobs
    None = None
    Confirmation = TRUE
    PollLimits <- WithAndWithoutLimit
    MaxDetails = 1
    MaxOutages = 2
SPECIFICATION FairSpec
INVARIANT LiveWatcherIsRegistered
INVARIANT SilencedOnlyIfTold
INVARIANT NoWatcherSurvives
PROPERTY WatchedRunsAreAnnounced
CHECK_DEADLOCK FALSE
