CONSTANTS
    MaxStarts = 2
    Limits <- TwoLimits
    NoLimit = NoLimit
    Interval = 2
    MaxRequest = 2
    MaxLate = 1
    MaxElapsed = 4
SPECIFICATION FairSpec
INVARIANT ReadyWhileConsuming
INVARIANT StopsCompletely
INVARIANT GivesUpInTime
INVARIANT EndedRunsAreReported
PROPERTY CommandsEnd
CHECK_DEADLOCK FALSE
