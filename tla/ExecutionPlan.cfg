CONSTANTS
    Workflows <- AllWorkflows
    Agents <- BothAgents
    MaxIterations = 3
SPECIFICATION FairSpec
INVARIANT PersistedIsDocumented
INVARIANT ResultIsCoherent
INVARIANT RowInPipelineOrder
PROPERTY CancelStopsWork
PROPERTY ExecutionEnds
CHECK_DEADLOCK FALSE
