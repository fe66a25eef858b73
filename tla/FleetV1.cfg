SPECIFICATION FairSpec
CONSTANTS
    N = 3
    Plans <- OrderedPlans
    RunIds = {"r1"}
    MaxParallel = 2
    Window = 0
    MaxTime = 1
    MaxRuns = 2
INVARIANT DispatchIsCleared
INVARIANT CompletedNotReplayed
INVARIANT OrderedVerdictHolds
PROPERTY InvocationEnds
CHECK_DEADLOCK FALSE
