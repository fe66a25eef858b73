SPECIFICATION FleetSpec
CONSTANTS
    a = a
    b = b
    c = c
    Tasks = {a, b, c}
    Procs = {p, q}
    Wave <- TwoWaves
    Deps <- Join
    MaxParallel = 1
    Durations = {1}
    LeaseSeconds = 1
    Notes = {"retry", "run_failed"}
    Observed = {}
    MaxAttempts = 1
    CommitFaults = FALSE
    MaxStarts = 2
    MaxCrashes = 1
    MaxGeneration = 30
    MaxTime = 1
SYMMETRY Symmetry
INVARIANT BarriersHold
INVARIANT CompletedMeansAll
INVARIANT LeasesBounded
INVARIANT OverlapOnlyAfterExpiry
CHECK_DEADLOCK FALSE
