SPECIFICATION FleetSpec
CONSTANTS
    a = a
    b = b
    c = c
    Tasks = {a}
    Procs = {p}
    Wave <- OneWave
    Deps <- NoDeps
    MaxParallel = 1
    Durations = {1}
    LeaseSeconds = 1
    Notes = {"retry", "run_failed"}
    Observed = {}
    MaxAttempts = 1
    CommitFaults = FALSE
    MaxStarts = 2
    MaxCrashes = 1
    MaxGeneration = 30
    MaxTime = 1
INVARIANTS BlockedByTasks
CHECK_DEADLOCK FALSE
