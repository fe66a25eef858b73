SPECIFICATION FleetSpec
CONSTANTS
    a = a
    b = b
    c = c
    Tasks = {a, b}
    Procs = {p}
    Wave <- OneWave
    Deps <- NoDeps
    MaxParallel = 1
    Durations = {1}
    LeaseSeconds = 1
    Notes = {"retry", "run_failed"}
    Observed = {}
    MaxAttempts = 1
    CommitFaults = FALSE
    MaxStarts = 3
    MaxCrashes = 2
    MaxGeneration = 30
    MaxTime = 1
INVARIANTS FailedByTasks
CHECK_DEADLOCK FALSE
