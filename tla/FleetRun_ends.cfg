SPECIFICATION FleetSpec
CONSTANTS
    a = a
    b = b
    c = c
    Tasks = {a}
    Procs = {p, q}
    Wave <- OneWave
    Deps <- NoDeps
    MaxParallel = 1
    Durations = {1}
    LeaseSeconds = 1
    Notes = {"retry", "run_failed"}
    Observed = {}
    MaxAttempts = 2
    CommitFaults = TRUE
    MaxStarts = 2
    MaxCrashes = 1
    MaxGeneration = 14
    MaxTime = 1
PROPERTY InvocationsEnd
PROPERTY StoreRespected
CHECK_DEADLOCK FALSE
