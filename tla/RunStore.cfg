SPECIFICATION Spec
CONSTANTS
    Tasks = {a, b}
    MaxParallel = 2
    Durations = {1}
    Notes = {"note"}
    Observed = {"pending", "completed"}
    MaxGeneration = 5
    MaxTime = 2
SYMMETRY Symmetry
INVARIANT FencedByNewest
INVARIANT ReportIsFinal
INVARIANT TerminalEventOnce
CHECK_DEADLOCK FALSE
