SPECIFICATION Spec
CONSTANTS
    Procs = {p1, p2}
    Plans = {h1, h2}
    Bodies <- SomeBodies
    MaxGen = 2
SYMMETRY Symmetry
INVARIANT AckedCheckpointSurvives
INVARIANT LoadIsFresh
INVARIANT RecoverUndoesNothing
CHECK_DEADLOCK FALSE
