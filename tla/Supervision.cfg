SPECIFICATION SupSpec
CONSTANTS
    Lanes = {r1, r2}
    Tasks = {"t"}
    Moves <- SomeMoves
    Epochs = {1, 2}
    Owners = {0, 2}
    Sizes = {1}
    MaxEvents = 4
    MaxBytes = 4
    Numbers <- SomeNumbers
    Limit = 3
    Healths <- SomeHealths
    Reasons = {"retry"}
    Contents = {"c1", "c2"}
ACTION_CONSTRAINT OneAtATime
ACTION_CONSTRAINT Varied
INVARIANT HealthyIsComplete
INVARIANT ReadyIsJustified
INVARIANT HandoffsAgree
CHECK_DEADLOCK FALSE
