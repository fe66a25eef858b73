SPECIFICATION SupSpec
CONSTANTS
    Lanes = {r1, r2}
    Tasks = {"t"}
    Moves <- SomeMoves
    Epochs = {1, 2}
    Owners = {0, 2}
    Sizes = {1, 2}
    MaxEvents = 3
    MaxBytes = 3
    Numbers <- SomeNumbers
    Limit = 2
    Healths <- SomeHealths
    Reasons = {"retry"}
    Contents = {"c1", "c2"}
ACTION_CONSTRAINT OneAtATime
INVARIANT AppendKeepsLogReadable
CHECK_DEADLOCK FALSE
