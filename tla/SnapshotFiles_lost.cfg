SPECIFICATION Spec
CONSTANTS
    Payloads = {"valid", "malformed"}
    OrderedRenames = TRUE
    MaxWrites = 3
INVARIANT AckedSurvives
