SPECIFICATION Spec
CONSTANTS
    Payloads = {"valid", "malformed"}
    OrderedRenames = TRUE
    MaxWrites = 4
INVARIANT SafeSurvives
INVARIANT InspectionFresh
PROPERTY ImplementsAtomicSnapshot
