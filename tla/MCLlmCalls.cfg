SPECIFICATION FairSpec
CONSTANTS
    a1 = a1
    a2 = a2
    Agent = {a1, a2}
    Threshold = 2
    Limit = 6
    MaxCost = 2
    Window = 5
    MaxAttempts = 2
    MaxSteps = 2
    Fallback = TRUE
    Metered = {"call"}
    MaxRecords = 7
    MaxFailures = 3
CHECK_DEADLOCK FALSE
INVARIANT TypeOK
INVARIANT OverspendBounded
PROPERTY OpenIsProbed
PROPERTY ProbeDecides
