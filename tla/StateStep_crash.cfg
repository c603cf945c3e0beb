SPECIFICATION Spec
CONSTANTS
    a = a
    b = b
    Callers = {"cli", "api", "user"}
    Batches <- Short
    Digests = {1}
    ToolStatuses = {"completed", "failed"}
    Labelled = {b}
    MaxSteps = 3
    MaxSeeds = 1
    MaxCrashes = 1
CHECK_DEADLOCK FALSE
INVARIANTS
    RanSound
    BatchesAccounted
    StatesAccounted
PROPERTIES
    VerdictsFinal
