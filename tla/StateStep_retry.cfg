SPECIFICATION Spec
CONSTANTS
    a = a
    b = b
    Callers = {"cli"}
    Batches <- Single
    Labelled = {}
    Digests = {}
    ToolStatuses = {"completed"}
    MaxSteps = 2
    MaxSeeds = 0
    MaxCrashes = 1
CHECK_DEADLOCK FALSE
INVARIANTS
    NeverRetried
