SPECIFICATION Spec
CONSTANTS
    s1 = s1
    s2 = s2
    r1 = r1
    Steps = {s1, s2}
    Indexers = {r1}
    Limit = 2
    MayCrash = TRUE
    MaxTurns = 2
SYMMETRY StepSymmetry
CHECK_DEADLOCK FALSE
INVARIANTS
    IdsUnique
    LockHeldByWorker
    
PROPERTIES
    IsAHistory
