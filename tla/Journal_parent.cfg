SPECIFICATION Spec
CONSTANTS
    s1 = s1
    s2 = s2
    r1 = r1
    Steps = {s1, s2}
    Indexers = {}
    Limit = 1
    MayCrash = FALSE
    MaxTurns = 3

CHECK_DEADLOCK FALSE
INVARIANTS
    ParentsPresent
