SPECIFICATION Spec
CONSTANTS
    c1 = c1
    c2 = c2
    Clients = {c1, c2}
    Attempts = 2
    MaxDeltas = 2
    Thinking = TRUE
    Faults = {"error_log"}
SYMMETRY ClientSymmetry
CHECK_DEADLOCK FALSE
INVARIANTS
    TypeOK
    ClosesOnce
    SuccessIsEarned
    DurableAgrees
PROPERTIES
    NoSuccessAfterCancel
