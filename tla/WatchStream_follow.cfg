SPECIFICATION WFairSpec
CONSTANTS
    c1 = c1
    w1 = w1
    Clients = {c1, w1}
    Followers = {w1}
    Pollers = {}
    Attempts = 1
    MaxDeltas = 0
    Thinking = FALSE
    Faults = {"run_record"}
CHECK_DEADLOCK FALSE
INVARIANTS
    DeliveredWhole
PROPERTIES
    ReadersFinish
    RunFinishes
