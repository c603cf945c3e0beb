SPECIFICATION Spec
CONSTANTS
    goal = goal
    note = note
    null = null
    Keys = {goal, note}
    Vals = {1, 2}
    None = null
    First <- Seeded
    Answers <- OneAnswer
    Edits <- Edited
    HandPatches <- ByHand
    Asked <- OneWay
    Operations = {"edit", "diff", "key", "project"}
    MaxCrashes = 1
    MaxTurns = 3
    MaxRecords = 4
    MaxNotes = 1
CHECK_DEADLOCK FALSE
INVARIANTS
    
    LineageSound
