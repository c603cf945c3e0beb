SPECIFICATION IntentSpec
CONSTANTS
    Commands = {c1, c2}
    MaxInputs = 4
    MaxStates = 2
    MaxIntentCrashes = 0
CHECK_DEADLOCK FALSE
INVARIANTS
    ResolvedOnce
