SPECIFICATION PartsSpec
CONSTANTS
    Contents = {a, b}
    MinDuplicates = 2
    MaxMessages = 5
    MaxRecords = 1
    MaxTurns = 3
    Blocks = {b1, b2, b3}
    MaxRefs = 2
    MaxDepth = 2
    Results = {r1, r2}
    MaxOutcomes = 3
    Plans <- MCPlans
    MaxQueueSteps = 5
    MaxFences = 4
    Titles = {"t"}
    Kinds = {"todo", "feature"}
    SmallKinds = {"todo"}
    MaxCaptures = 3
    MaxCaptureCrashes = 1
    MaxCloses = 1
    FilePaths = {p, q}
    Texts = {"a", "b"}
    NoFile = NoFile
    MaxIndent = 1
    MaxFile = 3
    MaxBlock = 2
    MaxEdits = 1
    Attempts = 2
    MaxSent = 3
    MaxReasoning = 1
    Commands = {c1, c2}
    MaxInputs = 4
    MaxStates = 2
    MaxIntentCrashes = 1
    MaxEpisodeTurns = 2
    MaxRetries = 1
    MaxPlan = 3
    e1 = e1
    m1 = m1
    m2 = m2
    ta = ta
    tb = tb
    Endpoints = {e1}
    Models = {m1, m2}
    Label <- MCLabel
    FileTargets <- MCFileTargets
    DefaultModel <- MCDefaultModel
    KeyedEndpoints = {e1}
    ConfigModel = base
    NoModel = NoModel
    NoTarget = NoTarget
    BaseEndpoint = BaseEndpoint
    Unknown = Unknown
    MaxDeclarations = 3
    MaxSelections = 1
    MaxGraph = 5
    Utterances = {a, b}
    MaxSealed = 2
    MaxWritten = 3
    MaxHistory = 4
INVARIANTS
    RepairSound
    
    QueueSound
    CaptureSound
    
    
    IntentsFaithful
    
    
    DrawnAsLinked
    ShownAsRecorded
CHECK_DEADLOCK FALSE
