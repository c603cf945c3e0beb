SPECIFICATION ProcessesSpec
CONSTANTS
    Callers = {c1, c2}
    MaxServers = 4
    MaxCalls = 3
    Operators = {o1, o2}
    MaxDaemons = 3
    MaxCommands = 4
    Shells = {s1}
    Editors = {e1}
    MaxHosts = 3
    MaxWrites = 4
    Timed = TRUE
INVARIANTS
    OneServer
    OneDaemon
    OutputConserved
PROPERTIES
    BackendCallsReturn
    
    CallReturns
CHECK_DEADLOCK FALSE
