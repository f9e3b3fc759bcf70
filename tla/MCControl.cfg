SPECIFICATION Spec
CONSTANTS
    MaxCalls = 4
    MaxActive = 2
    MaxLLCalls = 3
    Addrs = {a4, a6}
    Addrs6 = {a6}
    NoAddr = NoAddr
    MaxMixed = 3
CHECK_DEADLOCK FALSE
INVARIANTS
    QuietAgrees
    NoLonePanic
    OnlyRegisteredRuns
    StartedServes
PROPERTIES
    LoneCallAgrees
    
    
