SPECIFICATION Spec
CONSTANTS
    Procs = {p1, p2, p3}
    None = None
    Configs <- MCConfigs
    Args <- MCArgs
SYMMETRY Symmetry
CHECK_DEADLOCK FALSE
INVARIANTS
    RunsAsConfigured
    
    KeyBeforeConfig
    ListensAsNamed
PROPERTIES
    KeyKept
