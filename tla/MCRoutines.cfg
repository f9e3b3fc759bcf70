SPECIFICATION FairNodeSpec
CONSTANTS
    Kinds <- Waiting
    Cap = 1
    MaxStarts = 1

    
PROPERTIES
    NoGridlock
    StopQuiets
CHECK_DEADLOCK FALSE
