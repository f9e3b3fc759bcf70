CONSTANTS
    p1 = p1
    p2 = p2
    b1 = b1
    Putters <- RacingPutters
    Pushers <- OnePusher
    Capacity = 2
    MaxPuts = 3
SPECIFICATION FairSpec
INVARIANTS InOrder Accounted DroppedCount
PROPERTIES ImplementsLossyFifo 
CHECK_DEADLOCK FALSE
