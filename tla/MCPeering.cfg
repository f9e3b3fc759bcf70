SPECIFICATION FairSpec
CONSTANTS
    Nodes = {a, b}
    NoNode = NoNode
    Conns = {c1, c2}
    Requests <- TwoRequests
    a = a
    b = b
    c1 = c1
    c2 = c2
    PeerSlots = 3
    MaxData = 2
    MaxLost = 1
INVARIANTS
    CallbackNeverBlocks
    ConnectedSound
    PrevHopKnown
    SlotPerSession
PROPERTIES
    RegisteredReturns
    ResponderAttaches
CHECK_DEADLOCK FALSE
