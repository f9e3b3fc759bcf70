SPECIFICATION FairSpec
CONSTANTS
    Nodes = {a, b}
    NoNode = NoNode
    Conns = {c1}
    Requests <- AnyRequest
    a = a
    b = b
    c1 = c1
    c2 = c2
    PeerSlots = 3
    MaxData = 0
    MaxLost = 0
PROPERTIES
    ConnectReturns
CHECK_DEADLOCK FALSE
