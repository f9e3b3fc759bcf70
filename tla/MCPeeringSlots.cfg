SPECIFICATION Spec
CONSTANTS
    Nodes = {a, b, d}
    NoNode = NoNode
    Conns = {c1, c2}
    Requests <- AnyRequest
    a = a
    b = b
    c1 = c1
    c2 = c2
    PeerSlots = 1
    MaxData = 0
    MaxLost = 0
SYMMETRY Symmetry
INVARIANTS
    ConnectedMeansAttached
CHECK_DEADLOCK FALSE
