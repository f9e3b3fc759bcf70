CONSTANTS
    a = a
    b = b
    c = c
    d = d
    Nodes = {a, b, c, d}
    NoPeer = NoPeer
    NumSlots = 4
    Window = 16
    RouteLimit = 14
    Routes <- Routes2
    MaxSends = 3
    Links <- Triangle
    HopLimits = {1, 2, 3}
SPECIFICATION PSpec
INVARIANTS PongReturns
CHECK_DEADLOCK FALSE
