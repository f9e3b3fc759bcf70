CONSTANTS
    Nodes = {a, b}
    NoPeer = NoPeer
    NumSlots = 3
    Window = 16
    RouteLimit = 14
    Routes <- LongRoutes
    MaxSends = 1
SPECIFICATION Spec
INVARIANTS NoPanic
CHECK_DEADLOCK FALSE
