CONSTANTS
    Nodes = {a, b, c}
    NoPeer = NoPeer
    NumSlots = 3
    Window = 16
    RouteLimit = 14
    Routes <- Routes23
    MaxSends = 2
SYMMETRY NodeSymmetry
SPECIFICATION RSpec
INVARIANTS ReverseRoute ForwardRoute  RoutesLead ArrivesAsPlanned
CHECK_DEADLOCK FALSE
