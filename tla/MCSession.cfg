CONSTANTS
    Nodes = {a, b}
    Sid = {s1, s2, s3, s4}
    NoSid = NoSid
    Idx = {i1, i2, i3, i4}
    NoNode = NoNode
    Senders = {lowerSend}
    Receivers = {lowerRecv, upperRecv}
    MaxData = 2
SYMMETRY Symmetry
SPECIFICATION Spec
INVARIANTS KeyAgreement DataAuthentic IndexAgreement DataDeliverable FirstDataOnce 
CHECK_DEADLOCK FALSE
