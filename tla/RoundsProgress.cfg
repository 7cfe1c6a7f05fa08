SPECIFICATION Spec
CONSTANTS
    a1 = a1  a2 = a2  a3 = a3  a4 = a4  a5 = a5  a6 = a6
    b1 = b1  b2 = b2  b3 = b3
    g = g
    p1 = p1  p2 = p2  p3 = p3  p4 = p4  p5 = p5
    Blocks <- MCBlocks
    Genesis = g
    height <- MCHeight
    prev <- MCPrev
    PeerChains = {}
    NoVerify = 0
    Peers = {p1, p2, p3, p4, p5}
    SendMin = 4
    Qualifying = 5
    MaxMoves = 0
    MaxLost = 0
    Stale = FALSE
CHECK_DEADLOCK FALSE
PROPERTIES
    CaughtUp
    FastRequestEnds
    NoLongerFarBehind
