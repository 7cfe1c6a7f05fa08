SPECIFICATION Spec
CONSTANTS
    a1 = a1  a2 = a2  a3 = a3  a4 = a4  a5 = a5  a6 = a6
    b1 = b1  b2 = b2  b3 = b3
    g = g
    p1 = p1  p2 = p2  p3 = p3  p4 = p4  p5 = p5
    Blocks <- Low
    Genesis = g
    height <- LowHeight
    prev <- LowPrev
    PeerChains <- MCPeerChains
    Chains <- MCChains
    LocalChains <- MCLocalChains
    NoVerify = 0
    MaxMoves = 0
    MaxLost = 0
    Stale = TRUE
    Peers = {p1, p2, p3, p4, p5}
    Cnt = 1
    SendMin = 4
    Qualifying = 5
PROPERTIES
    FetchedHashesTrusted
