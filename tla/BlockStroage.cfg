SPECIFICATION MCSpec
CONSTANTS
    b1 = b1
    b2 = b2
    b3 = b3
    n1 = n1
    n2 = n2
    n3 = n3
    t1 = t1
    t2 = t2
    c1 = c1
    pl1 = pl1
    pl2 = pl2
    None = None
    Blocks <- MCBlocks
    Nodes <- MCNodes
    Txs <- MCTxs
    Contracts = {c1}
    Places = {pl1, pl2}
    Packed <- MCPacked
    Asked <- MCAsked
    Reached <- MCReached
    kConsensus = 3
    KSend = 3
    StatusTTL = 1
    FlowTTL = 2
    ExpireTTL = 3
    LastStart = 3
INVARIANTS DecidedOneWay RebuiltOnce RebuiltInPlace
PROPERTY EventuallyForgotten
CHECK_DEADLOCK FALSE
