CONSTANTS
    c1 = c1
    c2 = c2
    m1 = m1
    m2 = m2
    m3 = m3
    Txs = {1, 2, 3, 4, 5, 6}
    Contracts = {c1, c2}
    Declared <- MCDeclared
    Touches <- MCTouches
    Messages = {m1, m2, m3}
    Batches <- MCBatches
    Local = {m2}
    Threads = 3
    MaxSaves <- MCMaxSaves
    None = None
SPECIFICATION MCSpec
 
 
INVARIANT FailureStaysInItsGroup
PROPERTY EveryHandlerReturns
CHECK_DEADLOCK FALSE
