SPECIFICATION MCSpec
CONSTANTS
    t1 = t1
    t2 = t2
    t3 = t3
    a = a
    b = b
    c = c
    d = d
    e = e
    Calls = {1, 2, 3, 4, 5, 6}
    Declared <- MCDeclared
    Times = {4, 5}
    Unit = 3
    Waiting = 3
    Parts = 2
    Txs = {t1, t2, t3}
    utxoHeight <- MCHeight
    Rivals = {{t1, t2}}
    Peers = {1, 2, 3, 4}
    Qualified = {{1}, {1, 2, 3, 4}}
    Heights = {0, 1}
    MinReached = 2
    kNeed_node_threshold = 2
    kMinUnstakeHeight = 1
INVARIANTS
    DependentTogether
    NoCallLeftOut
    BuildHeightReached
PROPERTIES
    EveryCallTried
    EveryTxLeaves
    
CHECK_DEADLOCK FALSE
