SPECIFICATION ScenesSpec
CONSTANTS
    g = g
    a1 = a1
    b1 = b1
    a2 = a2
    a3 = a3
    k1 = k1
    k2 = k2
    k3 = k3
    u1 = u1
    u2 = u2
    v1 = v1
    x = x
    None = None
    Blocks = {g, a1, b1, a2, k1, k2, k3}
    Genesis = g
    Utxos = {u1, v1}
    height <- MCHeight
    time <- MCTime
    prev <- MCPrev
    txs <- MCTxs
    source <- MCSource
    ContractAddrs = {x}
    contracts <- MCContracts
    Valid = {a1, b1, a2, k1, k2, k3}
    Plain = {a1, b1, a2}
    Cancels = {k3}
    OldWindow = 1
    PendingWindow = 1
    SeekWindow = 1
    FarWindow = 1
    PendingHeights = 2
    DoubleSpendTTL = 1
    DuplicateTTL = 2
    RollbackAge = 0
    HashPendingTTL = 0
    MaxTime = 2
    MaxUtxoMissing = 1
    RollbackSets = {{a1}}
    DbMayFail = FALSE
INVARIANTS
    NoOrphanLeftBehind
    
    
PROPERTIES
    ContractRollbackOrder
    
CHECK_DEADLOCK FALSE
