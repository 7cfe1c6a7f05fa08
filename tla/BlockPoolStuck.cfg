SPECIFICATION FairBroadcastSpec
CONSTANTS
    g = g
    a1 = a1
    b1 = b1
    a2 = a2
    a3 = a3
    k1 = k1
    k2 = k2
    k3 = k3
    u1 = u1
    u2 = u2
    v1 = v1
    x = x
    None = None
    Blocks = {g, a1}
    Genesis = g
    Utxos = {u1, v1}
    height <- MCHeight
    time <- MCTime
    prev <- MCPrev
    txs <- MCTxs
    source <- MCSource
    ContractAddrs = {x}
    contracts <- MCContracts
    Valid = {a1}
    Plain = {a1}
    Cancels = {}
    OldWindow = 1
    PendingWindow = 1
    SeekWindow = 1
    FarWindow = 1
    PendingHeights = 2
    DoubleSpendTTL = 1
    DuplicateTTL = 2
    RollbackAge = 0
    HashPendingTTL = 0
    MaxTime = 1
    MaxUtxoMissing = 1
    RollbackSets = {{a1}}
    DbMayFail = TRUE
PROPERTIES
    QueuedBlocksArePolled
CHECK_DEADLOCK FALSE
