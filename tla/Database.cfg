SPECIFICATION Spec
CONSTANTS
    w1 = w1  w2 = w2  i1 = i1  i2 = i2  u1 = u1  addrs = addrs  None = None
    Writers = {w1, w2}
    Keys = {addrs, i1, i2}
    Values = {i1, i2, u1}
    InvestAddrs = addrs
    Investors = {i1, i2}
    Utxos = {u1}
    worth <- MCWorth
    kMinInvestAmt = 2
SYMMETRY Symmetry
CHECK_DEADLOCK FALSE
INVARIANTS
    Isolated
    EnoughIsSeen
PROPERTIES
    AtomicTransactions
