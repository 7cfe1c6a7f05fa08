SPECIFICATION MCSpec
CONSTANTS
    Calls = {c1, c2}
    Nodes = {n1, n2}
    RetNums = {1, 2}
    MaxRequests = 2
    MaxClock = 1
    MaxHandlers = 1
    Null = Null
    a = a
    b = b
    m1 = m1
    m2 = m2
    ack = ack
    Ends = {a, b}
    Msgs = {m1, m2, ack}
    len <- MCLen
    Reply <- MCReply
    Writers = {"w1", "w2"}
    Readers = {"r1", "r2"}
    MaxLine = 2
    Room = 2
    MaxSize = 1
    Scenes <- MCScenes
INVARIANTS
    QuorumOfAskedNodes
    NoLostWakeup
    NoStaleEntry
PROPERTIES
    EveryCallReturns
    FifoChannel
    EveryMessageArrives
CHECK_DEADLOCK FALSE
