SPECIFICATION FairThreadSpec
CONSTANTS
    MaxHeight = 2
    SyncHeightCnt = 1
    SyncBound = 1
    NearTop = 1
    SumHashRange = 1
    FastRetries = 2
    ZeroRetries = 0
    WidestAnswer = 2
    MayStop = TRUE
    DbMayFail = TRUE
    None = None
INVARIANTS
    AnswerableWindow
    RequestKept
PROPERTIES
    FastCannotStarve
