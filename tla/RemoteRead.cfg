SPECIFICATION Spec
CONSTANTS
    blk = blk
    h1 = h1
    h2 = h2
    r1 = r1
    r2 = r2
    NoHandle = NoHandle
    Files = {blk}
    Adaptive = {blk}
    Handles = {h1, h2}
    FileOf <- BothOnBlk
    Layout <- OneFile
    Requests <- SomeReads
    Readers = {r1, r2}
    BlockCacheOn = TRUE
    RetryCount = 1
    Faults = {"5xx", "error", "corrupt", "short"}
    MaxReads = 2
    MaxClock = 2
    Mode = "auto"
    GapTolerance = 0
    MinRangeRequests = 2
    MinSequentialBytes = 2
    MinSequentialPercent = 90
    MaxBackwardSeeks = 0
    FileHintTTL = 1
    PromotionCooldown = 1
CHECK_DEADLOCK FALSE
INVARIANTS
    TypeOK
    BlockReadsAreExact
    NeverRefetched
    PromotionIsEarned
PROPERTIES
    ReadsReturn
