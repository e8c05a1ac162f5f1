SPECIFICATION Spec
CONSTANTS
    blk0 = blk0
    rev0 = rev0
    NodeKey = NodeKey
    OtherKey = OtherKey
    w1 = w1
    w2 = w2
    NoJob = NoJob
    BlkFiles = {blk0}
    RevFiles = {rev0}
    Length <- FileLength
    Magic <- FileMagic
    MagicSize = 2
    PerChunk = 4
    Workers = {w1, w2}
    Options <- AllOptions
    Faults = {"kill", "tear", "read", "write"}
    MaxRuns = 3
CHECK_DEADLOCK FALSE
INVARIANTS TypeOK
PROPERTIES OnlyReveals RepairIsComplete RunsEnd
