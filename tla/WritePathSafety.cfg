SPECIFICATION Spec
CONSTANTS
    blk0 = blk0
    blk1 = blk1
    rev0 = rev0
    Files = {blk0, blk1}
    BlkFiles = {blk0, blk1}
    NextBlk <- MCNextBlk
    NoFile = NoFile
    LocalFiles = {blk0, blk1}
    Writers = {w1, w2}
    MaxRevision = 0
    MaxClock = 0
    Faults = {"crash", "loss", "io", "rollback", "db"}
    MaxWrites = 1
SYMMETRY Symmetry
INVARIANTS TypeOK HandlesCounted HashMatchesState
PROPERTIES TipStaysWritable ActiveHasFile FollowsLifecycle SealedIsFinal
