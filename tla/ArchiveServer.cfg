SPECIFICATION FairSpec
CONSTANTS
    blk0 = blk0
    rev0 = rev0
    Names = {blk0, rev0}
    BlkOf <- MCBlkOf
    Threshold = 2
    MaxSize = 3
    MaxWrites = 2
    MaxFailures = 2
INVARIANTS TypeOK ListedAreFinalized
PROPERTY FinalizedIsServed
