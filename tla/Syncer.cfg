SPECIFICATION SyncFairSpec
CONSTANTS
    blk0 = blk0
    rev0 = rev0
    Names = {blk0, rev0}
    BlkOf <- MCBlkOf
    Threshold = 2
    MaxSize = 3
    MaxWrites = 2
    MaxFailures = 3
INVARIANT SyncTypeOK
PROPERTIES ObjectsAreImmutable ManifestCoversBucket FinalizedIsUploaded ListedUnlessFailed
