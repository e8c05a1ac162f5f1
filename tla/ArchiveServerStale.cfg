SPECIFICATION FairSpec
CONSTANTS
    blk0 = blk0
    rev0 = rev0
    Names = {blk0}
    BlkOf <- MCBlkOf
    Threshold = 2
    MaxSize = 3
    MaxWrites = 3
    MaxFailures = 1
PROPERTY ReusedHashesAreValid
