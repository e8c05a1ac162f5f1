SPECIFICATION MCSpec
CONSTANTS
    Radix = 14
    Word = 7529536
    BufLen = 10
    Zeros = 5
    Follows <- TwoBytes
    Width = 4
    opDUP = 6
    opHASH160 = 8
    opEQUALVERIFY = 9
    opCHECKSIG = 10
    opEQUAL = 11
    HashSize = 2
    CoordSize = 3
    HeightWord = 2744
    CurvePoints <- SomePoints
    MainnetMagic <- Magic
    ChecksumSize = 2
    Undos <- SomeUndos
    PrevHashes = {"a", "b"}
    MaxRecords = 2
    DamageBytes = {0, 1, 2, 12}
    MaxPadding = 6
CHECK_DEADLOCK FALSE
INVARIANTS
    NumbersReadBack
    AmountBijective
    ParsesCompleteRecords
    RewritesTheSame
    ChecksumsTell
