SPECIFICATION FairSpec
CONSTANTS
    Files = {f1, f2}
    NoFile = NoFile
    LocalFiles = {f1, f2}
    Readers = {r1, r2}
    NoReader = NoReader
    Evictor = Evictor
    MaxRevision = 1
    MaxClock = 1
    Faults = {"net", "corrupt"}
    MaxDownloads = 1
    MaxUnits = 1
    OtherUnits = 0
    MaxLeaked = 0
PROPERTIES ReadsReturn CacheShrinks
INVARIANT CachedFilesAreTracked
