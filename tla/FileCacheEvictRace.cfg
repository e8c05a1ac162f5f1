SPECIFICATION Spec
CONSTANTS
    Files = {f1, f2}
    NoFile = NoFile
    LocalFiles = {f1, f2}
    Readers = {r1}
    NoReader = NoReader
    Evictor = Evictor
    MaxRevision = 1
    MaxClock = 0
    Faults = {}
    MaxDownloads = 1
    MaxUnits = 1
    OtherUnits = 0
    MaxLeaked = 0
INVARIANT CachedHasFile
