SPECIFICATION Spec
CONSTANTS
    Files = {f1, f2}
    NoFile = NoFile
    LocalFiles = {}
    Readers = {r1, r2}
    NoReader = NoReader
    Evictor = Evictor
    MaxRevision = 2
    MaxClock = 0
    Faults = {"corrupt", "crash", "net", "io", "db", "mount"}
    MaxDownloads = 1
    MaxUnits = 1
    OtherUnits = 0
    MaxLeaked = 1
SYMMETRY Symmetry
INVARIANTS TypeOK CacheHoldsPublished SlotsAccountedFor OneFlightPerFile
PROPERTIES FollowsLifecycle AgreementIsKept
