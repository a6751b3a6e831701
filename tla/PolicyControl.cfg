SPECIFICATION FairSpec
CONSTANTS
    w1 = w1
    w2 = w2
    t1 = t1
    t2 = t2
    NoPolicy = NoPolicy
    Routes = {"/a"}
    Bodies <- SomeBodies
    Static <- StaticLimit
    Global <- Fallback
    Workers = {w1, w2}
    Threads = {t1, t2}
    WorkerOf <- TwoWorkers
    Backends = {"redis", "memory"}
    Faults = {"down", "lost"}
    TTL = 2
    ReadBound = 1
    MaxWrites = 3
    MaxEvents = 2
    ScanFactor = 1
    ScanFloor = 1
    ScanCap = 2
INVARIANTS
    TypeOK
    AuditChain
    AuditComplete
    HistoryReadable
    BoundedStaleness
    UnlistedOnlyByRace
    CountersMatchTrail
PROPERTIES
    Convergence
