SPECIFICATION Spec
CONSTANTS
    w1 = w1
    w2 = w2
    t1 = t1
    t2 = t2
    NoPolicy = NoPolicy
    Routes = {"/a"}
    Bodies <- SomeBodies
    Static <- NoStatic
    Global <- Fallback
    Workers = {w1, w2}
    Threads = {t1, t2}
    WorkerOf <- TwoWorkers
    Backends = {"redis"}
    Faults = {}
    TTL = 2
    ReadBound = 2
    MaxWrites = 1
    MaxEvents = 2
    ScanFactor = 1
    ScanFloor = 1
    ScanCap = 2
INVARIANTS
    ConvergedWithinTTL
