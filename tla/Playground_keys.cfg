SPECIFICATION Spec
CONSTANTS
    t1 = t1
    t2 = t2
    Threads = {t1}
    s1 = s1
    s2 = s2
    s3 = s3
    Sessions = {s1}
    Config <- FixedOnRedis
    MaxSessions = 1
    MaxEvents = 1
    MaxBurst = 1
    MaxRequests = 1
INVARIANTS
    KeyHygiene
