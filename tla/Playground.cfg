SPECIFICATION Spec
CONSTANTS
    t1 = t1
    t2 = t2
    Threads = {t1, t2}
    s1 = s1
    s2 = s2
    s3 = s3
    Sessions = {s1, s2, s3}
    Config <- OneOnRedis
    MaxSessions = 2
    MaxEvents = 1
    MaxBurst = 2
    MaxRequests = 2
VIEW Visible
SYMMETRY Interchangeable
INVARIANTS
    TallyBacked
    MostRecentKept
    DeletedStateIsGone
