SPECIFICATION MiddlewareSpec
CONSTANTS
    q1 = q1
    q2 = q2
    Requests = {q1, q2}
    Loop = "loop"
    Threads = {"loop"}
    Keys <- TwoKeys
    Configs <- TwoConfigs
    Objects <- ThreeObjects
    MaxKeys = 1
    KeyTTL = 1
    MaxWait = 0
    Paths <- AllPaths
    Clients = {"client"}
    UnderPrefix = {"/admin"}
    ExcludedPaths = {"/docs", "/metrics"}
    RouteLimits = {"/metrics", "/admin"}
    KnownRoutes = {"/api/test", "/docs", "/metrics"}
    Backends = {"memory", "redis"}
    Faults = {"down", "lost"}
VIEW View
SYMMETRY Interchangeable
INVARIANTS
    Metered
    BudgetAccounted
    HeadersFit
