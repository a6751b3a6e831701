SPECIFICATION Spec
CONSTANTS
    t1 = t1
    t2 = t2
    Threads = {t1, t2}
    k1 = k1
    k2 = k2
    k3 = k3
    Keys = {k1, k2, k3}
    Configs <- TwoConfigs
    Objects <- FiveObjects
    MaxKeys = 2
    KeyTTL = 2
    MaxWait = 1
SYMMETRY Interchangeable
INVARIANTS
    LeastRecentlyUsedGoes
    OneBudget
PROPERTIES
    HandedOutAsResolved
    StateSurvives
