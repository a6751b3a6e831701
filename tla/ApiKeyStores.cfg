SPECIFICATION StoresSpec
CONSTANTS
    k1 = k1
    k2 = k2
    Keys = {k1, k2}
    c1 = c1
    c2 = c2
    Callers = {c1, c2}
    TTLs = {0, 1}
    MaxTime = 2
    Backends = {"memory", "redis"}
SYMMETRY Interchangeable
INVARIANTS
    WithdrawnStaysOut
    IssuedStaysUsable
