SPECIFICATION Spec
CONSTANTS
    Algorithms = {"sliding_window", "fixed_window", "token_bucket", "leaky_bucket"}
    Limits = {1, 2}
    Windows = {1, 2}
    MaxLimit = 2
    MinLimit = 1
    MinPeriod = 2
    SEC = 2
    Unit = 4
    MinRate = 1
    MaxRate = 4
    MaxLag = 1
    MaxTime = 7
VIEW View
INVARIANTS
    TypeOK
    SlidingBounded
    SlidingRejectsRightly
    SlidingResetsInTime
    FixedBounded
    FixedRejectsRightly
    FixedResetsInTime
    TokenBounded
    TokenRejectsRightly
    TokenResetsInTime
    LeakyBounded
    LeakyRejectsRightly
    LeakyResetsInTime
PROPERTIES
    ImplementsMeter
