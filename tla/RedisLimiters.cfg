SPECIFICATION Spec
CONSTANTS
    Algorithms = {"fixed_window", "sliding_window", "token_bucket", "leaky_bucket"}
    Limits = {1, 2}
    Windows = {1, 2}
    MaxLimit = 2
    MinLimit = 1
    MinPeriod = 2
    MaxPeriod = 4
    SEC = 2
    Unit = 4
    MinRate = 1
    MaxRate = 4
    FullRate = 4
    Shortened <- ShortPolicies
    MaxLag = 0
    MaxTime = 4
    MaxAttempts = 4
    Margin = 1
INVARIANTS
    AdmissionsBounded
    RejectedOnlyWhenSpent
    RetryAfterSuffices
