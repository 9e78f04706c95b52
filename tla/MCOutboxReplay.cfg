SPECIFICATION Spec
CONSTANTS
    w1 = w1
    w2 = w2
    t1 = t1
    t2 = t2
    t3 = t3
    t4 = t4
    t5 = t5
    NoToken = NoToken
    Events <- MCEvents5
    Kind <- MixedKinds
    Workers = {w1}
    Tokens = {t1, t2, t3, t4}
    BatchSize = 2
    MaxRetries = 1
    LateConfirms = FALSE
    MaxFaults = 1
SYMMETRY PublisherSymmetry
INVARIANTS PublishedReachedBroker ReplayedOnce
CHECK_DEADLOCK FALSE
