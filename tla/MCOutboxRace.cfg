SPECIFICATION LiveSpec
CONSTANTS
    w1 = w1
    w2 = w2
    t1 = t1
    t2 = t2
    t3 = t3
    t4 = t4
    t5 = t5
    NoToken = NoToken
    Events <- MCEvents1
    Kind <- AllRoutable
    Workers = {w1, w2}
    Tokens = {t1, t2, t3}
    BatchSize = 1
    MaxRetries = 3
    LateConfirms = TRUE
    MaxFaults = 2
INVARIANTS DeadHasLetter RetryBudget
PROPERTIES SettledForGood EventuallySettled
CHECK_DEADLOCK FALSE
