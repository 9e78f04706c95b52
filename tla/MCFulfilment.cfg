SPECIFICATION FulfilSpec
CONSTANTS
    r1 = r1
    r2 = r2
    w1 = w1
    f1 = f1
    Riders = {r1, r2}
    MaxTries = 2
    DispatchWorkers = {w1}
    MaxJobs = 2
    AutoRounds = 2
    DispatchAttempts = 2
    MaxStops = 1
    MaxRiderMoves = 1
    MaxHandovers = 2
    Cases = {1, 2}
    Refunders = {f1}
    MaxRefundStops = 1
    MaxDeskActions = 2
    MaxHandoffTries = 1
INVARIANTS RecordsAgree HandoverKept RefundedOnce ReturnIsWhole MoneyHasReason
PROPERTIES RefundedStaysWithShop
CHECK_DEADLOCK FALSE
