SPECIFICATION JobsSpec
CONSTANTS
    r1 = r1
    r2 = r2
    w1 = w1
    w2 = w2
    f1 = f1
    s1 = s1
    s2 = s2
    p1 = p1
    t1 = t1
    n1 = n1
    v1 = v1
    v2 = v2
    Riders = {r1, r2}
    MaxTries = 1
    DispatchWorkers = {w1}
    MaxJobs = 1
    AutoRounds = 2
    DispatchAttempts = 2
    MaxStops = 1
    MaxRiderMoves = 0
    MaxHandovers = 1
    Cases = {1}
    Refunders = {f1}
    MaxRefundStops = 1
    MaxDeskActions = 1
    MaxHandoffTries = 1
    Pairs = {p1}
    KindSet <- MCKinds
    Sessions = {s1, s2}
    MaxSends = 2
    MaxRetry = 1
    MaxFaults = 1
    PrintTasks = {t1}
    PrintWorkers = {w1, w2}
    PrintAttempts = 2
    MaxPrintStops = 1
    MaxPrintRetries = 1
    Notices = {n1}
    Senders = {w1, w2}
    SendAttempts = 2
    Templates = {v1, v2}
    MaxSendStops = 1
    MaxSendRetries = 1
    Replicas = {"w1", "w2"}
    PhaseCount = 2
    BatchSize = 1
    IdBound = 2
    DayBound = 2
    FaultBound = 1
    RemindedLots = {"l1"}
    ExpiryDates = {1, 2}
    Reminders = {"w1", "w2"}
    Consents = {"c1"}
    ReminderFaults = 1
    Sources = {"s1"}
    Compensations = {"c1"}
    Holds = {"h1"}
    Payers = {"w1", "w2"}
    Amounts = {1, 2}
    LotBound = 2
    ReversalBound = 1
    PayerFaults = 1
    Clerks = {"worker"}
    DateBound = 2
    PerCycle = 1
    BillFaults = 1
INVARIANTS MessagesKept WorkIsReal CycleFindsAll BooksAgree
PROPERTIES WorkSettles
CHECK_DEADLOCK FALSE
