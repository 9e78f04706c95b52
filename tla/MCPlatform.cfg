SPECIFICATION PlatformSpec
CONSTANTS
  Lots = {1, 2, 3, 4}
  Customers = {"c1", "c2"}
  Gifts = {"g1"}
  Redemptions = {"r1"}
  Renewals = {"n1", "n2"}
  Purchases = {"p1", "p2"}
  Horizon = 3
  MaxRenewals = 2
  ClaimTTL = 2
  ShareTTL = 1
  ActiveTokenMax = 1
  TokenBound = 2
  RefundRows = 2
  Extension = 2
  PayWindow = 1
  Slots = {"s1", "s2"}
  MaxCap = 1
  Bottles = 2
  Limit = 1
  Validity = 2
  PurchaseWindow = 1
  RefundWindow = 1
  QuoteTTL = 1
  Windows <- mcWindows
  SessionBound = 2
  Entrants = {"e1", "e2"}
  Roles = {"owner", "clerk"}
  Shops = {"one"}
  SecondBound = 1
  ChangeBound = 1
  OpenIds = {"o1", "o2"}
  Phones = {"f1", "f2"}
  Devices = {"d1", "d2"}
  CodeTTL = 2
  MinuteBound = 2
  TextBound = 2
  BindBound = 2
  People = {"p1", "p2"}
  Scopes = {"a", "b"}
  CodeBound = 2
  SubmitBound = 2
  EditBound = 5
  Callers = {"h1", "h2"}
  SessionCount = 2
  VerdictBound = 2
  ReviewBound = 1
  LastDay = 1
  Aspects = {{"Production", "PhaseOne", "Wine", "WorkerOwner", "Purchase", "Renewal", "TicketRefund", "WineBills", "Reminder", "RefundExecution", "RefundWorker", "Expiry", "Pay", "ReturnApproval", "Return"}, {"Production", "PhaseOne", "Rabbit", "Redis", "Fallback", "CP1Worker", "Print", "ConsumePrint", "ConsumeCache", "ConsumeRealtime", "Publisher", "Relay", "Realtime", "Return"}}
  WorkerRoles = {"all", "wine-ticket-maintenance", "Print"}
  ProcessBound = 2
  Instances = {"i1", "i2"}
  MomentBound = 10
  FailedCalls = 2
  Links = {"k1", "k2"}
  MaxLinks = 1
  QueueSize = 1
  ResumeLimit = 1
  RelayTries = 1
  AlertFaults = 1
  AlertIds = {1, 2}
  Stories <- mcStories
INVARIANTS
  LotsReconcile SpentOnce CabinetIsTrue RightsAreCurrent
  PeopleAreKnown ProcessesInPlace
CHECK_DEADLOCK FALSE
