SPECIFICATION RetailSpec
CONSTANTS
    o1 = o1
    o2 = o2
    p1 = p1
    p2 = p2
    Orders = {o1, o2}
    Products = {p1, p2}
    Qty <- MCQty
    Initial <- MCInitial
    MockEnabled = TRUE
    Outlets = {"x", "y"}
    Goods = {"g"}
    Handsets = {"d1", "d2"}
    CartLimit = 2
    AskBound = 2
    TradeBound = 1
    Shoppers = {"s1"}
    Writers = {"w1"}
    Cities = {"x", "y"}
    WriteBound = 2
    DeathBound = 1
    ReadAttempts = 2
    Admins = {"a1", "a2"}
    PaperBound = 2
    WorkBound = 5
    HourBound = 3
INVARIANTS
    StockConserved
    ReservationSettledOnce
    MoneyHasOutcome
    CatalogueIsHonest
    CartIsSerial
PROPERTIES
    NoRevival
CHECK_DEADLOCK FALSE
