SPECIFICATION FairSpec
CONSTANTS
    o1 = o1
    o2 = o2
    goods = goods
    None = None
    Orders = {o1, o2}
    Products = {goods}
    Units0 = 1
    Qty <- MCQty
    Initial <- MCInitial
    MockEnabled = TRUE
    Creates = {c1}
    SecondOrder = {}
    SharedKey = {}
    OrderOf <- MCOrderOf
    KeyOf <- MCKeyOf
    Tasks = {t1}
    Suspect = {o1}
PROPERTIES
    MoneyIsRecorded
    ExpiredOrderSettles
CHECK_DEADLOCK FALSE
