SPECIFICATION Spec
CONSTANTS
    o1 = o1
    o2 = o2
    goods = goods
    None = None
    Orders = {o1}
    Products = {goods}
    Units0 = 1
    Qty <- MCQty
    Initial <- MCInitial
    MockEnabled = FALSE
    Creates = {c1, c2}
    SecondOrder = {}
    SharedKey = {c1, c2}
    OrderOf <- MCOrderOf
    KeyOf <- MCKeyOf
    Tasks = {t1, t2}
    Suspect = {}
INVARIANTS
    NoPayerAbandoned
CHECK_DEADLOCK FALSE
