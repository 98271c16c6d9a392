SPECIFICATION PaymentsSpec
CONSTANTS
    Orders = {o1}
    Intentions = {i1, i2}
    Txns = {t1, t2}
    None = None
    Calls = {c1, c2}
    Parts = 1
SYMMETRY PaymentSymmetry
CHECK_DEADLOCK FALSE
INVARIANTS PaymentsTypeOK OneSessionPerOrder OneVerdict RecordsAreBacked NothingToRepair
