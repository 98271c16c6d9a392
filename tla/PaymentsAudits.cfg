SPECIFICATION FairPayments
CONSTANTS
    Orders = {o1}
    Intentions = {i1}
    Txns = {t1}
    None = None
    Calls = {c1, c2}
    Parts = 1
CHECK_DEADLOCK FALSE
PROPERTY LostRefundIsReported
