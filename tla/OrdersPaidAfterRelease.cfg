SPECIFICATION Spec
CONSTANTS
    o1 = o1
    o2 = o2
    o3 = o3
    o4 = o4
    v1 = v1
    v2 = v2
    NoOrder = NoOrder
    Orders = {o1, o2}
    Variants = {v1}
    Procs = {p1, p2}
    Qty <- UnitCarts
    Cod = {o2}
    Couponed = {o1}
    RequestKey <- OwnKeys
    CustomerOf <- OneCustomer
    Guest = "guest"
    InitialStock <- OneUnit
    UsageLimit = 1
    UsagePerCustomer = 1
    Ops <- LifecycleOps
CHECK_DEADLOCK FALSE
SYMMETRY ProcSymmetry
CONSTRAINT OneSurplusUnit
PROPERTY LifecycleRespected
