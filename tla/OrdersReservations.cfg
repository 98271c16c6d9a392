SPECIFICATION Spec
CONSTANTS
    o1 = o1
    o2 = o2
    o3 = o3
    o4 = o4
    v1 = v1
    v2 = v2
    NoOrder = NoOrder
    Orders = {o1, o2, o3, o4}
    Variants = {v1, v2}
    Procs = {p1, p2, p3}
    Qty <- MixedCarts
    Cod = {o3}
    Couponed = {o1, o2, o3}
    RequestKey <- RetryKeys
    CustomerOf <- GuestThird
    Guest = "guest"
    InitialStock <- TwoUnits
    UsageLimit = 1
    UsagePerCustomer = 2
    Ops <- ReservationOps
SYMMETRY ProcSymmetry
CHECK_DEADLOCK FALSE
INVARIANT Conservation
INVARIANT CouponExact
INVARIANT CouponWithinLimit
INVARIANT OneOrderPerKey
INVARIANT ReservedCovered
PROPERTY LedgerSpec
