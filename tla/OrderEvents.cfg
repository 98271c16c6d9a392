SPECIFICATION OrderEventsSpec
CONSTANTS
    o1 = o1
    o2 = o2
    NoOrder = NoOrder
    Orders = {o1}
    Variants = {v1}
    Procs = {p1, p2}
    Qty <- OneUnitEach
    Cod = {}
    Couponed = {o1}
    RequestKey <- OwnKey
    CustomerOf <- Alice
    Guest = "guest"
    InitialStock <- OneInStock
    UsageLimit = 2
    UsagePerCustomer = 1
    Ops = {"create", "cancel", "expire"}
    Events = {1, 2}
    NoEvent = 0
    Oversized = {2}
    Workers = {w1, w2}
    Limit = 2
    LeaseCovers = 1
    Retries = 1
    Created <- FirstEvents
    Resolved <- SecondEvents
CHECK_DEADLOCK FALSE
PROPERTIES LapsedIsResolved ChangesAreReported
