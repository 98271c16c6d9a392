SPECIFICATION StoreSpec
CONSTANTS
    o1 = o1
    o2 = o2
    o3 = o3
    o4 = o4
    v1 = v1
    v2 = v2
    NoOrder = NoOrder
    Orders = {o1, o2, o3}
    Variants = {v1, v2}
    Procs = {p1}
    Qty <- MixedCarts
    Cod = {o3}
    Couponed = {o1, o2, o3}
    RequestKey <- OwnKeys
    CustomerOf <- GuestThird
    Guest = "guest"
    InitialStock <- TwoUnits
    UsageLimit = 2
    UsagePerCustomer = 1
    Ops <- AllOps
    Events = {1, 2}
    NoEvent = 0
    Oversized = {}
    Workers = {c1, c2}
    Limit = 2
    LeaseCovers = 1
    Retries = 0
    AgentKeys = {k1}
    k1 = k1
    AgentCalls = {c1, c2}
    MostRuns = 2
    Cases = {x1, x2}
    NoCase = NoCase
    Deciders = {c1, c2}
    Cats = {shoes, other}
    Uncategorized = other
    NoCat = NoCat
    Goods = {g1, g2}
    Editors = {c1, c2}
    Forms = {c1, c2}
    Prices = {1, 2}
    MostStock = 1
    MostWrites = 3
    Terms <- SomeTerms
    Sites <- SomeSites
    Fees = {10}
    Subtotals = {25, 95}
    MostUses = 2
    Buyers = {c1, c2}
    SettingsCalls = {c1, c2}
    MostEdits = 1
    Texts = {m1}
    Chats = {m3, m4}
    sender = sender
    Senders = {sender}
    SenderOf <- OneSender
    Hooks = {c1, c2}
    MostRows = 2
    Clerks = {c1, c2}
    Days = {1, 2, 3}
    MostChanges = 3
    Desks = {c1, c2}
    Tags = {1, 2}
    Shelved = {g1, g2, g3}
    Pictures = {m1, m2}
    Numbers = {o1}
    Trackers = {c1, c2}
    Window = 2
    MostTries = 3
    LastMoment = 4
SYMMETRY StoreSymmetry
CHECK_DEADLOCK FALSE
INVARIANTS StoreTypeOK Conservation CouponExact LimitsHold OnTimeIsSentOnce
    AnswersStand ShelvesHold NoBlindEdit QuotesAndAmounts SeedingSparesOwner KeptOnce
PROPERTIES LifecycleRespected OnTimeStaysDelivered
