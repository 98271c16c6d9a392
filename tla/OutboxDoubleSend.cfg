SPECIFICATION OutboxSpec
CONSTANTS
    Events = {1, 2}
    NoEvent = 0
    Oversized = {}
    Workers = {w1, w2}
    Limit = 2
    LeaseCovers = 1
    Retries = 1
SYMMETRY WorkerSymmetry
CHECK_DEADLOCK FALSE
INVARIANT NoDoubleSend
