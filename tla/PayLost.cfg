SPECIFICATION PaySpec
CONSTANTS
    u1 = u1
    p1 = p1
    o1 = o1
    Users = {u1}
    Templates = {t1}
    FreeTemplates = {}
    Coupons = {}
    Requests = {r1, r2, r3}
    PaidIds = {r1, r2, r3}
    Phones = {p1}
    Workers = {}
    Limits = {}
    NewCoupons = {}
    Edits = {}
    Targets = {}
    InitPhone <- MCRegistered
    MaxBelowZero = 0
    MaxFailures = 1
    None = None
    NoLimit = NoLimit
    Orders = {o1}
    PayWorkers = {w1}
    Retryable = FALSE
    Posts = {}
    Strays = {}
CHECK_DEADLOCK FALSE
INVARIANT CompletedHasAccess
