SPECIFICATION FairPaySpec
CONSTANTS
    u1 = u1
    p1 = p1
    o1 = o1
    Users = {u1}
    Templates = {t1}
    FreeTemplates = {}
    Coupons = {}
    Requests = {r1, r2, r3, r4}
    PaidIds = {r3, r4}
    Phones = {p1}
    Workers = {w1}
    Limits = {}
    NewCoupons = {}
    Edits = {}
    Targets = {"APPROVED", "REJECTED"}
    InitPhone <- MCRegistered
    MaxBelowZero = 0
    MaxFailures = 0
    None = None
    NoLimit = NoLimit
    Orders = {o1}
    PayWorkers = {v1, v2}
    Retryable = FALSE
    Posts <- MCPosts
    Strays = {}
CHECK_DEADLOCK FALSE
INVARIANTS CompletedHasAccess ApprovedIsFulfilled
PROPERTY PaidIsUnlocked
