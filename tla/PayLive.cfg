SPECIFICATION FairPaySpec
CONSTANTS
    u1 = u1
    p1 = p1
    o1 = o1
    Users = {u1}
    Templates = {t1}
    FreeTemplates = {}
    Coupons = {}
    Requests = {r1, r2, r3}
    PaidIds = {r1, r2, r3}
    Phones = {p1}
    Workers = {}
    Limits = {}
    NewCoupons = {}
    Edits = {}
    Targets = {}
    InitPhone <- MCRegistered
    MaxBelowZero = 0
    MaxFailures = 1
    None = None
    NoLimit = NoLimit
    Orders = {o1, o2}
    PayWorkers = {w1, w2}
    Retryable = FALSE
    Posts = {}
    Strays = {o1}
CHECK_DEADLOCK FALSE
INVARIANTS PayTypeOK CompletedWasCaptured CapturedNotFailed GrantsBounded
PROPERTY CapturedIsCompleted
