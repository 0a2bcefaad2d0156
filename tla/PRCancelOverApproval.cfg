SPECIFICATION Spec
CONSTANTS
    u1 = u1
    u2 = u2
    p1 = p1
    p2 = p2
    Users = {u1}
    Templates = {t1}
    FreeTemplates = {}
    Coupons = {c1}
    Requests = {r1, r2}
    PaidIds = {}
    Phones = {p1}
    Workers = {w1, w2}
    Limits = {1}
    NewCoupons <- MCNewCoupons
    Edits = {}
    Targets = {"PENDING", "APPROVED", "REJECTED", "CANCELLED"}
    InitPhone <- MCRegistered
    MaxBelowZero = 1
    MaxFailures = 0
    None = None
    NoLimit = NoLimit
PROPERTY OnlyPendingTransitions
