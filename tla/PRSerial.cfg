SPECIFICATION Spec
CONSTANTS
    u1 = u1
    u2 = u2
    p1 = p1
    p2 = p2
    Users = {u1, u2}
    Templates = {t1, t2}
    FreeTemplates = {t2}
    Coupons = {c1}
    Requests = {r1, r2, r3}
    PaidIds = {}
    Phones = {p1, p2}
    Workers = {w1}
    Limits = {1, 2}
    NewCoupons <- MCNewCoupons
    Edits <- MCAllEdits
    Targets = {"APPROVED", "REJECTED"}
    InitPhone <- MCGoogleAndRegistered
    MaxBelowZero = 1
    MaxFailures = 0
    None = None
    NoLimit = NoLimit
SYMMETRY Symmetric
INVARIANTS CouponCountExact CouponWithinLimit
PROPERTIES ImplementsLifecycle PhoneNotReplaced
