SPECIFICATION Spec
CONSTANTS
    e1 = e1
    e2 = e2
    E2 = E2
    p1 = p1
    p2 = p2
    Emails = {e1, e2, E2}
    Lower <- MCLower
    Phones = {p1, p2}
    InitUsers <- MCUsers
    InitLetters <- MCLetters
    InitTokens <- MCTokens
    Changes <- MCChanges
    Ips = {ip1}
    LoginLimit = 2
    Workers = {w1, w2}
    MaxCalls = 3
    MaxTimeouts = 1
    MaxFailures = 1
    None = None
SYMMETRY Symmetry
INVARIANTS TypeOK CodeUsesBounded MailedCodeWorks AccountFresh OneLiveToken SuccessorsBounded LockoutExact
PROPERTIES SessionStaysEnded TokenForActive
CHECK_DEADLOCK FALSE
