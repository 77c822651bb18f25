SPECIFICATION Spec
CONSTANTS
    u1 = u1
    u2 = u2
    b1 = b1
    b2 = b2
    f1 = f1
    f2 = f2
    c1 = c1
    c2 = c2
    c3 = c3
    q1 = q1
    q2 = q2
    q3 = q3
    v1 = v1
    v2 = v2
    s1 = s1
    s2 = s2
    s3 = s3
    Operator = Operator
    None = None
    Users = {u1, u2}
    Browsers = {b1, b2}
    Flows = {f1, f2}
    Callbacks = {c1, c2, c3}
    Requests = {}
    Conversations = {}
    Stored <- StoredForLogins
    FlowCap = 2
    FlowLife = 1
    SessionCap = 2
    SessionLife = 2
    TokenLife = 1
    Limit <- OneEach
    Period <- SearchShorter
    Horizon = 3
SYMMETRY Interchangeable
INVARIANTS
    FlowLogsInOnce
    DisabledHaveNoSession
    SessionsCapped
PROPERTIES
    LoginEvictsOldest
CHECK_DEADLOCK FALSE
