SPECIFICATION MCSpec
CHECK_DEADLOCK FALSE
CONSTANTS
    r1 = r1  g1 = g1  k1 = k1  x1 = x1  i1 = i1
    None = None
    Grants = {g1}
    Authorities <- MCAuthorities
    Runs = {r1, r2}
    Keys = {k1, k2}
    StartKeys = {s1}
    Pages = {x1}
    Inputs = {i1, i2}
    Fitting = {i1}
    Threads = {t1, t2}
    NumQueries = 2
    MaxPages = 1
    MaxEvaluations = 1
    MaxSlot = 2
    MaxRev = 2
    Chats = {c1, c2}
    TurnKeys = {m1, m2}
    Clients = {u1, u2}
    MaxRequests = 1
    TurnLimit = 2
    CallLimit = 2
    MaxUsed = 2
    MaxTurns = 2
SYMMETRY Symmetry
INVARIANTS TypeOK EachCallOnce ResultsAreApproved SpendIsGranted TurnsAreNumbered
