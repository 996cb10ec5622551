SPECIFICATION MCSpec
CONSTANTS
    r1 = r1
    r2 = r2
    r3 = r3
    r4 = r4
    c1 = c1
    c2 = c2
    k1 = k1
    j1 = j1
    j2 = j2
    j3 = j3
    b1 = b1
    i1 = i1
    i2 = i2
    x1 = x1
    a1 = a1
    Runs = {r1, r2, r3, r4}
    Clients = {c1, c2}
    CreateKeys = {k1}
    JobKeys = {j1, j2, j3}
    ExportKeys = {x1}
    Briefs = {b1}
    Inputs = {i1, i2}
    Auths = {a1}
    None = None
    MaxFiles = 3
    MaxRev <- MCMaxRev
    FirstExport = 6
SYMMETRY Symmetry
INVARIANTS
    TypeOK
    OneRunPerCreateKey
    AgentSpendIsAuthorized
    ArtifactsHaveFiles
    ExportMatchesRun
    ReplaysAgree
CHECK_DEADLOCK FALSE
