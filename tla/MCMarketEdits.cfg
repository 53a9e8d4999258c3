SPECIFICATION MCEditsSpec
CONSTANTS
    u1 = u1
    u2 = u2
    storage = storage
    grants = grants
    hosting = hosting
    perms = perms
    events = events
    t1 = t1
    t2 = t2
    post = post
    event = event
    s1 = s1
    s2 = s2
    s3 = s3
    c1 = c1
    c2 = c2
    e1 = e1
    e2 = e2
    None = None
    Default = Default
    TypeOf <- MCTypeOf
    PermissionsIn <- MCPermissionsIn
    Users = {u1}
    Products = {hosting}
    Terms = {t1}
    Sessions = {s1, s2, s3}
    MaxSubs = 3
    MaxTime = 2
    MaxFaults = 1
    Hooks = {h1}
    MaxExtra = 0
    Cancelers = {c1, c2}
    Editors = {e1, e2}
    Caps = {0}
    MaxEdits = 2
    SoldFirst = hosting
    PeriodOf <- MCPeriodOf
SYMMETRY MCSymmetry
INVARIANTS
    SoldCoversLiveSubs
PROPERTIES
    CancellationSticks
    NotesLostOnlyToOverlaps
CHECK_DEADLOCK FALSE
