SPECIFICATION FairRenewalSpec
CONSTANTS
    u1 = u1
    u2 = u2
    storage = storage
    grants = grants
    hosting = hosting
    perms = perms
    events = events
    t1 = t1
    t2 = t2
    post = post
    event = event
    s1 = s1
    s2 = s2
    None = None
    Default = Default
    TypeOf <- MCTypeOf
    PermissionsIn <- MCPermissionsIn
    Users = {u1}
    Products = {storage, grants, perms, events}
    Terms = {t1}
    Sessions = {s1, s2}
    MaxSubs = 2
    MaxTime = 2
    MaxFaults = 1
    Hooks = {h1}
    MaxExtra = 0
    Cancelers = {c1}
    Editors = {}
    Caps = {0}
    MaxEdits = 0
    SoldFirst = storage
    PeriodOf <- MCPeriodOf
INVARIANTS
    ChargesAreRecorded
    NoDoubleCharge
    ServedForWhatWasPaid
PROPERTIES
    NothingIsLeft
    KeepsLedger
CHECK_DEADLOCK FALSE
