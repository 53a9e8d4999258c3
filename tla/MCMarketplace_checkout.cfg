SPECIFICATION CheckoutSpec
CONSTANTS
    u1 = u1
    u2 = u2
    storage = storage
    grants = grants
    hosting = hosting
    perms = perms
    events = events
    t1 = t1
    t2 = t2
    post = post
    event = event
    s1 = s1
    s2 = s2
    None = None
    Default = Default
    TypeOf <- MCTypeOf
    PermissionsIn <- MCPermissionsIn
    Users = {u1}
    Products = {storage, perms, events}
    Terms = {t1, t2}
    Sessions = {s1, s2}
    MaxSubs = 4
    MaxTime = 0
    MaxFaults = 2
    Hooks = {h1, h2}
    MaxExtra = 0
    Cancelers = {}
    Editors = {}
    Caps = {0}
    MaxEdits = 0
    SoldFirst = storage
    PeriodOf <- MCPeriodOf
INVARIANTS
    OnePurchasePerSession
    UnboughtComeFromFailures
    UngrantedComeFromFailures
PROPERTIES
    PaidIsRecorded
    BooksOrders
CHECK_DEADLOCK FALSE
