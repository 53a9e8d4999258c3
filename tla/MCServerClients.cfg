SPECIFICATION FairSpec
CONSTANTS
    p = p
    f = f
    g = g
    c1 = c1
    c2 = c2
    None = None
    Servers = {p, f, g}
    Primary = p
    Recommended <- MCRecommended
    ByDefault = {f}
    Calls = {c1, c2}
    Retries = 1
    MaxVersion = 2
    MaxAsked = 2
    MaxFaults = 2
INVARIANTS
    OneLoaderEach
    StoreFollowsClient
    IdsMatchEntities
PROPERTIES
    CallsFinish
    StartFinishes
CHECK_DEADLOCK FALSE
