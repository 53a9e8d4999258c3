SPECIFICATION MCSpec
CONSTANTS
    home = home
    guest = guest
    a1 = a1
    a2 = a2
    None = None
    Hosts = {home, guest}
    Accounts = {a1, a2}
    HostOf <- MCHostOf
    MaxAsked = 2
    MaxFaults = 1
INVARIANTS
    PinnedAccountsExist
    SignedInView
PROPERTIES
    GroupsGetLoaded
CHECK_DEADLOCK FALSE
