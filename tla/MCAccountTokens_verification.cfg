SPECIFICATION LoneSpec
CONSTANTS
    a1 = a1
    a2 = a2
    c1 = c1
    c2 = c2
    Never = Never
    None = None
    AccessLife = 1
    Grace = 1
    LongLife = 3
    Accounts = {a1}
    Calls = {c1}
    MaxCalls = 2
    MaxTokens = 8
    MaxTime = 2
    MaxFaults = 0
INVARIANTS
    LastTokenKept
CHECK_DEADLOCK FALSE
