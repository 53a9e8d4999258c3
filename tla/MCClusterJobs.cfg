SPECIFICATION MCJobsSpec
CONSTANTS
    n1 = n1
    n2 = n2
    conv1 = conv1
    conv2 = conv2
    prev1 = prev1
    browser = browser
    ffmpeg = ffmpeg
    imagemagick = imagemagick
    Namespaces = {n1, n2}
    Resources = {browser, ffmpeg, imagemagick}
    Jobs = {conv1, conv2, prev1}
    NsOf <- MCNsOf
    WantsOf <- MCWantsOf
    MaxFaults = 3
    MaxLate = 1
INVARIANTS
    RelockIsGranted
    WorkersHoldTheirLocks
    WorkerLimit
PROPERTIES
    KeepsQuota
    LeakedLockHeals
