SPECIFICATION FairSpecPeak
CONSTANTS
    n1 = n1
    n2 = n2
    c1 = c1
    c2 = c2
    Names <- MCNames
    Conns = {c1, c2}
    Width = 2
    Requests <- MCRequests
    Releases <- MCReleases
    StatInterval = 2
    MaxConnections = 2
    Buckets = 1
    BucketOf <- MCOneBucket
    StartTime = 1
    MaxTime = 2
INVARIANTS Conservation ThrowNeedsOverflow PeakIsExact
PROPERTY GoneIsReleased
CHECK_DEADLOCK FALSE
