SPECIFICATION Spec
CONSTANTS
    r1 = r1
    r2 = r2
    r3 = r3
    r4 = r4
    k1 = k1
    k2 = k2
    Null = Null
    Requests <- FourRequests
    Keys <- TwoKeys
    KeyOf <- Addresses
    Unit = 2
    Burst = 3
    Rate = 2
    IdleLimit = 2
    MaxTime = 4
    Threshold = 1
    OpenFor = 0
SYMMETRY SameAddress
INVARIANTS
    OnlyUpstreamTrips
PROPERTIES
    ImplementsTokenBucket
CHECK_DEADLOCK FALSE
