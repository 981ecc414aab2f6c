SPECIFICATION Spec
CONSTANTS
    u1 = u1
    u2 = u2
    w1 = w1
    w2 = w2
    Null = Null
    Users <- TwoUsers
    Workers <- TwoWorkers
    MaxSessions = 1
    Happens = {"login", "refresh", "logout", "logoutAll", "changePassword",
               "profile", "expiry", "dbError"}
    MaxIssued = 3
SYMMETRY Symmetry
INVARIANTS
    TypeOK
    RotatedOnce
    ReplayRejected
    LocksUntangle
PROPERTIES
    SeenAreRevoked
    OthersUntouched
    CapKeptByLogins
