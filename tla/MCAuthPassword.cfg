SPECIFICATION Spec
CONSTANTS
    u1 = u1
    u2 = u2
    w1 = w1
    w2 = w2
    Null = Null
    Users <- OneUser
    Workers <- TwoWorkers
    MaxSessions = 2
    Happens = {"changePassword", "profile"}
    MaxIssued = 2
SYMMETRY Symmetry
PROPERTIES
    PasswordKept
