SPECIFICATION Spec
CONSTANTS
    c1 = c1
    c2 = c2
    Null = Null
    Conns <- TwoConns
    MaxMessages = 4
    User <- Users
    Role <- Roles
    TargetUsers <- ToUser
    TargetRoles <- ToRoles
    MaxConnections = 1
    QueueLimit = 2
INVARIANTS
    ReceivedInOrder
    SocketsTracked
PROPERTY
    AllHandled
CHECK_DEADLOCK FALSE
