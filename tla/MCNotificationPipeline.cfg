SPECIFICATION Spec
CONSTANTS
    r1 = r1
    r2 = r2
    e1 = e1
    u1 = u1
    Null = Null
    Replicas <- TwoReplicas
    Events <- OneEvent
    Users <- OneUser
    QueueTypes <- BothTypes
    MaxDrops = 2
INVARIANTS
    DuplicatesPaid
    LiveOnce
PROPERTIES
    ImplementsDelivery
    EventuallySettled
CHECK_DEADLOCK FALSE
