SPECIFICATION Spec
CONSTANTS
    a1 = a1
    g1 = g1
    g2 = g2
    u1 = u1
    t1 = t1
    w1 = w1
    w2 = w2
    Null = Null
    Zero = Zero
    Admins = {}
    Agents <- MCAgents
    Customers <- MCCustomers
    Tickets <- MCTickets
    Workers <- MCWorkers
    MaxClock = 2
PROPERTIES
    AllowedWhenApplied
