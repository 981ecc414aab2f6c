SPECIFICATION Spec
CONSTANTS
    admin = admin
    a1 = a1
    a2 = a2
    u1 = u1
    u2 = u2
    w1 = w1
    zero = zero
    Null = Null
    Admins <- OneAdmin
    Agents <- TwoAgents
    Customers <- TwoCustomers
    Owners = {u1}
    Assignees <- Anyone
    Workers = {w1}
    PageLimit = 1
    MaxTickets = 2
    MaxItems = 1
    MaxLeft = 2
SYMMETRY Interchangeable
VIEW WithoutShown
PROPERTIES
    ShownToParties
    PagesComplete
CHECK_DEADLOCK FALSE
