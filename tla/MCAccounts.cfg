SPECIFICATION Spec
CONSTANTS
    r1 = r1
    r2 = r2
    r3 = r3
    root = root
    guest = guest
    Null = Null
    Replicas = {r1, r2, r3}
    Emails = {root, guest}
    BootstrapEmail = root
    Latest = 2
SYMMETRY Interchangeable
INVARIANTS
    ReadyToServe
