SPECIFICATION Spec
SYMMETRY ThreadSymmetry
CONSTANTS
    Threads = {t1,t2}
    Clients = {c1,c2}
    Stripes = {c1,c2}
    StripeOf <- OwnStripe
    Capacity = 2
    Refill = 1
    Cost = 1
    MaxIdle = 3
    MaxDelay = 1
    MaxWindow = 2
    None = None
INVARIANTS
    TypeOK
    OneRegistry
    WindowBound
