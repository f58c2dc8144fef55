SPECIFICATION FairSpec
CONSTANTS
    Clients = {c1, c2}
    Capacity = 3
    Refill = 2
    Costs = {1, 3}
    MaxIdle = 2
    MaxWindow = 3
    None = None
INVARIANTS
    TypeOK
    WindowBound
    RetryExact
PROPERTIES
    ImplementsRateLimit
    DeniedIsServed
    IdleForgotten
