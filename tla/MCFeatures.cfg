SPECIFICATION FairSpec
CONSTANTS
    Clients = {c1, c2}
    MaxRequests = 3
    Threads = 2
    Window = 2
    None = None
INVARIANTS
    TypeOK
    LossNeedsOverlap
    EmptyIsBeingFilled
PROPERTIES
    IdleForgotten
