SPECIFICATION Spec
CONSTANTS
    Clients = {c1, c2}
    MaxRequests = 2
    Threads = 2
    Window = 2
    None = None
INVARIANTS
    EveryRequestRecorded
