SPECIFICATION FairSpec
CONSTANTS
    Upstreams = {u1}
    Requests = {r1, r2}
    Methods = {"GET", "POST"}
    BreakerThreshold = 2
    BreakerReset = 1
    MaxRetries = 1
    Failures = {"5xx", "caught", "uncaught"}
    None = None
PROPERTIES
    ProbeDecides
