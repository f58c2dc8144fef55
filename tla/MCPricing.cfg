SPECIFICATION PricingSpec
CONSTANTS
    Upstreams = {pricing}
    Requests = {r1, r2}
    Methods = {"GET", "POST"}
    BreakerThreshold = 2
    BreakerReset = 1
    MaxRetries = 1
    Failures = {"5xx", "caught", "uncaught"}
    None = None
    Half = 1048576
    MaxLines = 1
    Text = Text
    Quantities = {0, 1, Text}
    Batches <- MCBatches
INVARIANTS
    HealthyStaysInRotation
