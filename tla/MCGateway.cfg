SPECIFICATION GatewayFairSpec
CONSTANTS
    Upstreams = {u1}
    Requests = {r1, r2}
    Methods = {"GET", "POST"}
    BreakerThreshold = 2
    BreakerReset = 1
    MaxRetries = 1
    Failures = {"5xx", "caught", "uncaught"}
    None = None
    k1 = k1
    host = host
    Callers <- MCCallers
    Paths = {"items", "search", "nowhere"}
    Serves <- MCServes
    PrefixLength <- MCPrefixLength
    Policies <- MCPolicies
    Limit <- MCLimit
    RouteTierPolicy <- MCRouteTierPolicy
    RoutePolicy <- MCRoutePolicy
    TierPolicy <- MCTierPolicy
INVARIANTS
    TypeOK
    GatewayTypeOK
    BreakerTracksRun
    RetriesStayInBudget
    HalfOpenHasProbe
PROPERTIES
    ProbesSpaced
    OnlyFailuresTrip
    AttemptsArePaid
    ImplementsProxy
    Recovery
    EveryRequestSettles
