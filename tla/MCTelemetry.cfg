SPECIFICATION Spec
SYMMETRY RecorderSymmetry
CONSTANTS
    Recorders = {t1, t2}
    Upstreams = {u1}
    Statuses = {"4xx", "5xx"}
    MaxEvents = 3
    Edges <- MCEdges
    Durations = {4, 5}
    Percents = {50, 95, 99}
    None = None
INVARIANTS
    TypeOK
    SharesOfTotal
    NothingLost
    PercentilesBound
