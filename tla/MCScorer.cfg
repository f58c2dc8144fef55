SPECIFICATION Spec
SYMMETRY WorkerSymmetry
CONSTANTS
    Clients = {c1}
    Workers = {w1, w2}
    MaxOthers = 2
    MinClients = 2
    MinObservations = 2
    MinForest = 3
    RefitInterval = 2
    MaxDelay = 1
    SustainWindow = 2
    Scores = {0, 1}
    Threshold = 1
    None = None
INVARIANTS
    TypeOK
    FlagIsSustained
    BlindScoresAreFew
PROPERTIES
    ForestFitsApart
