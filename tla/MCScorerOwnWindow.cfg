SPECIFICATION OwnWindowSpec
CONSTANTS
    Clients = {c1}
    Workers = {w1, w2}
    MaxOthers = 0
    MinClients = 1
    MinObservations = 2
    MinForest = 1
    RefitInterval = 0
    MaxDelay = 0
    SustainWindow = 2
    Scores = {0, 3}
    Threshold = 2
    None = None
PROPERTIES
    FlagNeedsOwnWindow
