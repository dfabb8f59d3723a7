SPECIFICATION FairSpec
CONSTANTS
    Negotiate = Negotiate
    Warm = Warm
    None = None
    Clients = {c1, c2, c3}
    Workers = 2
    MaxConnections = 4
    Split = {}
INVARIANTS
    OwnAnswer
    WrittenAnswerArrives
    NothingLeftBehind
PROPERTIES
    BrokerFollowsBackend
