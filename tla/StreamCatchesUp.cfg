SPECIFICATION FairSpec
CONSTANTS
    h1 = h1
    h2 = h2
    Handler <- TwoHandlers
    NoHandler = NoHandler
    Deployment = {"mixed"}
    Disturbance = {"rest", "link", "unheard", "reset"}
    QueueSize = 1
    RelaySize = 1
    MaxConnections = 1
    ReplayLimit = 1
    ChannelSize = 1
    MaxEvent = 2
    MaxSequence = 2
    MaxDisturbances = 2
INVARIANTS
    BookIncludesLast
PROPERTIES
    CatchesUp
    PlacesReturn
